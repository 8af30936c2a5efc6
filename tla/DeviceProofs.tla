---------------------------- MODULE DeviceProofs ----------------------------
(***************************************************************************)
(* Conversations of the host with what hangs on its boards: the clock of a *)
(* board, the identification of a board over its serial link, a heater     *)
(* with its watchdogs, the buttons, and the toolhead that keeps a board in *)
(* steps.                                                                  *)
(***************************************************************************)
EXTENDS ClockSync, Serial, Heat, Buttons, Toolhead, TLAPS, WellFoundedInduction

-----------------------------------------------------------------------------
(* Remainders                                                              *)

\* What % and \div give, for the numbers the modules use them with.
LEMMA Remainders ==
  ASSUME NEW w \in Nat \ {0}, NEW c \in Int
  PROVE  c % w \in 0 .. w - 1 /\ c \div w \in Int /\ c % w = c - w * (c \div w)
<1>1. c % w \in 0 .. w - 1
  OBVIOUS
<1>2. c \div w \in Int
  OBVIOUS
<1>3. c % w = c - w * (c \div w)
  OBVIOUS
<1> QED
  BY <1>1, <1>2, <1>3

\* A number is known from a whole number of turns and the rest.
LEMMA RemainderIs ==
  ASSUME NEW w \in Nat \ {0}, NEW q \in Int, NEW r \in 0 .. w - 1
  PROVE  (w * q + r) % w = r
OBVIOUS

-----------------------------------------------------------------------------
(* Clocks of a limited width                                               *)

\* Two clocks less than a turn apart differ by one turn at most.
LEMMA OneTurn ==
  ASSUME NEW w \in Nat \ {0}, NEW k \in Int, -w < w * k, w * k < 2 * w
  PROVE  k = 0 \/ k = 1
OBVIOUS

\* The low part of a clock that is less than a turn ahead is extended right.
LEMMA ExtendFacts ==
  ASSUME Width \in Nat \ {0}, NEW last \in Nat, NEW c \in Nat, last <= c, c - last < Width
  PROVE  Extend(last, c % Width) = c
<1> DEFINE p == last \div Width
<1> DEFINE q == c \div Width
<1> DEFINE rest == last % Width
<1> DEFINE low == c % Width
<1> DEFINE before == Width * p
<1> DEFINE full == Width * q
<1>1. rest \in 0 .. Width - 1 /\ p \in Int /\ rest = last - before
  BY Remainders
<1>2. low \in 0 .. Width - 1 /\ q \in Int /\ low = c - full
  BY Remainders
<1> HIDE DEF p, q, rest, low
<1>3. before \in Int /\ full \in Int /\ Width * (q - p) = full - before
  BY <1>1, <1>2
<1> HIDE DEF before, full
<1>4. -Width < Width * (q - p) /\ Width * (q - p) < 2 * Width
  BY <1>1, <1>2, <1>3
<1>5. q - p = 0 \/ q - p = 1
  BY <1>1, <1>2, <1>4, OneTurn
<1>6. Extend(last, low) = LET e == (last - rest) + low IN IF e < last THEN e + Width ELSE e
  BY DEF Extend, rest
<1>7. CASE q - p = 0
  <2>1. full = before
    BY <1>3, <1>7
  <2>2. (last - rest) + low = c
    BY <1>1, <1>2, <1>3, <2>1
  <2> QED
    BY <1>6, <2>2 DEF low
<1>8. CASE q - p = 1
  <2>1. full - before = Width
    BY <1>3, <1>8
  <2>2. (last - rest) + low = c - Width
    BY <1>1, <1>2, <1>3, <2>1
  <2> QED
    BY <1>6, <2>2 DEF low
<1> QED
  BY <1>5, <1>7, <1>8

\* What is dated from an earlier clock within half a turn is dated right.
LEMMA Clock64Facts ==
  ASSUME Width \in Nat, Width >= 2, NEW last \in Nat, NEW c \in Nat, last <= c, c - last <= Width \div 2
  PROVE  Clock64(last, c % Width) = c
<1> DEFINE q == c \div Width
<1> DEFINE half == Width \div 2
<1> DEFINE low == c % Width
<1> DEFINE full == Width * q
<1> DEFINE diff == (last + Width - low) % Width
<1>1. low \in 0 .. Width - 1 /\ q \in Int /\ low = c - full
  BY Remainders
<1>2. half \in Nat \ {0} /\ 2 * half <= Width /\ c - last <= half
  OBVIOUS
<1> HIDE DEF q, half, low
<1>3. full \in Int /\ Width * (q + 1) = full + Width
  BY <1>1
<1>4. Clock64(last, low) = IF diff >= half THEN last + Width - diff ELSE last - diff
  BY DEF Clock64, half
<1>5. CASE c = last
  <2>1. last + Width - low = Width * (q + 1) + 0
    <3> HIDE DEF full
    <3> QED
      BY <1>1, <1>3, <1>5
  <2>2. diff = 0
    BY <1>1, <2>1, RemainderIs
  <2> HIDE DEF diff
  <2> QED
    BY <1>2, <1>4, <1>5, <2>2 DEF low
<1>6. CASE c # last
  <2> DEFINE back == Width - (c - last)
  <2>1. back \in 0 .. Width - 1 /\ back >= half /\ last + Width - back = c
    BY <1>2, <1>6
  <2>2. last + Width - low = Width * q + back
    <3> HIDE DEF full
    <3>1. last + Width - low = full + back
      BY <1>1, <1>3
    <3> QED
      BY <3>1 DEF full
  <2> HIDE DEF back
  <2>4. Width \in Nat \ {0} /\ q \in Int /\ back \in 0 .. Width - 1
    BY <1>1, <2>1
  <2>5. (Width * q + back) % Width = back
    BY <2>4, RemainderIs
  <2>3. diff = back
    BY <2>2, <2>5
  <2> HIDE DEF diff
  <2> QED
    BY <1>4, <2>1, <2>3 DEF low
<1> QED
  BY <1>5, <1>6

-----------------------------------------------------------------------------
(* The clock of a board                                                    *)

\* Messages of a board and what the host keeps of its clock.
Reports == [what : {"clock", "report"}, low : Nat, true : Nat]
Sync == [last_clock : Nat, pending : Nat, due : Nat, checked : Nat, timeout : BOOLEAN, dated : BOOLEAN]
ClockTyped ==
  /\ clock \in Nat /\ asked \in Nat /\ answers \in Seq(Reports) /\ link \in BOOLEAN
  /\ sync \in Sync

\* What is under way was sent after the last clock the host has seen, in this
\* order, and a broken connection carries nothing.
UnderWay ==
  /\ \A i \in DOMAIN answers :
       /\ answers[i].low = answers[i].true % Width
       /\ sync.last_clock <= answers[i].true /\ answers[i].true <= clock /\ clock <= answers[i].true + Delay
  /\ \A i, j \in DOMAIN answers : i < j => answers[i].true <= answers[j].true
  /\ sync.last_clock <= clock
  /\ ~link => answers = <<>> /\ asked = 0

\* Neither timer is late by more than a period ...
InTurn ==
  /\ clock <= sync.due + 1 /\ sync.due <= clock + 1
  /\ clock <= sync.checked + 1 /\ sync.checked <= clock + 1

\* ... so the statistics see too many queries unanswered before they are many more,
FewPending ==
  ~sync.timeout => sync.pending <= MaxPending \/ sync.pending <= MaxPending + 1 + sync.due - sync.checked

\* and the last clock is no older than the queries since then.
LastIsRecent == link => sync.due <= sync.last_clock + Delay + 1 + 2 * sync.pending

ClockInv == ClockTyped /\ UnderWay /\ InTurn /\ FewPending /\ LastIsRecent /\ ReportsAreDated

\* The types of the fields, for the arithmetic of the steps.
LEMMA SyncTyped ==
  ASSUME ClockTyped
  PROVE  /\ clock \in Nat /\ asked \in Nat /\ sync \in Sync
         /\ sync.last_clock \in Nat /\ sync.pending \in Nat /\ sync.due \in Nat /\ sync.checked \in Nat
         /\ sync.timeout \in BOOLEAN /\ sync.dated \in BOOLEAN
BY DEF ClockTyped, Sync

\* The types of the messages under way.
LEMMA AnswersTyped ==
  ASSUME ClockTyped
  PROVE  /\ Len(answers) \in Nat /\ DOMAIN answers = 1 .. Len(answers)
         /\ \A i \in DOMAIN answers : answers[i].what \in {"clock", "report"} /\ answers[i].true \in Nat
<1>1. \A i \in DOMAIN answers : answers[i] \in Reports
  BY DEF ClockTyped
<1>2. Len(answers) \in Nat /\ DOMAIN answers = 1 .. Len(answers)
  BY DEF ClockTyped
<1> QED
  BY <1>1, <1>2 DEF Reports

\* _get_clock_event: one more query is pending, and the next one is due a period from now.
LEMMA GetClockKeeps ==
  ASSUME MaxPending \in Nat, Delay \in Nat, ClockInv, ~sync.timeout, GetClock
  PROVE  ClockInv'
<1>1. /\ sync.due <= clock /\ UNCHANGED <<clock, answers, link>>
      /\ asked' = IF link THEN asked + 1 ELSE 0
      /\ sync' = [sync EXCEPT !.pending = sync.pending + 1, !.due = clock + 1]
  BY DEF GetClock
<1>0. ClockTyped /\ UnderWay /\ InTurn /\ FewPending /\ LastIsRecent /\ ReportsAreDated
  BY DEF ClockInv
<1>9. /\ clock \in Nat /\ asked \in Nat /\ sync \in Sync /\ sync.last_clock \in Nat
      /\ sync.pending \in Nat /\ sync.due \in Nat /\ sync.checked \in Nat
  BY <1>0, SyncTyped
<1>2. /\ sync' \in Sync /\ sync'.pending = sync.pending + 1 /\ sync'.due = clock + 1
      /\ sync'.last_clock = sync.last_clock /\ sync'.checked = sync.checked
      /\ sync'.timeout = sync.timeout /\ sync'.dated = sync.dated
  <2> DEFINE next == clock + 1
  <2> DEFINE more == sync.pending + 1
  <2>1. next \in Nat /\ more \in Nat /\ sync' = [sync EXCEPT !.pending = more, !.due = next]
    BY <1>1, <1>9
  <2> HIDE DEF next, more
  <2>2. /\ sync' \in Sync /\ sync'.pending = more /\ sync'.due = next
        /\ sync'.last_clock = sync.last_clock /\ sync'.checked = sync.checked
        /\ sync'.timeout = sync.timeout /\ sync'.dated = sync.dated
    BY <1>9, <2>1 DEF Sync
  <2> QED
    BY <2>2 DEF next, more
<1>3. ClockTyped'
  <2>1. asked' \in Nat
    BY <1>1, <1>9
  <2> QED
    BY <1>0, <1>1, <1>2, <2>1 DEF ClockTyped
<1>4. UnderWay'
  BY <1>0, <1>1, <1>2 DEF UnderWay
<1>5. InTurn'
  BY <1>0, <1>1, <1>2, <1>9 DEF InTurn
<1>6. FewPending'
  <2>1. sync.pending <= MaxPending \/ sync.pending <= MaxPending + 1 + sync.due - sync.checked
    BY <1>0 DEF FewPending
  <2>2. sync.checked <= clock + 1
    BY <1>0 DEF InTurn
  <2>3. sync'.pending <= MaxPending + 1 + sync'.due - sync'.checked
    BY <1>1, <1>2, <1>9, <2>1, <2>2
  <2> QED
    BY <2>3 DEF FewPending
<1>7. LastIsRecent'
  BY <1>0, <1>1, <1>2, <1>9 DEF LastIsRecent, InTurn
<1>8. ReportsAreDated'
  BY <1>0, <1>2 DEF ReportsAreDated
<1> QED
  BY <1>3, <1>4, <1>5, <1>6, <1>7, <1>8 DEF ClockInv

\* check_active: what goes on afterwards has few queries pending.
LEMMA CheckActiveKeeps ==
  ASSUME MaxPending \in Nat, Delay \in Nat, ClockInv, ~sync.timeout, CheckActive
  PROVE  ClockInv'
<1>1. /\ sync.checked <= clock /\ UNCHANGED <<clock, asked, answers, link>>
      /\ sync' = [sync EXCEPT !.checked = clock + 1, !.timeout = sync.timeout \/ ~is_active]
  BY DEF CheckActive
<1>0. ClockTyped /\ UnderWay /\ InTurn /\ FewPending /\ LastIsRecent /\ ReportsAreDated
  BY DEF ClockInv
<1>9. /\ clock \in Nat /\ asked \in Nat /\ sync \in Sync /\ sync.last_clock \in Nat
      /\ sync.pending \in Nat /\ sync.due \in Nat /\ sync.checked \in Nat
  BY <1>0, SyncTyped
<1> DEFINE silent == sync.timeout \/ ~is_active
<1>10. silent \in BOOLEAN /\ (~silent => sync.pending <= MaxPending)
  BY DEF is_active
<1>11. sync' = [sync EXCEPT !.checked = clock + 1, !.timeout = silent]
  BY <1>1
<1> HIDE DEF silent
<1>2. /\ sync' \in Sync /\ sync'.checked = clock + 1 /\ sync'.pending = sync.pending /\ sync'.due = sync.due
      /\ sync'.last_clock = sync.last_clock /\ sync'.dated = sync.dated /\ sync'.timeout = silent
  <2> DEFINE next == clock + 1
  <2>1. next \in Nat /\ sync' = [sync EXCEPT !.checked = next, !.timeout = silent]
    BY <1>9, <1>11
  <2> HIDE DEF next
  <2>2. /\ sync' \in Sync /\ sync'.checked = next /\ sync'.pending = sync.pending /\ sync'.due = sync.due
        /\ sync'.last_clock = sync.last_clock /\ sync'.dated = sync.dated /\ sync'.timeout = silent
    BY <1>9, <1>10, <2>1 DEF Sync
  <2> QED
    BY <2>2 DEF next
<1>3. ClockTyped'
  BY <1>0, <1>1, <1>2 DEF ClockTyped
<1>4. UnderWay'
  BY <1>0, <1>1, <1>2 DEF UnderWay
<1>5. InTurn'
  BY <1>0, <1>1, <1>2, <1>9 DEF InTurn
<1>6. FewPending' /\ LastIsRecent'
  BY <1>0, <1>1, <1>2, <1>10 DEF FewPending, LastIsRecent
<1>7. ReportsAreDated'
  BY <1>0, <1>2 DEF ReportsAreDated
<1> QED
  BY <1>3, <1>4, <1>5, <1>6, <1>7 DEF ClockInv

\* A message arrives: it is less than half a turn after the last clock, so its low
\* part is extended right, to be the last clock or the date of the report.
LEMMA ReceiveClockKeeps ==
  ASSUME MaxPending \in Nat, Delay \in Nat, Width \in Nat, 2 * MaxPending + Delay + 8 <= Width \div 2,
         ClockInv, ~sync.timeout, Receive
  PROVE  ClockInv'
<1> DEFINE m == Head(answers)
<1>0. ClockTyped /\ UnderWay /\ InTurn /\ FewPending /\ LastIsRecent /\ ReportsAreDated
  BY DEF ClockInv
<1>9. /\ clock \in Nat /\ asked \in Nat /\ sync \in Sync /\ sync.last_clock \in Nat
      /\ sync.pending \in Nat /\ sync.due \in Nat /\ sync.checked \in Nat
  BY <1>0, SyncTyped
<1>1. answers # <<>> /\ answers' = Tail(answers) /\ UNCHANGED <<clock, asked, link>>
      /\ (HandleClock(m) \/ HandleReport(m))
  BY DEF Receive
<1>2. /\ 1 \in DOMAIN answers /\ m = answers[1] /\ answers' \in Seq(Reports)
      /\ \A i \in DOMAIN answers' : i \in Nat /\ i + 1 \in DOMAIN answers /\ answers'[i] = answers[i + 1]
  <2>1. answers \in Seq(Reports)
    BY <1>0 DEF ClockTyped
  <2>2. /\ Len(answers) \in Nat \ {0} /\ DOMAIN answers = 1 .. Len(answers) /\ m = answers[1]
        /\ Tail(answers) \in Seq(Reports) /\ Len(Tail(answers)) = Len(answers) - 1
        /\ \A i \in 1 .. Len(answers) - 1 : Tail(answers)[i] = answers[i + 1]
    BY <1>1, <2>1
  <2>3. DOMAIN answers' = 1 .. Len(answers) - 1
    BY <1>1, <2>2
  <2> QED
    BY <1>1, <2>2, <2>3
<1> HIDE DEF m
<1>3. /\ m.true \in Nat /\ m.low = m.true % Width /\ sync.last_clock <= m.true
      /\ m.true <= clock /\ clock <= m.true + Delay /\ link
  <2>1. m.true \in Nat
    BY <1>0, <1>2, AnswersTyped
  <2> QED
    BY <1>0, <1>1, <1>2, <2>1 DEF UnderWay, ClockTyped
<1>8. \A i \in DOMAIN answers' : m.true <= answers'[i].true
  <2>1. ASSUME NEW i \in DOMAIN answers'
        PROVE  m.true <= answers'[i].true
    <3>1. (i + 1 \in DOMAIN answers /\ 1 < i + 1) \/ i = 0
      BY <1>2
    <3>2. i # 0
      <4>1. DOMAIN answers' = 1 .. Len(answers')
        BY <1>2
      <4> QED
        BY <4>1
    <3> QED
      BY <1>0, <1>2, <3>1, <3>2 DEF UnderWay
  <2> QED
    BY <2>1
<1>4. m.true - sync.last_clock <= Width \div 2
  <2>1. sync.pending <= MaxPending + 3
    <3>1. sync.due - sync.checked <= 2
      BY <1>0, <1>9 DEF InTurn
    <3> QED
      BY <1>0, <1>9, <3>1 DEF FewPending
  <2>2. sync.due <= sync.last_clock + Delay + 1 + 2 * sync.pending /\ clock <= sync.due + 1
    BY <1>0, <1>3 DEF LastIsRecent, InTurn
  <2> DEFINE half == Width \div 2
  <2>3. half \in Int /\ 2 * MaxPending + Delay + 8 <= half
    OBVIOUS
  <2> HIDE DEF half
  <2>4. m.true - sync.last_clock <= half
    BY <1>3, <1>9, <2>1, <2>2, <2>3
  <2> QED
    BY <2>4 DEF half
<1>5. Width >= 2 /\ m.true - sync.last_clock < Width
  <2> DEFINE half == Width \div 2
  <2>1. half \in Int /\ 2 * half <= Width /\ half >= 8
    OBVIOUS
  <2>2. m.true - sync.last_clock <= half
    BY <1>4
  <2> HIDE DEF half
  <2> QED
    BY <1>3, <1>9, <2>1, <2>2
<1>6. CASE HandleClock(m)
  <2>1. Extend(sync.last_clock, m.low) = m.true
    <3>1. Extend(sync.last_clock, m.true % Width) = m.true
      BY <1>3, <1>5, <1>9, ExtendFacts
    <3> QED
      BY <1>3, <3>1
  <2>2. sync' = [sync EXCEPT !.pending = 0, !.last_clock = m.true]
    BY <1>6, <2>1 DEF HandleClock
  <2>3. /\ sync' \in Sync /\ sync'.pending = 0 /\ sync'.last_clock = m.true /\ sync'.due = sync.due
        /\ sync'.checked = sync.checked /\ sync'.timeout = sync.timeout /\ sync'.dated = sync.dated
    BY <1>3, <1>9, <2>2 DEF Sync
  <2>4. ClockTyped'
    BY <1>0, <1>1, <1>2, <2>3 DEF ClockTyped
  <2>5. UnderWay'
    <3>1. \A i \in DOMAIN answers' :
            /\ answers'[i].low = answers'[i].true % Width
            /\ sync'.last_clock <= answers'[i].true /\ answers'[i].true <= clock /\ clock <= answers'[i].true + Delay
      BY <1>0, <1>2, <1>8, <2>3 DEF UnderWay
    <3>2. \A i, j \in DOMAIN answers' : i < j => answers'[i].true <= answers'[j].true
      BY <1>0, <1>2 DEF UnderWay
    <3> QED
      BY <1>1, <1>3, <2>3, <3>1, <3>2 DEF UnderWay
  <2>6. InTurn'
    BY <1>0, <1>1, <2>3 DEF InTurn
  <2>7. FewPending' /\ LastIsRecent'
    BY <1>0, <1>1, <1>3, <1>9, <2>3 DEF InTurn, FewPending, LastIsRecent
  <2>8. ReportsAreDated'
    BY <1>0, <2>3 DEF ReportsAreDated
  <2> QED
    BY <2>4, <2>5, <2>6, <2>7, <2>8 DEF ClockInv
<1>7. CASE HandleReport(m)
  <2>1. Clock64(sync.last_clock, m.low) = m.true
    <3>1. Clock64(sync.last_clock, m.true % Width) = m.true
      BY <1>3, <1>4, <1>5, <1>9, Clock64Facts
    <3> QED
      BY <1>3, <3>1
  <2>2. sync' = [sync EXCEPT !.dated = TRUE]
    BY <1>7, <2>1 DEF HandleReport
  <2>3. /\ sync' \in Sync /\ sync'.pending = sync.pending /\ sync'.last_clock = sync.last_clock
        /\ sync'.due = sync.due /\ sync'.checked = sync.checked /\ sync'.timeout = sync.timeout /\ sync'.dated = TRUE
    BY <1>9, <2>2 DEF Sync
  <2>4. ClockTyped'
    BY <1>0, <1>1, <1>2, <2>3 DEF ClockTyped
  <2>5. UnderWay'
    <3>1. \A i \in DOMAIN answers' :
            /\ answers'[i].low = answers'[i].true % Width
            /\ sync'.last_clock <= answers'[i].true /\ answers'[i].true <= clock /\ clock <= answers'[i].true + Delay
      BY <1>0, <1>2, <2>3 DEF UnderWay
    <3>2. \A i, j \in DOMAIN answers' : i < j => answers'[i].true <= answers'[j].true
      BY <1>0, <1>2 DEF UnderWay
    <3> QED
      BY <1>0, <1>1, <1>3, <2>3, <3>1, <3>2 DEF UnderWay
  <2>6. InTurn' /\ FewPending' /\ LastIsRecent' /\ ReportsAreDated'
    BY <1>0, <1>1, <2>3 DEF InTurn, FewPending, LastIsRecent, ReportsAreDated
  <2> QED
    BY <2>4, <2>5, <2>6 DEF ClockInv
<1> QED
  BY <1>1, <1>6, <1>7

\* The board sends the low part of its clock, which is newer than all it sent before.
LEMMA SendsKeep ==
  ASSUME Width \in Nat \ {0}, Delay \in Nat, ClockInv, NEW what \in {"clock", "report"},
         answers' = Append(answers, Message(what)), asked' \in Nat, link, UNCHANGED <<clock, sync, link>>
  PROVE  ClockInv'
<1>0. ClockTyped /\ UnderWay /\ InTurn /\ FewPending /\ LastIsRecent /\ ReportsAreDated
  BY DEF ClockInv
<1>9. clock \in Nat /\ sync.last_clock \in Nat /\ sync.last_clock <= clock
  BY <1>0, SyncTyped DEF UnderWay
<1> DEFINE m == Message(what)
<1>1. m \in Reports /\ m.low = m.true % Width /\ m.true = clock
  <2>1. clock % Width \in 0 .. Width - 1
    BY <1>9
  <2> QED
    BY <1>9, <2>1 DEF Message, LowBits, Reports
<1> HIDE DEF m, Reports
<1>2. answers \in Seq(Reports) /\ m \in Reports /\ answers' = Append(answers, m)
  BY <1>0, <1>1 DEF m, ClockTyped
<1>3. /\ answers' \in Seq(Reports) /\ Len(answers) \in Nat /\ DOMAIN answers' = 1 .. Len(answers) + 1
      /\ DOMAIN answers = 1 .. Len(answers)
      /\ \A i \in 1 .. Len(answers) : answers'[i] = answers[i]
      /\ answers'[Len(answers) + 1] = m
  BY <1>2
<1>4. ClockTyped'
  BY <1>0, <1>3 DEF ClockTyped
<1>5. UnderWay'
  <2>1. \A i \in 1 .. Len(answers) : answers[i].true \in Nat
    BY <1>0, AnswersTyped
  <2>2. \A i \in DOMAIN answers' : i \in 1 .. Len(answers) \/ i = Len(answers) + 1
    BY <1>3
  <2>3. ASSUME NEW i \in DOMAIN answers'
        PROVE  /\ answers'[i].low = answers'[i].true % Width
               /\ sync.last_clock <= answers'[i].true /\ answers'[i].true <= clock /\ clock <= answers'[i].true + Delay
    <3>1. CASE i \in 1 .. Len(answers)
      BY <1>0, <1>3, <3>1 DEF UnderWay
    <3>2. CASE i = Len(answers) + 1
      BY <1>1, <1>3, <1>9, <3>2
    <3> QED
      BY <2>2, <3>1, <3>2
  <2>4. ASSUME NEW i \in DOMAIN answers', NEW j \in DOMAIN answers', i < j
        PROVE  answers'[i].true <= answers'[j].true
    <3>1. i \in 1 .. Len(answers) /\ answers'[i] = answers[i]
      BY <1>3, <2>4
    <3>2. CASE j \in 1 .. Len(answers)
      BY <1>0, <1>3, <2>4, <3>1, <3>2 DEF UnderWay
    <3>3. CASE j = Len(answers) + 1
      BY <1>0, <1>1, <1>3, <3>1, <3>3 DEF UnderWay
    <3> QED
      BY <2>2, <3>2, <3>3
  <2> QED
    BY <1>9, <2>3, <2>4 DEF UnderWay
<1>6. InTurn' /\ FewPending' /\ LastIsRecent' /\ ReportsAreDated'
  BY <1>0 DEF InTurn, FewPending, LastIsRecent, ReportsAreDated
<1> QED
  BY <1>4, <1>5, <1>6 DEF ClockInv

\* The board, the connection, time, and nothing.
LEMMA OthersKeep ==
  ASSUME Width \in Nat \ {0}, MaxPending \in Nat, Delay \in Nat, ClockInv,
         BoardAnswers \/ BoardReports \/ LinkBreaks \/ Tick \/ UNCHANGED clock_vars
  PROVE  ClockInv'
<1>0. ClockTyped /\ UnderWay /\ InTurn /\ FewPending /\ LastIsRecent /\ ReportsAreDated
  BY DEF ClockInv
<1>9. /\ clock \in Nat /\ asked \in Nat /\ sync.last_clock \in Nat
      /\ sync.pending \in Nat /\ sync.due \in Nat /\ sync.checked \in Nat
  BY <1>0, SyncTyped
<1>1. CASE BoardAnswers
  <2>1. asked > 0 /\ asked' = asked - 1 /\ answers' = Append(answers, Message("clock")) /\ UNCHANGED <<clock, sync, link>>
    BY <1>1 DEF BoardAnswers
  <2>2. link
    BY <1>0, <2>1 DEF UnderWay
  <2>3. asked' \in Nat
    BY <1>9, <2>1
  <2> QED
    BY <2>1, <2>2, <2>3, SendsKeep
<1>2. CASE BoardReports
  BY <1>2, <1>9, SendsKeep DEF BoardReports
<1>3. CASE LinkBreaks
  <2>1. link' = FALSE /\ answers' = <<>> /\ asked' = 0 /\ UNCHANGED <<clock, sync>>
    BY <1>3 DEF LinkBreaks
  <2>2. answers' \in Seq(Reports)
    BY <2>1
  <2>3. ClockTyped'
    BY <1>0, <2>1, <2>2 DEF ClockTyped
  <2>4. UnderWay'
    BY <1>0, <2>1 DEF UnderWay
  <2>5. InTurn' /\ FewPending' /\ LastIsRecent' /\ ReportsAreDated'
    BY <1>0, <2>1 DEF InTurn, FewPending, LastIsRecent, ReportsAreDated
  <2> QED
    BY <2>3, <2>4, <2>5 DEF ClockInv
<1>4. CASE Tick
  <2>1. /\ clock' = clock + 1 /\ UNCHANGED <<asked, answers, sync, link>>
        /\ clock <= sync.due /\ clock <= sync.checked /\ \A i \in DOMAIN answers : clock < answers[i].true + Delay
    BY <1>4 DEF Tick
  <2>2. ClockTyped'
    BY <1>0, <1>9, <2>1 DEF ClockTyped
  <2>3. UnderWay'
    <3>1. \A i \in DOMAIN answers : answers[i].true \in Nat
      BY <1>0, AnswersTyped
    <3>2. \A i \in DOMAIN answers : answers[i].true <= clock + 1 /\ clock + 1 <= answers[i].true + Delay
      BY <1>0, <1>9, <2>1, <3>1 DEF UnderWay
    <3>3. sync.last_clock <= clock + 1
      BY <1>0, <1>9 DEF UnderWay
    <3> QED
      BY <1>0, <2>1, <3>2, <3>3 DEF UnderWay
  <2>4. InTurn'
    BY <1>0, <1>9, <2>1 DEF InTurn
  <2>5. FewPending' /\ LastIsRecent' /\ ReportsAreDated'
    BY <1>0, <2>1 DEF FewPending, LastIsRecent, ReportsAreDated
  <2> QED
    BY <2>2, <2>3, <2>4, <2>5 DEF ClockInv
<1>5. CASE UNCHANGED clock_vars
  BY <1>5 DEF clock_vars, ClockInv, ClockTyped, UnderWay, InTurn, FewPending, LastIsRecent, ReportsAreDated
<1> QED
  BY <1>1, <1>2, <1>3, <1>4, <1>5

(* What a board reports is dated right until the printer is shut down, whatever  *)
(* the queries and messages under way, for every clock that makes half a turn    *)
(* in no less than 2 * MaxPending + Delay + 8 periods (_get_clock_event,         *)
(* _serial_handle_clock, clock32_to_clock64, check_active).  For the four        *)
(* queries of the code that is less than twenty, and half a turn has some 130.   *)
THEOREM ReportsAlwaysDated ==
  ASSUME Width \in Nat, MaxPending \in Nat, Delay \in Nat, FirstClocks \in SUBSET Nat,
         2 * MaxPending + Delay + 8 <= Width \div 2
  PROVE  InitClock /\ [][NextClock]_clock_vars => []ReportsAreDated
<1>1. Width \in Nat \ {0}
  OBVIOUS
<1>2. InitClock => ClockInv
  <2> SUFFICES ASSUME InitClock PROVE ClockInv
    OBVIOUS
  <2>1. clock \in Nat /\ answers = <<>> /\ asked = 0 /\ link = TRUE /\ sync \in Sync
        /\ sync.last_clock = clock /\ sync.pending = 0 /\ sync.due = clock /\ sync.checked = clock /\ sync.dated = TRUE
    BY DEF InitClock, Connected, Sync
  <2>2. ClockTyped
    BY <2>1 DEF ClockTyped
  <2> QED
    BY <2>1, <2>2 DEF ClockInv, UnderWay, InTurn, FewPending, LastIsRecent, ReportsAreDated
<1>3. ClockInv /\ [NextClock]_clock_vars => ClockInv'
  BY <1>1, GetClockKeeps, CheckActiveKeeps, ReceiveClockKeeps, OthersKeep DEF NextClock
<1>4. ClockInv => ReportsAreDated
  BY DEF ClockInv
<1> QED
  BY <1>2, <1>3, <1>4, PTL

-----------------------------------------------------------------------------
(* The identification of a board                                           *)

\* Numbers of pieces, of retries, of connections and of messages lost.
SerialAssumed == Pieces \in Nat /\ Retries \in Nat /\ MaxAttempts \in Nat /\ MaxLost \in Nat

\* Where a greenlet of _get_identify_data is, and what it has; and the messages.
Places == {"none", "ask", "send", "ack", "look", "pause", "done", "dead"}
Asking == [at : Places, data : Seq(Nat), retries : Nat, last_params : Nat]
Queries == [from : Greenlets, offset : Nat]
Replies == [piece : Nat, to : 0 .. MaxAttempts]

SerialTyped ==
  /\ port \in {"closed", "open", "ready", "failed"} /\ attempt \in 0 .. MaxAttempts
  /\ greenlet \in [Greenlets -> Asking]
  /\ handlers \in 0 .. MaxAttempts /\ pending_notifications \subseteq Greenlets
  /\ queries \in Seq(Queries) /\ replies \in Seq(Replies) /\ lost \in Nat

(* What a greenlet has of the dictionary. *)
HasPieces(r) == /\ Len(r.data) <= Pieces /\ \A i \in 1 .. Len(r.data) : r.data[i] = i
                /\ (r.at = "done" => Len(r.data) = Pieces)
AllHavePieces == \A g \in Greenlets : HasPieces(greenlet[g])
\* A notification is registered for the greenlets that wait, and no other.
PendingWait == \A g \in Greenlets : greenlet[g].at = "ack" <=> g \in pending_notifications
\* Greenlets not started yet
LaterAreNew == \A g \in Greenlets : g > attempt => greenlet[g].at = "none"
\* A connection is ready when its greenlet has the whole dictionary.
ReadyIsDone == port = "ready" => attempt \in Greenlets /\ greenlet[attempt].at = "done"
PortIsTried == port = "open" => attempt \in Greenlets
\* Who waits has a query before the board or an acknowledgement under way.
AckComes(g) == \/ \E i \in DOMAIN queries : queries[i].from = g
               \/ \E i \in DOMAIN replies : replies[i].to = g /\ replies[i].piece = NoAnswer
AcksCome == \A g \in pending_notifications : AckComes(g)

SerialInv == SerialTyped /\ AllHavePieces /\ PendingWait /\ LaterAreNew /\ ReadyIsDone /\ PortIsTried /\ AcksCome

\* The parts of the invariant
LEMMA SerialParts == SerialInv => /\ SerialTyped /\ AllHavePieces /\ PendingWait /\ LaterAreNew
                                  /\ ReadyIsDone /\ PortIsTried /\ AcksCome
BY DEF SerialInv

(* A greenlet goes on, neither to wait for an acknowledgement nor from there. *)
LEMMA OneMoves ==
  ASSUME SerialInv, NEW g \in Greenlets, NEW r \in Asking, HasPieces(r),
         greenlet' = [greenlet EXCEPT ![g] = r],
         greenlet[g].at \notin {"none", "ack", "done"}, r.at # "ack",
         handlers' \in 0 .. MaxAttempts,
         UNCHANGED <<port, attempt, pending_notifications, queries, replies, lost>>
  PROVE  SerialInv'
<1>0. /\ SerialTyped /\ AllHavePieces /\ PendingWait /\ LaterAreNew /\ ReadyIsDone /\ PortIsTried /\ AcksCome
  BY SerialParts
<1>1. greenlet \in [Greenlets -> Asking]
  BY <1>0 DEF SerialTyped
<1>2. /\ greenlet' \in [Greenlets -> Asking] /\ greenlet'[g] = r
      /\ \A h \in Greenlets : h # g => greenlet'[h] = greenlet[h]
  BY <1>1
<1>3. SerialTyped'
  BY <1>0, <1>2 DEF SerialTyped
<1>4. AllHavePieces'
  BY <1>0, <1>2 DEF AllHavePieces
<1>5. PendingWait'
  BY <1>0, <1>2 DEF PendingWait
<1>6. LaterAreNew' /\ ReadyIsDone' /\ PortIsTried'
  BY <1>0, <1>2 DEF LaterAreNew, ReadyIsDone, PortIsTried
<1>7. AcksCome'
  BY <1>0 DEF AcksCome, AckComes
<1> QED  BY <1>3, <1>4, <1>5, <1>6, <1>7 DEF SerialInv

(* The steps of a greenlet. *)
LEMMA IdentifyKeeps ==
  ASSUME SerialAssumed, SerialInv, NEW g \in Greenlets, Identify(g)
  PROVE  SerialInv'
<1>0. /\ SerialTyped /\ AllHavePieces /\ PendingWait /\ LaterAreNew /\ ReadyIsDone /\ PortIsTried /\ AcksCome
  BY SerialParts
<1>1. greenlet \in [Greenlets -> Asking] /\ handlers \in 0 .. MaxAttempts /\ g \in 1 .. MaxAttempts
  BY <1>0 DEF SerialTyped, Greenlets
<1> DEFINE old == greenlet[g]
<1>2. /\ old \in Asking /\ HasPieces(old) /\ old.data \in Seq(Nat) /\ old.retries \in Nat /\ old.last_params \in Nat
      /\ Len(old.data) \in Nat
  BY <1>0, <1>1 DEF AllHavePieces, Asking
<1>3. 0 \in 0 .. MaxAttempts /\ g \in 0 .. MaxAttempts
  BY <1>1 DEF SerialAssumed
<1>4. ASSUME NEW at \in Places \ {"ack", "done"}, greenlet' = [greenlet EXCEPT ![g].at = at],
             old.at \notin {"none", "ack", "done"}, handlers' \in 0 .. MaxAttempts,
             UNCHANGED <<port, attempt, pending_notifications, queries, replies, lost>>
      PROVE  SerialInv'
  <2> DEFINE r == [old EXCEPT !.at = at]
  <2>1. greenlet' = [greenlet EXCEPT ![g] = r]
    BY <1>4
  <2>2. r \in Asking /\ r.at = at /\ r.data = old.data
    BY <1>2 DEF Asking
  <2> HIDE DEF r, old
  <2>3. HasPieces(r)
    BY <1>2, <2>2 DEF HasPieces
  <2> QED  BY <1>4, <2>1, <2>2, <2>3, OneMoves DEF old
<1>5. CASE Ask(g)
  <2> DEFINE r == [old EXCEPT !.at = "send", !.retries = Retries, !.last_params = NoAnswer]
  <2>1. /\ greenlet' = [greenlet EXCEPT ![g] = r] /\ old.at = "ask" /\ handlers' = g
        /\ UNCHANGED <<port, attempt, pending_notifications, queries, replies, lost>>
    BY <1>5 DEF Ask
  <2>2. r \in Asking /\ r.at = "send" /\ r.data = old.data
    BY <1>2 DEF Asking, Places, NoAnswer, SerialAssumed
  <2> HIDE DEF r
  <2>3. HasPieces(r)
    BY <1>2, <2>2 DEF HasPieces
  <2> QED  BY <1>3, <2>1, <2>2, <2>3, OneMoves
<1>6. CASE Send(g)
  <2> DEFINE query == [from |-> g, offset |-> Len(old.data)]
             r == [old EXCEPT !.at = "ack"]
  <2>1. /\ old.at = "send" /\ pending_notifications' = pending_notifications \cup {g}
        /\ queries' = Append(queries, query) /\ greenlet' = [greenlet EXCEPT ![g] = r]
        /\ UNCHANGED <<port, attempt, handlers, replies, lost>>
    BY <1>6 DEF Send, Set
  <2>2. query \in Queries /\ query.from = g
    BY <1>2 DEF Queries
  <2>3. r \in Asking /\ r.at = "ack" /\ r.data = old.data
    BY <1>2 DEF Asking, Places
  <2>4. HasPieces(r)
    BY <1>2, <2>3 DEF HasPieces
  <2>5. queries \in Seq(Queries)
    BY <1>0 DEF SerialTyped
  <2> HIDE DEF query, r
  <2>6. /\ queries' \in Seq(Queries) /\ Len(queries') = Len(queries) + 1 /\ queries'[Len(queries) + 1] = query
        /\ \A i \in 1 .. Len(queries) : queries'[i] = queries[i]
    BY <2>1, <2>2, <2>5
  <2>7. /\ greenlet' \in [Greenlets -> Asking] /\ greenlet'[g] = r
        /\ \A h \in Greenlets : h # g => greenlet'[h] = greenlet[h]
    BY <1>1, <2>1, <2>3
  <2>8. SerialTyped'
    BY <1>0, <2>1, <2>6, <2>7 DEF SerialTyped
  <2>9. AllHavePieces'
    BY <1>0, <2>4, <2>7 DEF AllHavePieces
  <2>10. PendingWait'
    BY <1>0, <2>1, <2>3, <2>7 DEF PendingWait
  <2>11. LaterAreNew' /\ ReadyIsDone' /\ PortIsTried'
    BY <1>0, <2>1, <2>7 DEF LaterAreNew, ReadyIsDone, PortIsTried
  <2>12. AcksCome'
    <3>1. SUFFICES ASSUME NEW h \in pending_notifications' PROVE AckComes(h)'
      BY DEF AcksCome
    <3>2. CASE h = g
      <4>1. Len(queries) + 1 \in DOMAIN queries' /\ queries'[Len(queries) + 1].from = h
        BY <2>2, <2>5, <2>6, <3>2
      <4> QED  BY <4>1 DEF AckComes
    <3>3. CASE h \in pending_notifications /\ \E i \in DOMAIN queries : queries[i].from = h
      <4>1. PICK i \in DOMAIN queries : queries[i].from = h
        BY <3>3
      <4>2. i \in DOMAIN queries' /\ queries'[i].from = h
        BY <2>5, <2>6, <4>1
      <4> QED  BY <4>2 DEF AckComes
    <3>4. CASE h \in pending_notifications /\ \E i \in DOMAIN replies : replies[i].to = h /\ replies[i].piece = NoAnswer
      BY <2>1, <3>4 DEF AckComes
    <3>5. h = g \/ (h \in pending_notifications /\ AckComes(h))
      BY <1>0, <2>1, <3>1 DEF AcksCome
    <3> QED  BY <3>2, <3>3, <3>4, <3>5 DEF AckComes
  <2> QED  BY <2>8, <2>9, <2>10, <2>11, <2>12 DEF SerialInv
<1>7. CASE TakePiece(g)
  <2> DEFINE r == IF ~Fits(g) THEN [old EXCEPT !.at = "ask"]
                  ELSE IF old.last_params = Answer(Pieces) THEN [old EXCEPT !.at = "done"]
                  ELSE [old EXCEPT !.at = "ask", !.data = Append(@, old.last_params)]
  <2>1. /\ old.at = "look" /\ handlers' = 0
        /\ UNCHANGED <<port, attempt, pending_notifications, queries, replies, lost>>
    BY <1>7 DEF TakePiece, Answered
  <2>3. greenlet' = [greenlet EXCEPT ![g] = r]
    BY Zenon, <1>7 DEF TakePiece
  <2>2. r \in Asking /\ HasPieces(r) /\ r.at # "ack"
    <3>1. CASE ~Fits(g)
      <4>1. r \in Asking /\ r.at = "ask" /\ r.data = old.data
        BY <1>2, <3>1 DEF Asking, Places
      <4> QED  BY <1>2, <4>1 DEF HasPieces
    <3>2. CASE Fits(g) /\ old.last_params = Answer(Pieces)
      <4>1. r \in Asking /\ r.at = "done" /\ r.data = old.data
        BY <1>2, <3>2 DEF Asking, Places
      <4>2. Len(old.data) = Pieces
        BY <1>2, <3>2 DEF Fits, Answer, SerialAssumed
      <4> QED  BY <1>2, <4>1, <4>2 DEF HasPieces
    <3>3. CASE Fits(g) /\ old.last_params # Answer(Pieces)
      <4> DEFINE data == Append(old.data, old.last_params)
      <4>1. old.last_params = Len(old.data) + 1 /\ Len(old.data) + 1 <= Pieces
        BY <1>2, <3>3 DEF Fits, Answer, SerialAssumed, HasPieces
      <4>2. /\ data \in Seq(Nat) /\ Len(data) = Len(old.data) + 1
            /\ data[Len(old.data) + 1] = old.last_params /\ \A i \in 1 .. Len(old.data) : data[i] = old.data[i]
        BY <1>2
      <4>3. r = [old EXCEPT !.at = "ask", !.data = data]
        BY <3>3
      <4> HIDE DEF data, r
      <4>4. r \in Asking /\ r.at = "ask" /\ r.data = data
        BY <1>2, <4>2, <4>3 DEF Asking, Places
      <4>5. ASSUME NEW i \in 1 .. Len(data)
            PROVE  data[i] = i
        <5>1. i \in 1 .. Len(old.data) \/ i = Len(old.data) + 1
          BY <1>2, <4>2
        <5> QED  BY <1>2, <4>1, <4>2, <5>1 DEF HasPieces
      <4> QED  BY <4>1, <4>2, <4>4, <4>5 DEF HasPieces
    <3> QED  BY <3>1, <3>2, <3>3
  <2> HIDE DEF r
  <2> QED  BY <1>3, <2>1, <2>2, <2>3, OneMoves
<1>8. CASE SendFails(g) \/ DeleteFails(g) \/ NoResponse(g) \/ PauseEnds(g)
  <2>1. \E at \in {"dead", "none", "send"} : greenlet' = [greenlet EXCEPT ![g].at = at]
    BY Zenon, <1>8 DEF SendFails, DeleteFails, NoResponse, PauseEnds, Set
  <2>2. /\ old.at \in {"send", "look", "pause"} /\ (handlers' = handlers \/ handlers' = 0)
        /\ UNCHANGED <<port, attempt, pending_notifications, queries, replies, lost>>
    BY <1>8 DEF SendFails, DeleteFails, NoResponse, PauseEnds
  <2> HIDE DEF old
  <2>3. /\ old.at \notin {"none", "ack", "done"} /\ handlers' \in 0 .. MaxAttempts
        /\ {"dead", "none", "send"} \subseteq Places \ {"ack", "done"}
    BY <1>1, <1>3, <2>2 DEF Places
  <2> QED  BY <1>4, <2>1, <2>2, <2>3
<1>9. CASE Retry(g)
  <2> DEFINE rest == old.retries - 1
             r == [old EXCEPT !.at = "pause", !.retries = rest]
  <2>1. /\ greenlet' = [greenlet EXCEPT ![g] = r] /\ old.at = "look" /\ old.retries > 0 /\ handlers' = handlers
        /\ UNCHANGED <<port, attempt, pending_notifications, queries, replies, lost>>
    BY <1>9 DEF Retry
  <2>4. rest \in Nat
    BY <1>2, <2>1
  <2> HIDE DEF rest
  <2>2. r \in Asking /\ r.at = "pause" /\ r.data = old.data
    BY <1>2, <2>4 DEF Asking, Places
  <2> HIDE DEF r
  <2>3. HasPieces(r)
    BY <1>2, <2>2 DEF HasPieces
  <2> QED  BY <1>1, <2>1, <2>2, <2>3, OneMoves
<1> QED  BY <1>5, <1>6, <1>7, <1>8, <1>9 DEF Identify

\* connect starts the next greenlet, waits for it or gives it up.
LEMMA ConnectKeeps ==
  ASSUME SerialAssumed, SerialInv, connect \/ GiveUp \/ Identified
  PROVE  SerialInv'
<1>0. /\ SerialTyped /\ AllHavePieces /\ PendingWait /\ LaterAreNew /\ ReadyIsDone /\ PortIsTried /\ AcksCome
  BY SerialParts
<1>1. greenlet \in [Greenlets -> Asking] /\ attempt \in 0 .. MaxAttempts /\ MaxAttempts \in Nat
  BY <1>0 DEF SerialTyped, SerialAssumed
<1>2. AcksCome'
  BY <1>0 DEF AcksCome, AckComes, connect, GiveUp, Identified
<1>3. CASE connect
  <2> DEFINE g == attempt + 1
             r == [greenlet[g] EXCEPT !.at = "ask"]
  <2>1. /\ attempt < MaxAttempts /\ port' = "open" /\ attempt' = g /\ greenlet' = [greenlet EXCEPT ![g] = r]
        /\ UNCHANGED <<handlers, pending_notifications, queries, replies, lost>>
    BY <1>3 DEF connect
  <2>2. g \in Greenlets /\ g > attempt /\ g \in 0 .. MaxAttempts /\ attempt \in Int
    BY <1>1, <2>1 DEF Greenlets
  <2>3. greenlet[g] \in Asking /\ greenlet[g].at = "none" /\ HasPieces(greenlet[g])
    BY <1>0, <1>1, <2>2 DEF LaterAreNew, AllHavePieces
  <2>4. r \in Asking /\ r.at = "ask" /\ r.data = greenlet[g].data
    BY <2>3 DEF Asking, Places
  <2> HIDE DEF r
  <2>5. HasPieces(r)
    BY <2>3, <2>4 DEF HasPieces
  <2>6. /\ greenlet' \in [Greenlets -> Asking] /\ greenlet'[g] = r
        /\ \A h \in Greenlets : h # g => greenlet'[h] = greenlet[h]
    BY <1>1, <2>1, <2>2, <2>4
  <2>7. \A h \in Greenlets : h > g => h > attempt /\ h # g
    BY <1>1 DEF Greenlets
  <2>8. LaterAreNew'
    BY <1>0, <2>1, <2>6, <2>7 DEF LaterAreNew
  <2> HIDE DEF g
  <2>9. SerialTyped'
    BY <1>0, <2>1, <2>2, <2>6 DEF SerialTyped
  <2>10. AllHavePieces'
    BY <1>0, <2>5, <2>6 DEF AllHavePieces
  <2>11. PendingWait'
    BY <1>0, <2>1, <2>2, <2>3, <2>4, <2>6 DEF PendingWait
  <2>12. ReadyIsDone' /\ PortIsTried'
    BY <2>1, <2>2 DEF ReadyIsDone, PortIsTried
  <2> QED  BY <1>2, <2>8, <2>9, <2>10, <2>11, <2>12 DEF SerialInv
<1>4. CASE GiveUp
  <2>1. /\ port' = "failed"
        /\ UNCHANGED <<attempt, greenlet, handlers, pending_notifications, queries, replies, lost>>
    BY <1>4 DEF GiveUp
  <2> QED  BY <1>0, <1>2, <2>1 DEF SerialInv, SerialTyped, AllHavePieces, PendingWait, LaterAreNew, ReadyIsDone, PortIsTried
<1>5. CASE Identified
  <2>1. /\ port = "open" /\ port' = "ready" /\ greenlet[attempt].at = "done"
        /\ UNCHANGED <<attempt, greenlet, handlers, pending_notifications, queries, replies, lost>>
    BY <1>5 DEF Identified
  <2>2. attempt \in Greenlets
    BY <1>0, <2>1 DEF PortIsTried
  <2> QED  BY <1>0, <1>2, <2>1, <2>2 DEF SerialInv, SerialTyped, AllHavePieces, PendingWait, LaterAreNew, ReadyIsDone, PortIsTried
<1> QED  BY <1>3, <1>4, <1>5

\* disconnect: whoever waits is told, so nobody needs the acknowledgements it drops.
LEMMA DisconnectKeeps ==
  ASSUME SerialAssumed, SerialInv, disconnect
  PROVE  SerialInv'
<1>0. /\ SerialTyped /\ AllHavePieces /\ PendingWait /\ LaterAreNew /\ ReadyIsDone /\ PortIsTried /\ AcksCome
  BY SerialParts
<1>1. /\ port' = "closed" /\ greenlet' = CompletePending /\ pending_notifications' = {} /\ queries' = <<>>
      /\ (replies' = Orphaned(replies) \/ replies' = <<>>) /\ UNCHANGED <<attempt, handlers, lost>>
  BY DEF disconnect
<1>2. greenlet \in [Greenlets -> Asking] /\ replies \in Seq(Replies)
  BY <1>0 DEF SerialTyped
<1>3. ASSUME NEW g \in Greenlets
      PROVE  /\ CompletePending[g] \in Asking /\ HasPieces(CompletePending[g])
             /\ CompletePending[g].at # "ack"
             /\ (greenlet[g].at = "none" => CompletePending[g].at = "none")
  <2>1. greenlet[g] \in Asking /\ HasPieces(greenlet[g])
    BY <1>0, <1>2 DEF AllHavePieces
  <2>2. CASE g \in pending_notifications
    <3> DEFINE r == [greenlet[g] EXCEPT !.at = "none"]
    <3>1. CompletePending[g] = r
      BY <2>2 DEF CompletePending
    <3>2. r \in Asking /\ r.at = "none" /\ r.data = greenlet[g].data
      BY <2>1 DEF Asking, Places
    <3> HIDE DEF r
    <3>3. HasPieces(r)
      BY <2>1, <3>2 DEF HasPieces
    <3> QED  BY <3>1, <3>2, <3>3
  <2>3. CASE g \notin pending_notifications
    <3>1. CompletePending[g] = greenlet[g]
      BY <2>3 DEF CompletePending
    <3> QED  BY <1>0, <2>1, <2>3, <3>1 DEF PendingWait
  <2> QED  BY <2>2, <2>3
<1>4. CompletePending \in [Greenlets -> Asking]
  <2>1. CompletePending = [g \in Greenlets |-> CompletePending[g]]
    BY DEF CompletePending
  <2> HIDE DEF CompletePending
  <2> QED  BY <1>3, <2>1
<1>5. replies' \in Seq(Replies)
  <2>1. ASSUME NEW i \in DOMAIN replies
        PROVE  [replies[i] EXCEPT !.to = 0] \in Replies
    <3>1. replies[i] \in Replies /\ 0 \in 0 .. MaxAttempts
      BY <1>2 DEF SerialAssumed
    <3> QED  BY <3>1 DEF Replies
  <2>2. Orphaned(replies) \in [1 .. Len(replies) -> Replies] /\ Len(replies) \in Nat
    BY <1>2, <2>1 DEF Orphaned
  <2>3. Orphaned(replies) \in Seq(Replies)
    BY <2>2
  <2>4. <<>> \in Seq(Replies)
    OBVIOUS
  <2> HIDE DEF Orphaned
  <2> QED  BY Zenon, <1>1, <2>3, <2>4
<1>6. SerialTyped'
  BY <1>0, <1>1, <1>4, <1>5 DEF SerialTyped
<1>7. AllHavePieces' /\ PendingWait'
  BY <1>1, <1>3 DEF AllHavePieces, PendingWait
<1>8. LaterAreNew'
  BY <1>0, <1>1, <1>3 DEF LaterAreNew
<1>9. ReadyIsDone' /\ PortIsTried' /\ AcksCome'
  BY <1>1 DEF ReadyIsDone, PortIsTried, AcksCome
<1> QED  BY <1>6, <1>7, <1>8, <1>9 DEF SerialInv

\* The board answers a query with a piece and an acknowledgement, in either order, and
\* the piece may get lost.
LEMMA BoardKeeps ==
  ASSUME SerialAssumed, SerialInv, BoardReplies
  PROVE  SerialInv'
<1>0. /\ SerialTyped /\ AllHavePieces /\ PendingWait /\ LaterAreNew /\ ReadyIsDone /\ PortIsTried /\ AcksCome
  BY SerialParts
<1> DEFINE query == Head(queries)
           piece == [piece |-> Answer(query.offset), to |-> query.from]
           ack == [piece |-> NoAnswer, to |-> query.from]
<1>1. /\ queries # <<>> /\ queries' = Tail(queries)
      /\ UNCHANGED <<port, attempt, greenlet, handlers, pending_notifications>>
      /\ \/ replies' = replies \o <<piece, ack>> /\ lost' = lost
         \/ replies' = replies \o <<ack, piece>> /\ lost' = lost
         \/ lost' = lost + 1 /\ replies' = Append(replies, ack)
  BY DEF BoardReplies
<1>2. queries \in Seq(Queries) /\ replies \in Seq(Replies) /\ lost \in Nat
  BY <1>0 DEF SerialTyped
<1>3. query \in Queries
  BY <1>1, <1>2
<1>4. /\ piece \in Replies /\ ack \in Replies /\ ack.piece = NoAnswer /\ ack.to = query.from
  BY <1>3 DEF Queries, Replies, Answer, NoAnswer, Greenlets, SerialAssumed
<1>5. /\ Tail(queries) \in Seq(Queries) /\ Len(Tail(queries)) = Len(queries) - 1 /\ Len(queries) \in Nat
      /\ \A i \in 1 .. Len(queries) - 1 : Tail(queries)[i] = queries[i + 1]
  BY <1>1, <1>2
<1> HIDE DEF query, piece, ack
<1>6. /\ replies' \in Seq(Replies) /\ Len(replies') >= Len(replies) /\ Len(replies) \in Nat
      /\ \A i \in 1 .. Len(replies) : replies'[i] = replies[i]
      /\ \E i \in 1 .. Len(replies') : replies'[i] = ack
  <2>1. CASE replies' = replies \o <<piece, ack>>
    <3>1. /\ replies' \in Seq(Replies) /\ Len(replies') = Len(replies) + 2 /\ replies'[Len(replies) + 2] = ack
          /\ \A i \in 1 .. Len(replies) : replies'[i] = replies[i]
      BY <1>2, <1>4, <2>1
    <3> QED  BY <1>2, <3>1
  <2>2. CASE replies' = replies \o <<ack, piece>>
    <3>1. /\ replies' \in Seq(Replies) /\ Len(replies') = Len(replies) + 2 /\ replies'[Len(replies) + 1] = ack
          /\ \A i \in 1 .. Len(replies) : replies'[i] = replies[i]
      BY <1>2, <1>4, <2>2
    <3> QED  BY <1>2, <3>1
  <2>3. CASE replies' = Append(replies, ack)
    <3>1. /\ replies' \in Seq(Replies) /\ Len(replies') = Len(replies) + 1 /\ replies'[Len(replies) + 1] = ack
          /\ \A i \in 1 .. Len(replies) : replies'[i] = replies[i]
      BY <1>2, <1>4, <2>3
    <3> QED  BY <1>2, <3>1
  <2> QED  BY <1>1, <2>1, <2>2, <2>3
<1>7. lost' \in Nat
  BY <1>1, <1>2
<1>8. SerialTyped'
  BY <1>0, <1>1, <1>5, <1>6, <1>7 DEF SerialTyped
<1>9. AllHavePieces' /\ PendingWait' /\ LaterAreNew' /\ ReadyIsDone' /\ PortIsTried'
  BY <1>0, <1>1 DEF AllHavePieces, PendingWait, LaterAreNew, ReadyIsDone, PortIsTried
<1>10. AcksCome'
  <2>1. SUFFICES ASSUME NEW g \in pending_notifications PROVE AckComes(g)'
    BY <1>1 DEF AcksCome
  <2>2. CASE \E i \in DOMAIN queries : queries[i].from = g
    <3>1. PICK i \in DOMAIN queries : queries[i].from = g
      BY <2>2
    <3>2. CASE i = 1
      <4>1. query.from = g
        BY <1>2, <3>1, <3>2 DEF query
      <4>2. PICK j \in 1 .. Len(replies') : replies'[j] = ack
        BY <1>6
      <4>3. j \in DOMAIN replies' /\ replies'[j].to = g /\ replies'[j].piece = NoAnswer
        BY <1>4, <1>6, <4>1, <4>2
      <4> QED  BY <4>3 DEF AckComes
    <3>3. CASE i # 1
      <4>1. i \in 2 .. Len(queries)
        BY <1>2, <3>1, <3>3
      <4>2. i - 1 \in 1 .. Len(queries) - 1 /\ (i - 1) + 1 = i
        BY <1>5, <4>1
      <4>3. i - 1 \in DOMAIN Tail(queries) /\ Tail(queries)[i - 1].from = g
        BY <1>5, <3>1, <4>2
      <4> QED  BY <1>1, <4>3 DEF AckComes
    <3> QED  BY <3>2, <3>3
  <2>3. CASE \E i \in DOMAIN replies : replies[i].to = g /\ replies[i].piece = NoAnswer
    <3>1. PICK i \in DOMAIN replies : replies[i].to = g /\ replies[i].piece = NoAnswer
      BY <2>3
    <3>2. i \in DOMAIN replies' /\ replies'[i] = replies[i]
      BY <1>2, <1>6, <3>1
    <3> QED  BY <3>1, <3>2 DEF AckComes
  <2> QED  BY <1>0, <2>1, <2>2, <2>3 DEF AcksCome, AckComes
<1> QED  BY <1>8, <1>9, <1>10 DEF SerialInv

\* _bg_thread takes the first message: an acknowledgement ends one wait, and a piece goes
\* to the greenlet whose handler is registered, which may not have asked for it.
LEMMA ThreadKeeps ==
  ASSUME SerialAssumed, SerialInv, _bg_thread
  PROVE  SerialInv'
<1>0. /\ SerialTyped /\ AllHavePieces /\ PendingWait /\ LaterAreNew /\ ReadyIsDone /\ PortIsTried /\ AcksCome
  BY SerialParts
<1> DEFINE message == Head(replies)
<1>1. /\ replies # <<>> /\ replies' = Tail(replies) /\ UNCHANGED <<port, attempt, handlers, queries, lost>>
  BY DEF _bg_thread
<1>2. /\ greenlet \in [Greenlets -> Asking] /\ handlers \in 0 .. MaxAttempts /\ replies \in Seq(Replies)
      /\ pending_notifications \subseteq Greenlets
  BY <1>0 DEF SerialTyped
<1>3. message \in Replies /\ message.piece \in Nat
  <2>1. message \in Replies
    BY <1>1, <1>2
  <2> HIDE DEF message
  <2> QED  BY <2>1 DEF Replies
<1>4. /\ Tail(replies) \in Seq(Replies) /\ Len(Tail(replies)) = Len(replies) - 1 /\ Len(replies) \in Nat
      /\ \A i \in 1 .. Len(replies) - 1 : Tail(replies)[i] = replies[i + 1]
  BY <1>1, <1>2
\* An acknowledgement that is not the first one of the messages stays under way.
<1>5. ASSUME NEW g \in pending_notifications, message.to # g \/ message.piece # NoAnswer
      PROVE  AckComes(g)'
  <2>1. CASE \E i \in DOMAIN queries : queries[i].from = g
    BY <1>1, <2>1 DEF AckComes
  <2>2. CASE \E i \in DOMAIN replies : replies[i].to = g /\ replies[i].piece = NoAnswer
    <3>1. PICK i \in DOMAIN replies : replies[i].to = g /\ replies[i].piece = NoAnswer
      BY <2>2
    <3>2. i # 1
      BY <1>2, <1>5, <3>1
    <3>3. i \in 2 .. Len(replies)
      BY <1>2, <3>1, <3>2
    <3>4. i - 1 \in 1 .. Len(replies) - 1 /\ (i - 1) + 1 = i
      BY <1>4, <3>3
    <3>5. i - 1 \in DOMAIN Tail(replies) /\ Tail(replies)[i - 1] = replies[i]
      BY <1>4, <3>4
    <3> QED  BY <1>1, <3>1, <3>5 DEF AckComes
  <2> QED  BY <1>0, <2>1, <2>2 DEF AcksCome, AckComes
<1> HIDE DEF message
\* The record of one greenlet changes, but for what it has of the dictionary.
<1>6. ASSUME NEW g \in Greenlets, NEW r \in Asking, greenlet' = [greenlet EXCEPT ![g] = r],
             r.data = greenlet[g].data, r.at = greenlet[g].at \/ (greenlet[g].at = "ack" /\ r.at = "look")
      PROVE  /\ greenlet' \in [Greenlets -> Asking] /\ greenlet'[g] = r
             /\ \A h \in Greenlets : h # g => greenlet'[h] = greenlet[h]
             /\ AllHavePieces' /\ LaterAreNew' /\ ReadyIsDone' /\ PortIsTried'
  <2>1. /\ greenlet' \in [Greenlets -> Asking] /\ greenlet'[g] = r
        /\ \A h \in Greenlets : h # g => greenlet'[h] = greenlet[h]
    BY <1>2, <1>6
  <2>2. HasPieces(greenlet[g])
    BY <1>0 DEF AllHavePieces
  <2>3. HasPieces(r)
    BY <1>6, <2>2 DEF HasPieces
  <2>4. AllHavePieces'
    BY <1>0, <2>1, <2>3 DEF AllHavePieces
  <2>5. LaterAreNew'
    BY <1>0, <1>1, <1>6, <2>1 DEF LaterAreNew
  <2>6. ReadyIsDone' /\ PortIsTried'
    BY <1>0, <1>1, <1>6, <2>1 DEF ReadyIsDone, PortIsTried
  <2> QED  BY <2>1, <2>4, <2>5, <2>6
<1>7. CASE message.piece = NoAnswer
  <2>1. /\ pending_notifications' = pending_notifications \ {message.to}
        /\ greenlet' = IF message.to \in pending_notifications
                       THEN [greenlet EXCEPT ![message.to].at = "look"] ELSE greenlet
    BY <1>7 DEF _bg_thread, message
  <2>2. AcksCome'
    BY <1>5, <2>1 DEF AcksCome
  <2>3. CASE message.to \in pending_notifications
    <3> DEFINE g == message.to
               r == [greenlet[g] EXCEPT !.at = "look"]
    <3>1. g \in Greenlets /\ greenlet[g] \in Asking /\ greenlet[g].at = "ack" /\ greenlet' = [greenlet EXCEPT ![g] = r]
      BY <1>0, <1>2, <2>1, <2>3 DEF PendingWait
    <3>2. r \in Asking /\ r.at = "look" /\ r.data = greenlet[g].data
      BY <3>1 DEF Asking, Places
    <3> HIDE DEF g, r
    <3>3. /\ greenlet' \in [Greenlets -> Asking] /\ greenlet'[g] = r
          /\ \A h \in Greenlets : h # g => greenlet'[h] = greenlet[h]
          /\ AllHavePieces' /\ LaterAreNew' /\ ReadyIsDone' /\ PortIsTried'
      BY <1>6, <3>1, <3>2
    <3>4. SerialTyped'
      BY <1>0, <1>1, <1>4, <2>1, <3>3 DEF SerialTyped
    <3>5. pending_notifications' = pending_notifications \ {g}
      BY <2>1 DEF g
    <3>6. PendingWait'
      BY <1>0, <3>2, <3>3, <3>5 DEF PendingWait
    <3> QED  BY <2>2, <3>3, <3>4, <3>6 DEF SerialInv
  <2>4. CASE message.to \notin pending_notifications
    <3>1. greenlet' = greenlet /\ pending_notifications' = pending_notifications
      BY <2>1, <2>4
    <3>2. SerialTyped'
      BY <1>0, <1>1, <1>4, <3>1 DEF SerialTyped
    <3>3. AllHavePieces' /\ PendingWait' /\ LaterAreNew' /\ ReadyIsDone' /\ PortIsTried'
      BY <1>0, <1>1, <3>1 DEF AllHavePieces, PendingWait, LaterAreNew, ReadyIsDone, PortIsTried
    <3> QED  BY <2>2, <3>2, <3>3 DEF SerialInv
  <2> QED  BY <2>3, <2>4
<1>8. CASE message.piece # NoAnswer
  <2>1. /\ pending_notifications' = pending_notifications
        /\ greenlet' = IF handlers = 0 THEN greenlet
                       ELSE [greenlet EXCEPT ![handlers].last_params = message.piece]
    BY <1>8 DEF _bg_thread, message
  <2>2. AcksCome'
    BY <1>5, <1>8, <2>1 DEF AcksCome
  <2>3. CASE handlers # 0
    <3> DEFINE got == message.piece
    <3>1. PICK g \in Greenlets : g = handlers
      BY <1>2, <2>3 DEF Greenlets
    <3> DEFINE r == [greenlet[g] EXCEPT !.last_params = got]
    <3>2. greenlet[g] \in Asking /\ greenlet' = [greenlet EXCEPT ![g] = r] /\ got \in Nat
      BY <1>2, <1>3, <2>1, <2>3, <3>1
    <3> HIDE DEF got
    <3>3. r \in Asking /\ r.at = greenlet[g].at /\ r.data = greenlet[g].data
      BY <3>2 DEF Asking
    <3> HIDE DEF r
    <3>4. /\ greenlet' \in [Greenlets -> Asking] /\ greenlet'[g] = r
          /\ \A h \in Greenlets : h # g => greenlet'[h] = greenlet[h]
          /\ AllHavePieces' /\ LaterAreNew' /\ ReadyIsDone' /\ PortIsTried'
      BY <1>6, <3>2, <3>3
    <3>5. SerialTyped'
      BY <1>0, <1>1, <1>4, <2>1, <3>4 DEF SerialTyped
    <3>6. PendingWait'
      BY <1>0, <2>1, <3>3, <3>4 DEF PendingWait
    <3> QED  BY <2>2, <3>4, <3>5, <3>6 DEF SerialInv
  <2>4. CASE handlers = 0
    <3>1. greenlet' = greenlet
      BY <2>1, <2>4
    <3>2. SerialTyped'
      BY <1>0, <1>1, <1>4, <2>1, <3>1 DEF SerialTyped
    <3>3. AllHavePieces' /\ PendingWait' /\ LaterAreNew' /\ ReadyIsDone' /\ PortIsTried'
      BY <1>0, <1>1, <2>1, <3>1 DEF AllHavePieces, PendingWait, LaterAreNew, ReadyIsDone, PortIsTried
    <3> QED  BY <2>2, <3>2, <3>3 DEF SerialInv
  <2> QED  BY <2>3, <2>4
<1> QED  BY <1>7, <1>8

\* Nothing is connected, nobody waits.
LEMMA SerialStarts == SerialAssumed /\ InitSerial => SerialInv
<1> SUFFICES ASSUME SerialAssumed, InitSerial PROVE SerialInv
  OBVIOUS
<1>1. /\ port = "closed" /\ attempt = 0 /\ lost = 0 /\ greenlet = [g \in Greenlets |-> New]
      /\ handlers = 0 /\ pending_notifications = {} /\ queries = <<>> /\ replies = <<>>
  BY DEF InitSerial
<1>2. New \in Asking /\ New.at = "none" /\ New.data = <<>>
  BY DEF New, Asking, Places, NoAnswer
<1>3. HasPieces(New)
  BY <1>2 DEF HasPieces, SerialAssumed
<1>4. 0 \in 0 .. MaxAttempts
  BY DEF SerialAssumed
<1>5. SerialTyped
  BY <1>1, <1>2, <1>4 DEF SerialTyped
<1>6. AllHavePieces /\ PendingWait /\ LaterAreNew /\ ReadyIsDone /\ PortIsTried /\ AcksCome
  BY <1>1, <1>2, <1>3 DEF AllHavePieces, PendingWait, LaterAreNew, ReadyIsDone, PortIsTried, AcksCome
<1> QED  BY <1>5, <1>6 DEF SerialInv

(* However the answers of a board are reordered, lost or taken by the        *)
(* greenlet of an earlier connection, a host that calls a board connected    *)
(* has its dictionary whole and in order, and a greenlet that waits for an   *)
(* acknowledgement is going to be told (_get_identify_data, _bg_thread,      *)
(* disconnect), for every number of pieces, retries and connections.         *)
THEOREM IdentifyAlwaysWhole ==
  ASSUME SerialAssumed
  PROVE  InitSerial /\ [][NextSerial]_serial_vars => [](IdentifyIsWhole /\ WaiterIsTold)
<1>1. InitSerial => SerialInv
  BY SerialStarts
<1>2. SerialInv /\ [NextSerial]_serial_vars => SerialInv'
  <2> SUFFICES ASSUME SerialInv, [NextSerial]_serial_vars PROVE SerialInv'
    OBVIOUS
  <2>1. CASE UNCHANGED serial_vars
    BY <2>1 DEF serial_vars, SerialInv, SerialTyped, AllHavePieces, PendingWait, LaterAreNew, ReadyIsDone, PortIsTried,
                AcksCome, AckComes
  <2> QED  BY <2>1, ConnectKeeps, DisconnectKeeps, BoardKeeps, ThreadKeeps, IdentifyKeeps DEF NextSerial
<1>3. SerialInv => IdentifyIsWhole /\ WaiterIsTold
  <2> SUFFICES ASSUME SerialInv PROVE IdentifyIsWhole /\ WaiterIsTold
    OBVIOUS
  <2>0. /\ SerialTyped /\ AllHavePieces /\ PendingWait /\ ReadyIsDone /\ PortIsTried /\ AcksCome
    BY SerialParts
  <2>1. IdentifyIsWhole
    <3>1. SUFFICES ASSUME port = "ready" PROVE greenlet[attempt].data = [i \in 1 .. Pieces |-> i]
      BY DEF IdentifyIsWhole
    <3>2. attempt \in Greenlets /\ greenlet[attempt].at = "done"
      BY <2>0, <3>1 DEF ReadyIsDone
    <3> DEFINE data == greenlet[attempt].data
    <3>3. data \in Seq(Nat) /\ Len(data) = Pieces /\ \A i \in 1 .. Len(data) : data[i] = i
      BY <2>0, <3>2 DEF SerialTyped, Asking, AllHavePieces, HasPieces
    <3> HIDE DEF data
    <3>4. data = [i \in 1 .. Pieces |-> i]
      BY <3>3
    <3> QED  BY <3>4 DEF data
  <2>2. WaiterIsTold
    BY <2>0 DEF WaiterIsTold, PendingWait, AcksCome, AckComes
  <2> QED  BY <2>1, <2>2
<1> QED  BY <1>1, <1>2, <1>3, PTL

-----------------------------------------------------------------------------
(* A heater                                                                *)

\* What the constants of the code satisfy: 5 s of MAX_HEAT_TIME, some gain and some time for it.
HeatAssumed ==
  /\ Temps \subseteq Int /\ Targets \subseteq Int /\ Outputs \subseteq Int
  /\ MaxPower \in Int /\ Delta \in Int /\ TuneDelta \in Int /\ Hysteresis \in Int /\ Peaks \in Int
  /\ MAX_HEAT_TIME \in Nat /\ MAX_HEAT_TIME >= 2 /\ ReportStale \in Nat /\ ReportStale >= 1
  /\ MaxError \in Nat /\ HeatingGain \in Nat /\ HeatingGain >= 1 /\ CheckGainTime \in Nat /\ CheckGainTime >= 1

\* Types of the records
Controllers == [gov : {"watermark", "pid", "tune"}, target : Int, current : Int, age : Nat,
                acting : BOOLEAN, next_pwm : Nat, last_pwm : Int]
Calibrations == [heating : BOOLEAN, peaks : Int, target : Int, old : {"watermark", "pid"}]
Verifiers == [printer : {"up", "down"}, approaching : BOOLEAN, starting : BOOLEAN, last_target : Int,
              error : 0 .. MaxError, goal_temp : Int, goal_time : 0 .. CheckGainTime, stuck : Nat]
Heaters == [value : Int, left : Int, tripped : BOOLEAN]
Turns == [report : BOOLEAN, check : BOOLEAN, failed : BOOLEAN, from : Int, wanted : Int, seen : Int]

HeatTyped == /\ tc \in Controllers /\ tune \in Calibrations /\ verify \in Verifiers
             /\ board \in Heaters /\ turn \in Turns

\* The heater does what was sent last, unless it was shut off.
HeaterOff(c, b) == b.value = 0 \/ b.value = c.last_pwm
\* Whoever adjusted the power to a target of zero has switched the heater off.
SeenOff == turn.seen = 0 => board.value < 5
\* The board has longer to wait for the next value than the host to repeat it.
HeaterKept(c, b) == ~b.tripped /\ (b.value > 0 => b.left >= c.next_pwm + 1)
Kept == ~turn.failed =>
          HeaterKept(tc, board) /\ (board.value > 0 /\ ~turn.report => tc.next_pwm >= 1)
\* A thermometer that works has reported the temperature of this second.
Known == ~turn.failed => IF turn.report THEN Temp = turn.from ELSE tc.age = 0

\* How long the temperature has not risen, before check_event of the second has run: within
\* the time of an approach, or counted by the error.
StuckBefore ==
  verify.stuck > 0 /\ turn.check =>
    /\ verify.last_target = turn.wanted
    /\ (verify.approaching => verify.goal_temp > turn.from /\ verify.stuck + verify.goal_time <= CheckGainTime)
    /\ (~verify.approaching => verify.stuck - verify.error <= CheckGainTime + 1)

\* After check_event an approach has time left, and a goal above the temperature.
Warms == ~turn.check /\ verify.printer = "up" /\ verify.approaching =>
           verify.goal_time >= 1 /\ (verify.goal_temp > Temp \/ Temp > turn.from)

\* As StuckBefore, when check_event has run
StuckAfter ==
  ~turn.check /\ verify.stuck > 0 /\ verify.last_target = turn.wanted /\ Temp <= turn.from =>
    /\ (verify.approaching => verify.stuck + verify.goal_time <= CheckGainTime)
    /\ (~verify.approaching => verify.stuck - verify.error <= CheckGainTime)

\* Only a verifier that is up counts, and only while the heater is too cold.
StuckCounts ==
  /\ (verify.printer = "down" => verify.stuck = 0)
  /\ (verify.stuck > 0 => turn.wanted > 0 /\ turn.from < turn.wanted - Hysteresis)
  /\ verify.stuck <= CheckGainTime + MaxError + 1

HeatInv == /\ HeatTyped /\ HeaterOff(tc, board) /\ SeenOff /\ Kept /\ Known
           /\ StuckBefore /\ Warms /\ StuckAfter /\ StuckCounts

(* What _adj_temp does to a controller and to the board. *)
LEMMA AdjFacts ==
  ASSUME HeatAssumed, HeatTyped, NEW c \in Controllers, NEW wanted \in Int,
         c.next_pwm = tc.next_pwm, c.last_pwm = tc.last_pwm,
         HeaterOff(tc, board), AdjTemp(c, wanted)
  PROVE  /\ tc' \in Controllers /\ board' \in Heaters
         /\ tc'.gov = c.gov /\ tc'.target = c.target /\ tc'.age = c.age /\ tc'.current = c.current
         /\ HeaterOff(tc, board)'
         /\ (c.target = 0 => board'.value < 5)
         /\ (HeaterKept(tc, board) =>
               HeaterKept(tc, board)' /\ (board'.value > 0 => tc'.next_pwm >= 1))
<1> DEFINE value == IF c.target <= 0 THEN 0 ELSE wanted
<1>1. value \in Int /\ (c.target = 0 => value = 0)
  BY DEF Controllers
<1>2. CASE (c.next_pwm > 0 \/ c.last_pwm = 0) /\ Apart(value, c.last_pwm) < 5
  <2>1. tc' = c /\ board' = board
    BY <1>2 DEF AdjTemp
  <2>2. board \in Heaters /\ c.last_pwm \in Int /\ board.value \in Int /\ c.next_pwm \in Nat
    BY DEF HeatTyped, Heaters, Controllers
  <2>3. c.target = 0 => board.value < 5
    BY <1>1, <1>2, <2>2 DEF Apart, HeaterOff
  <2>4. board.value > 0 => c.next_pwm >= 1
    BY <1>2, <2>2 DEF HeaterOff
  <2> QED  BY <2>1, <2>2, <2>3, <2>4 DEF HeaterOff, HeaterKept
<1>3. CASE ~((c.next_pwm > 0 \/ c.last_pwm = 0) /\ Apart(value, c.last_pwm) < 5)
  <2> DEFINE repeat == (3 * MAX_HEAT_TIME) \div 4
  <2>1. repeat \in Nat /\ repeat >= 1 /\ MAX_HEAT_TIME >= repeat + 1 /\ MAX_HEAT_TIME \in Int
    BY DEF HeatAssumed
  <2>2. SetPwm(c, value)
    BY <1>3 DEF AdjTemp
  <2>3. /\ tc' = [c EXCEPT !.next_pwm = repeat, !.last_pwm = value]
        /\ board' = [board EXCEPT !.value = value, !.left = MAX_HEAT_TIME]
    BY <2>2 DEF SetPwm
  <2> HIDE DEF value, repeat
  <2>4. board \in Heaters
    BY DEF HeatTyped
  <2>5. tc' \in Controllers /\ board' \in Heaters
    BY <1>1, <2>1, <2>3, <2>4 DEF Controllers, Heaters
  <2>6. /\ tc'.gov = c.gov /\ tc'.target = c.target /\ tc'.age = c.age /\ tc'.current = c.current
        /\ tc'.next_pwm = repeat /\ tc'.last_pwm = value
        /\ board'.value = value /\ board'.left = MAX_HEAT_TIME /\ board'.tripped = board.tripped
    BY <2>3, <2>4 DEF Controllers, Heaters
  <2> QED  BY <1>1, <2>1, <2>5, <2>6 DEF HeaterOff, HeaterKept
<1> QED  BY <1>2, <1>3

\* temperature_callback, with each of the controllers
LEMMA ReportKeeps ==
  ASSUME HeatAssumed, HeatInv, NEW temp \in Temps, Report(temp)
  PROVE  HeatInv'
<1>0. /\ HeatTyped /\ HeaterOff(tc, board) /\ SeenOff /\ Kept /\ Known
      /\ StuckBefore /\ Warms /\ StuckAfter /\ StuckCounts
  BY DEF HeatInv
<1> DEFINE c == [tc EXCEPT !.current = temp, !.age = 0]
<1>1. tc \in Controllers /\ tune \in Calibrations /\ verify \in Verifiers /\ turn \in Turns /\ temp \in Int
  BY <1>0 DEF HeatTyped, HeatAssumed
<1>2. /\ c \in Controllers /\ c.next_pwm = tc.next_pwm /\ c.last_pwm = tc.last_pwm /\ c.age = 0
  BY <1>1 DEF Controllers
<1> HIDE DEF c
<1>3. turn.report /\ ~turn.failed /\ verify' = verify
      /\ turn' = [turn EXCEPT !.report = FALSE, !.seen = tc'.target]
  BY DEF Report
<1>4. /\ tune' \in Calibrations
      /\ \E d \in Controllers, wanted \in Int :
           d.next_pwm = tc.next_pwm /\ d.last_pwm = tc.last_pwm /\ d.age = 0 /\ AdjTemp(d, wanted)
  <2>1. CASE tc.gov = "watermark" /\ BangBang(c) /\ UNCHANGED tune
    <3> DEFINE acting == IF c.acting THEN c.current < c.target + Delta ELSE c.current <= c.target - Delta
               d == [c EXCEPT !.acting = acting]
    <3>1. acting \in BOOLEAN
      <4>1. c.current \in Int /\ c.target + Delta \in Int /\ c.target - Delta \in Int
        BY <1>2 DEF Controllers, HeatAssumed
      <4>2. (c.current < c.target + Delta) \in BOOLEAN /\ (c.current <= c.target - Delta) \in BOOLEAN
        BY <4>1
      <4> QED  BY Zenon, <4>2
    <3>2. AdjTemp(d, IF acting THEN MaxPower ELSE 0)
      BY <2>1 DEF BangBang
    <3> HIDE DEF acting
    <3>3. d \in Controllers /\ d.next_pwm = tc.next_pwm /\ d.last_pwm = tc.last_pwm /\ d.age = 0
      BY <1>2, <3>1 DEF Controllers
    <3>4. (IF acting THEN MaxPower ELSE 0) \in Int
      BY DEF HeatAssumed
    <3> QED  BY <1>1, <2>1, <3>2, <3>3, <3>4
  <2>2. CASE tc.gov = "pid" /\ PID(c) /\ UNCHANGED tune
    <3>1. PICK value \in Outputs : AdjTemp(c, Low(MaxPower, value))
      BY <2>2 DEF PID
    <3>2. Low(MaxPower, value) \in Int
      BY DEF HeatAssumed, Low
    <3> QED  BY <1>1, <1>2, <2>2, <3>1, <3>2
  <2>3. CASE tc.gov = "tune" /\ AutoTune(c)
    <3> DEFINE stop == tune.heating /\ c.current >= c.target
               start == ~tune.heating /\ c.current <= c.target
               heating == IF stop THEN FALSE ELSE IF start THEN TRUE ELSE tune.heating
               target == IF stop THEN tune.target - TuneDelta ELSE IF start THEN tune.target ELSE c.target
               peaks == IF stop \/ start THEN Low(tune.peaks + 1, Peaks) ELSE tune.peaks
               d == [c EXCEPT !.target = target]
    <3>1. heating \in BOOLEAN
      BY <1>1 DEF Calibrations
    <3>9. target \in Int /\ peaks \in Int
      <4>1. /\ tune.target - TuneDelta \in Int /\ tune.target \in Int /\ c.target \in Int
            /\ Low(tune.peaks + 1, Peaks) \in Int /\ tune.peaks \in Int
        BY <1>1, <1>2 DEF Calibrations, Controllers, HeatAssumed, Low
      <4> QED  BY <4>1
    <3>2. /\ tune' = [tune EXCEPT !.heating = heating, !.peaks = peaks]
          /\ AdjTemp(d, IF heating THEN MaxPower ELSE 0)
      BY <2>3 DEF AutoTune
    <3> HIDE DEF stop, start, heating, target, peaks
    <3>3. d \in Controllers /\ d.next_pwm = tc.next_pwm /\ d.last_pwm = tc.last_pwm /\ d.age = 0
      BY <1>2, <3>9 DEF Controllers
    <3>4. tune' \in Calibrations
      BY <1>1, <3>1, <3>2, <3>9 DEF Calibrations
    <3>5. (IF heating THEN MaxPower ELSE 0) \in Int
      BY DEF HeatAssumed
    <3> QED  BY <3>2, <3>3, <3>4, <3>5
  <2> QED  BY <2>1, <2>2, <2>3 DEF Report, c
<1>5. PICK d \in Controllers, wanted \in Int :
        d.next_pwm = tc.next_pwm /\ d.last_pwm = tc.last_pwm /\ d.age = 0 /\ AdjTemp(d, wanted)
  BY <1>4
<1>6. /\ tc' \in Controllers /\ board' \in Heaters /\ tc'.age = 0 /\ tc'.target = d.target
      /\ HeaterOff(tc, board)' /\ (tc'.target = 0 => board'.value < 5)
      /\ (HeaterKept(tc, board) => HeaterKept(tc, board)' /\ (board'.value > 0 => tc'.next_pwm >= 1))
  BY <1>0, <1>5, AdjFacts
<1>7. /\ turn' \in Turns /\ ~turn'.report /\ turn'.failed = turn.failed /\ turn'.check = turn.check
      /\ turn'.from = turn.from /\ turn'.wanted = turn.wanted /\ turn'.seen = tc'.target
  <2>1. tc'.target \in Int
    BY <1>6 DEF Controllers
  <2> QED  BY <1>1, <1>3, <2>1 DEF Turns
<1>8. HeatTyped'
  BY <1>1, <1>3, <1>4, <1>6, <1>7 DEF HeatTyped
<1>9. SeenOff' /\ Kept' /\ Known'
  BY <1>0, <1>3, <1>6, <1>7 DEF SeenOff, Kept, Known
<1>10. Temp = turn.from /\ Temp' \in Int /\ turn.from \in Int
  BY <1>0, <1>1, <1>3, <1>6 DEF Known, Temp, Controllers, Turns
<1>11. verify.goal_temp \in Int
  BY <1>1 DEF Verifiers
<1>12. Warms'
  BY <1>0, <1>3, <1>7, <1>10, <1>11 DEF Warms
<1>13. StuckAfter' /\ StuckBefore' /\ StuckCounts'
  BY <1>0, <1>3, <1>7, <1>10 DEF StuckAfter, StuckBefore, StuckCounts
<1> QED  BY <1>6, <1>8, <1>9, <1>12, <1>13 DEF HeatInv

(* Steps of the user, and the failure of the thermometer, which change only  *)
(* the target, the governor, and whether the thermometer reports.            *)
LEMMA QuietKeeps ==
  ASSUME HeatInv, tc' \in Controllers, tune' \in Calibrations, turn' \in Turns,
         verify' = verify, board' = board,
         tc'.last_pwm = tc.last_pwm, tc'.next_pwm = tc.next_pwm, tc'.age = tc.age, tc'.current = tc.current,
         turn'.report = turn.report, turn'.check = turn.check, turn'.from = turn.from,
         turn'.wanted = turn.wanted, turn'.seen = turn.seen, turn'.failed \/ turn'.failed = turn.failed
  PROVE  HeatInv'
<1>0. /\ HeatTyped /\ HeaterOff(tc, board) /\ SeenOff /\ Kept /\ Known
      /\ StuckBefore /\ Warms /\ StuckAfter /\ StuckCounts
  BY DEF HeatInv
<1>1. Temp' = Temp
  BY DEF Temp
<1>2. HeatTyped' /\ HeaterOff(tc, board)' /\ SeenOff'
  BY <1>0 DEF HeatTyped, HeaterOff, SeenOff
<1>3. Kept' /\ Known'
  BY <1>0, <1>1 DEF Kept, Known, HeaterKept
<1>4. StuckBefore' /\ Warms' /\ StuckAfter' /\ StuckCounts'
  BY <1>0, <1>1 DEF StuckBefore, Warms, StuckAfter, StuckCounts
<1> QED  BY <1>2, <1>3, <1>4 DEF HeatInv

\* set_temp, the start and the end of a calibration, a thermometer that fails
LEMMA UserKeeps ==
  ASSUME HeatAssumed, HeatInv,
         Fail \/ Calibrated \/ \E degrees \in Targets : set_target_temp(degrees) \/ Calibrate(degrees)
  PROVE  HeatInv'
<1>0. tc \in Controllers /\ tune \in Calibrations /\ turn \in Turns
  BY DEF HeatInv, HeatTyped
<1>1. CASE Fail
  <2>1. /\ turn' = [turn EXCEPT !.failed = TRUE] /\ tc' = tc /\ tune' = tune /\ verify' = verify /\ board' = board
    BY <1>1 DEF Fail
  <2>2. /\ turn' \in Turns /\ turn'.report = turn.report /\ turn'.check = turn.check /\ turn'.from = turn.from
        /\ turn'.wanted = turn.wanted /\ turn'.seen = turn.seen /\ turn'.failed
    BY <1>0, <2>1 DEF Turns
  <2> QED  BY <1>0, <2>1, <2>2, QuietKeeps
<1>2. CASE Calibrated
  <2>9. PICK zero \in Int : zero = 0
    OBVIOUS
  <2> DEFINE Same(c) == /\ c \in Controllers /\ c.last_pwm = tc.last_pwm /\ c.next_pwm = tc.next_pwm
                        /\ c.age = tc.age /\ c.current = tc.current
  <2>1. /\ tc' = [tc EXCEPT !.gov = tune.old, !.target = 0] /\ tune' = tune /\ verify' = verify /\ board' = board
        /\ turn' = turn
    BY <1>2 DEF Calibrated
  <2>2. tune.old = "watermark" \/ tune.old = "pid"
    BY <1>0 DEF Calibrations
  <2>3. ASSUME tune.old = "watermark"
        PROVE  Same(tc')
    <3>1. tc' = [tc EXCEPT !.gov = "watermark", !.target = zero]
      BY Zenon, <2>1, <2>3, <2>9
    <3> QED  BY <1>0, <3>1 DEF Controllers
  <2>4. ASSUME tune.old = "pid"
        PROVE  Same(tc')
    <3>1. tc' = [tc EXCEPT !.gov = "pid", !.target = zero]
      BY Zenon, <2>1, <2>4, <2>9
    <3> QED  BY <1>0, <3>1 DEF Controllers
  <2>5. Same(tc')
    BY <2>2, <2>3, <2>4
  <2> QED  BY <1>0, <2>1, <2>5, QuietKeeps
<1>3. ASSUME NEW degrees \in Targets, set_target_temp(degrees)
      PROVE  HeatInv'
  <2>1. /\ tc' = [tc EXCEPT !.target = degrees] /\ tune' = tune /\ verify' = verify /\ board' = board /\ turn' = turn
    BY <1>3 DEF set_target_temp
  <2>2. degrees \in Int
    BY DEF HeatAssumed
  <2>3. /\ tc' \in Controllers /\ tc'.last_pwm = tc.last_pwm /\ tc'.next_pwm = tc.next_pwm /\ tc'.age = tc.age
        /\ tc'.current = tc.current
    BY <1>0, <2>1, <2>2 DEF Controllers
  <2> QED  BY <1>0, <2>1, <2>3, QuietKeeps
<1>4. ASSUME NEW degrees \in Targets, Calibrate(degrees)
      PROVE  HeatInv'
  <2>1. /\ tc' = [tc EXCEPT !.gov = "tune", !.target = degrees] /\ verify' = verify /\ board' = board /\ turn' = turn
        /\ tune' = [heating |-> FALSE, peaks |-> 0, target |-> degrees, old |-> tc.gov]
        /\ tc.gov # "tune"
    BY <1>4 DEF Calibrate
  <2>2. degrees \in Int
    BY DEF HeatAssumed
  <2>3. /\ tc' \in Controllers /\ tc'.last_pwm = tc.last_pwm /\ tc'.next_pwm = tc.next_pwm /\ tc'.age = tc.age
        /\ tc'.current = tc.current
    BY <1>0, <2>1, <2>2 DEF Controllers
  <2>4. tune' \in Calibrations
    BY <1>0, <2>1, <2>2 DEF Calibrations, Controllers
  <2> QED  BY <1>0, <2>1, <2>3, <2>4, QuietKeeps
<1> QED  BY <1>1, <1>2, <1>3, <1>4

\* check_event, with each of the branches it takes
LEMMA CheckKeeps ==
  ASSUME HeatAssumed, HeatInv, CheckEvent
  PROVE  HeatInv'
<1>0. /\ HeatTyped /\ HeaterOff(tc, board) /\ SeenOff /\ Kept /\ Known
      /\ StuckBefore /\ Warms /\ StuckAfter /\ StuckCounts
  BY DEF HeatInv
<1>1. tc \in Controllers /\ tune \in Calibrations /\ verify \in Verifiers /\ turn \in Turns /\ board \in Heaters
  BY <1>0 DEF HeatTyped
<1>2. /\ turn.check /\ verify.printer = "up" /\ tc' = tc /\ tune' = tune
      /\ turn' = [turn EXCEPT !.check = FALSE]
  BY DEF CheckEvent
<1>3. /\ turn' \in Turns /\ ~turn'.check /\ turn'.report = turn.report /\ turn'.failed = turn.failed
      /\ turn'.from = turn.from /\ turn'.wanted = turn.wanted /\ turn'.seen = turn.seen
  BY <1>1, <1>2 DEF Turns
<1>4. /\ Temp' = Temp /\ Temp \in Int /\ tc.target \in Int /\ turn.from \in Int /\ turn.wanted \in Int
  BY <1>1, <1>2 DEF Temp, Controllers, Turns
<1>5. /\ verify.goal_temp \in Int /\ verify.goal_time \in 0 .. CheckGainTime /\ verify.stuck \in Nat
      /\ verify.last_target \in Int /\ verify.error \in 0 .. MaxError
  BY <1>1 DEF Verifiers
<1>6. /\ Hysteresis \in Int /\ HeatingGain \in Nat /\ HeatingGain >= 1 /\ CheckGainTime \in Nat
      /\ CheckGainTime >= 1 /\ MaxError \in Nat
  BY DEF HeatAssumed
<1>7. StuckBefore'
  BY <1>3 DEF StuckBefore
<1>8. Known'
  BY <1>0, <1>2, <1>3, <1>4 DEF Known
<1>9. ASSUME UNCHANGED board
      PROVE  HeaterOff(tc, board)' /\ SeenOff' /\ Kept' /\ board' \in Heaters
  BY <1>0, <1>1, <1>2, <1>3, <1>9 DEF HeaterOff, SeenOff, Kept, HeaterKept
<1>10. ASSUME UNCHANGED board, verify' \in Verifiers, verify'.stuck = verify.stuck, verify'.printer = "up",
              Warms', StuckAfter'
       PROVE  HeatInv'
  <2>1. HeatTyped'
    BY <1>1, <1>2, <1>3, <1>9, <1>10 DEF HeatTyped
  <2>2. StuckCounts'
    BY <1>0, <1>3, <1>10 DEF StuckCounts
  <2> QED  BY <1>7, <1>8, <1>9, <1>10, <2>1, <2>2 DEF HeatInv
<1>11. CASE Near
  <2> DEFINE error == IF Temp <= tc.target + Hysteresis THEN 0 ELSE verify.error
  <2>1. /\ verify' = [verify EXCEPT !.approaching = FALSE, !.starting = FALSE, !.error = error, !.last_target = tc.target]
        /\ UNCHANGED board
    BY <1>11 DEF CheckEvent
  <2>2. error \in 0 .. MaxError
    BY <1>5, <1>6
  <2> HIDE DEF error
  <2>3. /\ verify' \in Verifiers /\ verify'.stuck = verify.stuck /\ verify'.printer = "up" /\ ~verify'.approaching
        /\ verify'.last_target = tc.target
    BY <1>1, <1>2, <1>4, <2>1, <2>2 DEF Verifiers
  <2>4. Warms'
    BY <2>3 DEF Warms
  <2>5. StuckAfter'
    BY <1>0, <1>3, <1>4, <1>5, <1>6, <1>11, <2>3 DEF StuckAfter, StuckCounts, Near
  <2> QED  BY <1>10, <2>1, <2>3, <2>4, <2>5
<1>12. CASE ~Near /\ Faults
  <2>1. /\ verify' = [verify EXCEPT !.printer = "down", !.stuck = 0]
        /\ board' = [board EXCEPT !.value = 0]
    BY <1>12 DEF CheckEvent, Shutdown
  <2>2. /\ verify' \in Verifiers /\ verify'.printer = "down" /\ verify'.stuck = 0
    BY <1>1, <2>1 DEF Verifiers
  <2>3. /\ board' \in Heaters /\ board'.value = 0 /\ board'.tripped = board.tripped
    BY <1>1, <2>1 DEF Heaters
  <2>4. HeatTyped'
    BY <1>1, <1>2, <1>3, <2>2, <2>3 DEF HeatTyped
  <2>5. HeaterOff(tc, board)' /\ SeenOff' /\ Kept'
    BY <1>0, <1>3, <2>3 DEF HeaterOff, SeenOff, Kept, HeaterKept
  <2>6. Warms' /\ StuckAfter' /\ StuckCounts'
    BY <1>6, <2>2 DEF Warms, StuckAfter, StuckCounts
  <2> QED  BY <1>7, <1>8, <2>4, <2>5, <2>6 DEF HeatInv
<1>13. CASE ~Near /\ ~Faults
  <2> DEFINE error == Low(verify.error + tc.target - Hysteresis - Temp, MaxError)
             v == [verify EXCEPT !.error = error, !.last_target = tc.target]
             goal == Temp + HeatingGain
  <2>1. NotHeating /\ UNCHANGED board
    BY <1>13 DEF CheckEvent
  <2>2. tc.target > 0 /\ Temp < tc.target - Hysteresis
    BY <1>4, <1>6, <1>13 DEF Near
  <2>3. /\ error \in 0 .. MaxError
        /\ (error = MaxError \/ error >= verify.error + 1)
    BY <1>4, <1>5, <1>6, <2>2 DEF Low
  <2>4. goal \in Int /\ goal > Temp
    BY <1>4, <1>6
  <2>5. ~verify.approaching /\ tc.target = verify.last_target => error >= verify.error + 1
    BY <1>4, <1>5, <1>6, <1>13, <2>2 DEF Low, Faults
  <2>13. /\ ~(Temp >= verify.goal_temp /\ Temp < verify.goal_temp)
         /\ ~(verify.goal_time <= 0 /\ verify.goal_time > 0)
    BY <1>4, <1>5
  <2> HIDE DEF error
  <2>6. /\ v \in Verifiers /\ v.stuck = verify.stuck /\ v.printer = "up" /\ v.approaching = verify.approaching
        /\ v.last_target = tc.target /\ v.error = error /\ v.goal_temp = verify.goal_temp /\ v.goal_time = verify.goal_time
    BY <1>1, <1>2, <1>4, <2>3 DEF Verifiers
  <2> HIDE DEF goal
  <2>7. CASE ~verify.approaching /\ tc.target # verify.last_target
    <3>1. verify' = [Approach(v, Temp) EXCEPT !.approaching = TRUE, !.starting = TRUE]
      BY <2>1, <2>7 DEF NotHeating, error, v
    <3>2. Approach(v, Temp) = [v EXCEPT !.goal_temp = goal, !.goal_time = CheckGainTime]
      BY DEF Approach, goal
    <3>3. CheckGainTime \in 0 .. CheckGainTime
      BY <1>6
    <3> HIDE DEF v
    <3>4. /\ verify' \in Verifiers /\ verify'.stuck = verify.stuck /\ verify'.printer = "up" /\ verify'.approaching
          /\ verify'.last_target = tc.target /\ verify'.goal_temp = goal /\ verify'.goal_time = CheckGainTime
      BY <2>4, <2>6, <3>1, <3>2, <3>3 DEF Verifiers
    <3>5. Warms'
      BY <1>3, <1>4, <1>6, <2>4, <3>4 DEF Warms
    <3>6. StuckAfter'
      BY <1>0, <1>2, <1>3, <1>4, <2>7, <3>4 DEF StuckAfter, StuckBefore
    <3> QED  BY <1>10, <2>1, <3>4, <3>5, <3>6
  <2>8. CASE ~verify.approaching /\ tc.target = verify.last_target
    <3>1. verify' = v
      BY <2>1, <2>8 DEF NotHeating, error, v
    <3> HIDE DEF v
    <3>2. Warms'
      BY <2>6, <2>8, <3>1 DEF Warms
    <3>3. StuckAfter'
      BY <1>0, <1>2, <1>3, <1>4, <1>5, <1>6, <2>3, <2>5, <2>6, <2>8, <3>1 DEF StuckAfter, StuckBefore
    <3> QED  BY <1>10, <2>1, <2>6, <3>1, <3>2, <3>3
  <2>9. CASE verify.approaching /\ Temp >= verify.goal_temp
    <3>1. verify' = [Approach(v, Temp) EXCEPT !.starting = FALSE, !.error = 0]
      BY Zenon, <2>1, <2>9, <2>13 DEF NotHeating, error, v
    <3>2. Approach(v, Temp) = [v EXCEPT !.goal_temp = goal, !.goal_time = CheckGainTime]
      BY DEF Approach, goal
    <3>3. CheckGainTime \in 0 .. CheckGainTime /\ 0 \in 0 .. MaxError
      BY <1>6
    <3> HIDE DEF v
    <3>4. /\ verify' \in Verifiers /\ verify'.stuck = verify.stuck /\ verify'.printer = "up"
          /\ verify'.goal_temp = goal /\ verify'.goal_time = CheckGainTime
      BY <2>4, <2>6, <3>1, <3>2, <3>3 DEF Verifiers
    <3>5. Warms'
      BY <1>3, <1>4, <1>6, <2>4, <3>4 DEF Warms
    <3>6. StuckAfter'
      BY <1>0, <1>2, <1>3, <1>4, <1>5, <2>9, <3>4 DEF StuckAfter, StuckBefore
    <3> QED  BY <1>10, <2>1, <3>4, <3>5, <3>6
  <2>10. CASE verify.approaching /\ Temp < verify.goal_temp /\ verify.goal_time <= 0
    <3>1. verify' = [v EXCEPT !.approaching = FALSE]
      BY Zenon, <2>1, <2>10, <2>13 DEF NotHeating, error, v
    <3> HIDE DEF v
    <3>2. /\ verify' \in Verifiers /\ verify'.stuck = verify.stuck /\ verify'.printer = "up" /\ ~verify'.approaching
          /\ verify'.last_target = tc.target /\ verify'.error = error
      BY <2>6, <3>1 DEF Verifiers
    <3>3. Warms'
      BY <3>2 DEF Warms
    <3>4. StuckAfter'
      BY <1>0, <1>2, <1>3, <1>4, <1>5, <1>6, <2>3, <2>10, <3>2 DEF StuckAfter, StuckBefore
    <3> QED  BY <1>10, <2>1, <3>2, <3>3, <3>4
  <2>11. CASE verify.approaching /\ Temp < verify.goal_temp /\ verify.goal_time > 0 /\ verify.starting
    <3> DEFINE least == Low(verify.goal_temp, Temp + HeatingGain)
    <3>1. verify' = [v EXCEPT !.goal_temp = least]
      <4>1. verify' = [v EXCEPT !.goal_temp = Low(@, Temp + HeatingGain)]
        BY Zenon, <2>1, <2>11, <2>13 DEF NotHeating, error, v
      <4> QED  BY <2>6, <4>1
    <3>2. least \in Int /\ least > Temp
      BY <1>4, <1>5, <1>6, <2>11 DEF Low
    <3> HIDE DEF v, least
    <3>3. /\ verify' \in Verifiers /\ verify'.stuck = verify.stuck /\ verify'.printer = "up" /\ verify'.approaching
          /\ verify'.last_target = tc.target /\ verify'.goal_temp = least /\ verify'.goal_time = verify.goal_time
      BY <2>6, <2>11, <3>1, <3>2 DEF Verifiers
    <3>4. Warms'
      BY <1>3, <1>4, <1>5, <2>11, <3>2, <3>3 DEF Warms
    <3>5. StuckAfter'
      BY <1>0, <1>2, <1>3, <1>4, <1>5, <2>11, <3>3 DEF StuckAfter, StuckBefore
    <3> QED  BY <1>10, <2>1, <3>3, <3>4, <3>5
  <2>12. CASE verify.approaching /\ Temp < verify.goal_temp /\ verify.goal_time > 0 /\ ~verify.starting
    <3>1. verify' = v
      BY Zenon, <2>1, <2>12, <2>13 DEF NotHeating, error, v
    <3> HIDE DEF v
    <3>2. Warms'
      BY <1>3, <1>4, <1>5, <2>6, <2>12, <3>1 DEF Warms
    <3>3. StuckAfter'
      BY <1>0, <1>2, <1>3, <1>4, <1>5, <2>6, <2>12, <3>1 DEF StuckAfter, StuckBefore
    <3> QED  BY <1>10, <2>1, <2>6, <3>1, <3>2, <3>3
  <2> QED  BY <1>4, <1>5, <2>7, <2>8, <2>9, <2>10, <2>11, <2>12
<1> QED  BY <1>11, <1>12, <1>13

\* A second passes: the verifier has run in it, or has shut the printer down.
LEMMA SecondKeeps ==
  ASSUME HeatAssumed, HeatInv, Second
  PROVE  HeatInv'
<1>0. /\ HeatTyped /\ HeaterOff(tc, board) /\ SeenOff /\ Kept /\ Known
      /\ StuckBefore /\ Warms /\ StuckAfter /\ StuckCounts
  BY DEF HeatInv
<1>1. tc \in Controllers /\ tune \in Calibrations /\ verify \in Verifiers /\ turn \in Turns /\ board \in Heaters
  BY <1>0 DEF HeatTyped
<1>2. /\ (~turn.report \/ turn.failed) /\ (~turn.check \/ verify.printer = "down") /\ tune' = tune
  BY DEF Second
<1>3. /\ Temp \in Int /\ tc.target \in Int /\ turn.from \in Int /\ turn.wanted \in Int
      /\ tc.age \in Nat /\ tc.next_pwm \in Nat /\ tc.last_pwm \in Int /\ tc.current \in Int
  BY <1>1 DEF Temp, Controllers, Turns
<1>4. /\ Hysteresis \in Int /\ CheckGainTime \in Nat /\ CheckGainTime >= 1 /\ MaxError \in Nat
      /\ MAX_HEAT_TIME \in Nat /\ MAX_HEAT_TIME >= 2 /\ ReportStale \in Nat /\ ReportStale >= 1
  BY DEF HeatAssumed
<1>5. /\ turn' \in Turns /\ turn'.report /\ turn'.check /\ turn'.failed = turn.failed /\ turn'.seen = turn.seen
      /\ turn'.from = Temp /\ turn'.wanted = tc.target
  <2>1. turn' = [turn EXCEPT !.report = TRUE, !.check = TRUE, !.from = Temp, !.wanted = tc.target]
    BY DEF Second
  <2> QED  BY <1>1, <1>3, <2>1 DEF Turns
<1>6. /\ tc' \in Controllers /\ tc'.next_pwm = High(0, tc.next_pwm - 1) /\ tc'.last_pwm = tc.last_pwm
      /\ tc'.age = Low(tc.age + 1, MAX_HEAT_TIME + ReportStale) /\ tc'.current = tc.current
  <2> DEFINE next == High(0, tc.next_pwm - 1)
             age == Low(tc.age + 1, MAX_HEAT_TIME + ReportStale)
  <2>1. tc' = [tc EXCEPT !.next_pwm = next, !.age = age]
    BY <1>1 DEF Second, Controllers
  <2>2. next \in Nat /\ age \in Nat
    BY <1>3, <1>4 DEF High, Low
  <2> HIDE DEF next, age
  <2>3. /\ tc' \in Controllers /\ tc'.next_pwm = next /\ tc'.last_pwm = tc.last_pwm
        /\ tc'.age = age /\ tc'.current = tc.current
    BY <1>1, <2>1, <2>2 DEF Controllers
  <2> QED  BY <2>3 DEF next, age
<1>7. board.value \in Int /\ board.left \in Int
  BY <1>1 DEF Heaters
<1>9. /\ board' \in Heaters /\ (HeaterOff(tc, board))' /\ SeenOff' /\ Kept'
  <2>1. CASE board.value > 0 /\ board.left = 1
    <3>1. board' = [value |-> 0, left |-> 0, tripped |-> TRUE]
      BY <2>1 DEF Second
    <3>2. turn.failed
      BY <1>0, <1>2, <1>3, <2>1 DEF Kept, HeaterKept
    <3> QED  BY <1>5, <3>1, <3>2 DEF Heaters, HeaterOff, SeenOff, Kept
  <2>2. CASE ~(board.value > 0 /\ board.left = 1)
    <3> DEFINE left == High(0, board.left - 1)
    <3>1. board' = [board EXCEPT !.left = left]
      BY <1>1, <2>2 DEF Second, Heaters
    <3>2. left \in Int /\ left >= board.left - 1
      BY <1>7 DEF High
    <3>3. ~turn.failed /\ board.value > 0 => left >= High(0, tc.next_pwm - 1) + 1
      BY <1>0, <1>2, <1>3, <1>7, <3>2 DEF Kept, HeaterKept, High
    <3> HIDE DEF left
    <3>4. /\ board' \in Heaters /\ board'.value = board.value /\ board'.left = left /\ board'.tripped = board.tripped
      BY <1>1, <3>1, <3>2 DEF Heaters
    <3>5. (HeaterOff(tc, board))' /\ SeenOff'
      BY <1>0, <1>5, <1>6, <3>4 DEF HeaterOff, SeenOff
    <3>6. Kept'
      BY <1>0, <1>5, <1>6, <3>3, <3>4 DEF Kept, HeaterKept
    <3> QED  BY <3>4, <3>5, <3>6
  <2> QED  BY <2>1, <2>2
<1>10. Known'
  <2>1. SUFFICES ASSUME ~turn.failed
                 PROVE  Temp' = Temp
    BY <1>5 DEF Known
  <2>2. tc.age = 0
    BY <1>0, <1>2, <2>1 DEF Known
  <2>3. tc'.age = 1
    BY <1>4, <1>6, <2>2 DEF Low
  <2> QED  BY <1>4, <1>6, <2>2, <2>3 DEF Temp
<1>11. Warms' /\ StuckAfter'
  BY <1>5 DEF Warms, StuckAfter
<1> DEFINE hours == High(0, verify.goal_time - 1)
           stuck == IF Cold /\ Steady /\ turn.from >= Temp THEN verify.stuck + 1 ELSE 0
<1>12. /\ verify.goal_temp \in Int /\ verify.goal_time \in 0 .. CheckGainTime /\ verify.stuck \in Nat
       /\ verify.last_target \in Int /\ verify.error \in 0 .. MaxError
  BY <1>1 DEF Verifiers
<1>13. verify' = [verify EXCEPT !.goal_time = hours, !.stuck = stuck]
  BY <1>1 DEF Second, Verifiers
<1>14. hours \in 0 .. CheckGainTime /\ stuck \in Nat
  BY <1>4, <1>12 DEF High
<1>15. stuck > 0 =>
         /\ verify.printer = "up" /\ tc.target > 0 /\ Temp < tc.target - Hysteresis
         /\ verify.last_target = tc.target /\ turn.wanted = tc.target /\ turn.from >= Temp /\ stuck = verify.stuck + 1
  BY DEF Cold, Steady
<1>16. stuck > 0 =>
         /\ (verify.approaching => verify.goal_temp > Temp /\ stuck + hours <= CheckGainTime)
         /\ (~verify.approaching => stuck - verify.error <= CheckGainTime + 1)
  <2>1. SUFFICES ASSUME stuck > 0
                 PROVE  /\ (verify.approaching => verify.goal_temp > Temp /\ stuck + hours <= CheckGainTime)
                        /\ (~verify.approaching => stuck - verify.error <= CheckGainTime + 1)
    OBVIOUS
  <2>2. ~turn.check
    BY <1>2, <1>15, <2>1
  <2>3. CASE verify.approaching
    <3>1. verify.goal_time >= 1 /\ verify.goal_temp > Temp
      BY <1>0, <1>3, <1>15, <2>1, <2>2, <2>3 DEF Warms
    <3>2. verify.stuck > 0 => verify.stuck + verify.goal_time <= CheckGainTime
      BY <1>0, <1>3, <1>15, <2>1, <2>2, <2>3 DEF StuckAfter
    <3>3. stuck = verify.stuck + 1 /\ hours = verify.goal_time - 1
      BY <1>12, <1>15, <2>1, <3>1 DEF High
    <3> HIDE DEF stuck, hours
    <3> QED  BY <1>4, <1>12, <2>3, <3>1, <3>2, <3>3
  <2>4. CASE ~verify.approaching
    <3>1. verify.stuck > 0 => verify.stuck - verify.error <= CheckGainTime
      BY <1>0, <1>3, <1>15, <2>1, <2>2, <2>4 DEF StuckAfter
    <3>2. stuck = verify.stuck + 1
      BY <1>15, <2>1
    <3> HIDE DEF stuck
    <3> QED  BY <1>4, <1>12, <2>4, <3>1, <3>2
  <2> QED  BY <2>3, <2>4
<1> HIDE DEF hours, stuck
<1>17. /\ verify' \in Verifiers /\ verify'.printer = verify.printer /\ verify'.approaching = verify.approaching
       /\ verify'.last_target = verify.last_target /\ verify'.error = verify.error
       /\ verify'.goal_temp = verify.goal_temp /\ verify'.goal_time = hours /\ verify'.stuck = stuck
  BY <1>1, <1>13, <1>14 DEF Verifiers
<1>18. StuckBefore'
  BY <1>5, <1>15, <1>16, <1>17 DEF StuckBefore
<1>19. StuckCounts'
  <2>1. stuck <= CheckGainTime + MaxError + 1
    BY <1>4, <1>12, <1>14, <1>16
  <2>2. verify.printer = "down" => stuck = 0
    BY <1>14, <1>15
  <2> QED  BY <1>5, <1>15, <1>17, <2>1, <2>2 DEF StuckCounts
<1>20. HeatTyped'
  BY <1>1, <1>2, <1>5, <1>6, <1>9, <1>17 DEF HeatTyped
<1> QED  BY <1>9, <1>10, <1>11, <1>18, <1>19, <1>20 DEF HeatInv

\* A cold heater without a target
LEMMA HeatStarts == HeatAssumed /\ InitHeat => HeatInv
<1> SUFFICES ASSUME HeatAssumed, InitHeat PROVE HeatInv
  OBVIOUS
<1>1. /\ MaxError \in Nat /\ CheckGainTime \in Nat /\ ReportStale \in Nat
  BY DEF HeatAssumed
<1>2. 0 \in 0 .. MaxError /\ 0 \in 0 .. CheckGainTime
  BY <1>1
<1>3. HeatTyped
  BY <1>2 DEF InitHeat, HeatTyped, Controllers, Calibrations, Verifiers, Heaters, Turns
<1>4. HeaterOff(tc, board) /\ SeenOff /\ Kept
  BY DEF InitHeat, HeaterOff, SeenOff, Kept, HeaterKept
<1>5. Known
  BY <1>1 DEF InitHeat, Known, Temp
<1>6. StuckBefore /\ Warms /\ StuckAfter /\ StuckCounts
  BY <1>1 DEF InitHeat, StuckBefore, Warms, StuckAfter, StuckCounts
<1> QED  BY <1>3, <1>4, <1>5, <1>6 DEF HeatInv

(* Whatever the user sets, calibrates and sets again, and whenever the       *)
(* thermometer fails: a heater that is on is repeated before its board gives *)
(* up, a target of zero ends with no power, and a heater that does not warm  *)
(* up shuts the printer down in time (set_pwm, temperature_callback,         *)
(* check_event), for all temperatures, gains and times.                      *)
THEOREM HeatAlwaysSafe ==
  ASSUME HeatAssumed
  PROVE  InitHeat /\ [][NextHeat]_heat_vars => [](RepeatedInTime /\ NoTargetIsOff /\ StuckIsNoticed)
<1>1. InitHeat => HeatInv
  BY HeatStarts
<1>2. HeatInv /\ [NextHeat]_heat_vars => HeatInv'
  <2> SUFFICES ASSUME HeatInv, [NextHeat]_heat_vars PROVE HeatInv'
    OBVIOUS
  <2>1. CASE UNCHANGED heat_vars
    <3>1. tc' \in Controllers /\ tune' \in Calibrations /\ turn' \in Turns
      BY <2>1 DEF heat_vars, HeatInv, HeatTyped
    <3> QED  BY <2>1, <3>1, QuietKeeps DEF heat_vars
  <2> QED  BY <2>1, ReportKeeps, UserKeeps, CheckKeeps, SecondKeeps DEF NextHeat
<1>3. HeatInv => RepeatedInTime /\ NoTargetIsOff /\ StuckIsNoticed
  <2> SUFFICES ASSUME HeatInv PROVE RepeatedInTime /\ NoTargetIsOff /\ StuckIsNoticed
    OBVIOUS
  <2>1. verify.stuck \in Nat /\ MaxError \in Nat /\ CheckGainTime \in Nat
    BY DEF HeatInv, HeatTyped, Verifiers, HeatAssumed
  <2>2. StuckIsNoticed
    BY <2>1 DEF HeatInv, StuckCounts, StuckIsNoticed
  <2>3. RepeatedInTime /\ NoTargetIsOff
    BY DEF HeatInv, Kept, HeaterKept, RepeatedInTime, SeenOff, NoTargetIsOff
  <2> QED  BY <2>2, <2>3
<1> QED  BY <1>1, <1>2, <1>3, PTL

\* The count a message carries tells apart more reports than the board keeps.
ButtonsAssumed ==
  CountMod \in Nat /\ MaxUnacked \in Nat /\ CountMod > 2 * MaxUnacked /\ Debounce \in Nat /\ MaxPosition \in Nat

-----------------------------------------------------------------------------
(* The encoder. *)

\* How far from a detent the encoder is, in each state of the table.
Away == <<0, 3, 1, 2, -1, -3, -2>>
\* The state of the table says how far the encoder is from the detent it was counted at.
EncoderInv ==
  /\ position \in Int /\ turns \in Int
  /\ \/ encoder_state \in 0 .. 6 /\ position = 4 * turns + Away[encoder_state + 1]
     \/ encoder_state \in {CW, CCW} /\ position = 4 * turns

\* The pins around a detent
LEMMA PinsAt ==
  ASSUME NEW t \in Int
  PROVE  /\ Pins(4 * t) = 3 /\ Pins(4 * t + 1) = 1 /\ Pins(4 * t + 2) = 0 /\ Pins(4 * t + 3) = 2
         /\ Pins(4 * t - 1) = 2 /\ Pins(4 * t - 2) = 0 /\ Pins(4 * t - 3) = 1 /\ Pins(4 * t + 4) = 3 /\ Pins(4 * t - 4) = 3
<1>1. /\ (4 * t) % 4 = 0 /\ (4 * t + 1) % 4 = 1 /\ (4 * t + 2) % 4 = 2 /\ (4 * t + 3) % 4 = 3
      /\ (4 * t - 1) % 4 = 3 /\ (4 * t - 2) % 4 = 2 /\ (4 * t - 3) % 4 = 1 /\ (4 * t + 4) % 4 = 0 /\ (4 * t - 4) % 4 = 0
  OBVIOUS
<1> QED  BY <1>1 DEF Pins

\* The states a state of the table goes to, by the pins of the next quarter turn.
LEMMA NewStates ==
  /\ encoder_state \in {0, CW, CCW} => NewEncoderState(1) = 2 /\ NewEncoderState(2) = 4
  /\ encoder_state = 1 => NewEncoderState(3) = CW /\ NewEncoderState(0) = 3
  /\ encoder_state = 2 => NewEncoderState(3) = 0 /\ NewEncoderState(0) = 3
  /\ encoder_state = 3 => NewEncoderState(1) = 2 /\ NewEncoderState(2) = 1
  /\ encoder_state = 4 => NewEncoderState(3) = 0 /\ NewEncoderState(0) = 6
  /\ encoder_state = 5 => NewEncoderState(3) = CCW /\ NewEncoderState(0) = 6
  /\ encoder_state = 6 => NewEncoderState(1) = 5 /\ NewEncoderState(2) = 4
BY DEF NewEncoderState, ENCODER_STATES, CW, CCW

\* encoder_callback, from each state of the table
LEMMA EncoderKeeps ==
  ASSUME EncoderInv, encoder_callback
  PROVE  EncoderInv'
<1>1. PICK q \in {position - 1, position + 1} : position' = q
  BY DEF encoder_callback
<1>2. /\ encoder_state' = NewEncoderState(Pins(q))
      /\ turns' = turns + (IF encoder_state' \div 16 = 1 THEN 1 ELSE IF encoder_state' \div 16 = 2 THEN -1 ELSE 0)
  BY <1>1 DEF encoder_callback
<1>3. position \in Int /\ turns \in Int /\ q \in Int
  BY DEF EncoderInv
<1>4. ASSUME NEW s \in 0 .. 6, encoder_state' = s, q = 4 * turns + Away[s + 1]
      PROVE  EncoderInv'
  <2>1. turns' = turns
    BY <1>2, <1>3, <1>4
  <2> QED  BY <1>1, <1>3, <1>4, <2>1 DEF EncoderInv
<1>5. ASSUME encoder_state' = CW, q = 4 * turns + 4
      PROVE  EncoderInv'
  <2>1. turns' = turns + 1
    BY <1>2, <1>3, <1>5 DEF CW
  <2> QED  BY <1>1, <1>3, <1>5, <2>1 DEF EncoderInv
<1>6. ASSUME encoder_state' = CCW, q = 4 * turns - 4
      PROVE  EncoderInv'
  <2>1. turns' = turns - 1
    BY <1>2, <1>3, <1>6 DEF CCW
  <2> QED  BY <1>1, <1>3, <1>6, <2>1 DEF EncoderInv
<1> DEFINE At(n) == q = 4 * turns + n
<1>7. /\ (At(0) \/ At(4) \/ At(-4)) => Pins(q) = 3
      /\ (At(1) \/ At(-3)) => Pins(q) = 1
      /\ (At(2) \/ At(-2)) => Pins(q) = 0
      /\ (At(3) \/ At(-1)) => Pins(q) = 2
  BY <1>3, PinsAt
<1>8. Away[1] = 0 /\ Away[2] = 3 /\ Away[3] = 1 /\ Away[4] = 2 /\ Away[5] = -1 /\ Away[6] = -3 /\ Away[7] = -2
  BY DEF Away
<1>9. CASE (encoder_state = 0 \/ encoder_state \in {CW, CCW})
  <2>1. position = 4 * turns + 0
    BY <1>3, <1>8, <1>9 DEF EncoderInv, CW, CCW
  <2>2. (At(1) /\ encoder_state' = 2) \/ (At(-1) /\ encoder_state' = 4)
    BY <1>1, <1>2, <1>3, <1>7, <1>9, <2>1, NewStates
  <2> QED  BY <1>3, <1>4, <1>5, <1>6, <1>8, <2>2
<1>10. CASE encoder_state = 1
  <2>1. position = 4 * turns + 3
    BY <1>3, <1>8, <1>10 DEF EncoderInv, CW, CCW
  <2>2. (At(4) /\ encoder_state' = CW) \/ (At(2) /\ encoder_state' = 3)
    BY <1>1, <1>2, <1>3, <1>7, <1>10, <2>1, NewStates
  <2> QED  BY <1>3, <1>4, <1>5, <1>6, <1>8, <2>2
<1>11. CASE encoder_state = 2
  <2>1. position = 4 * turns + 1
    BY <1>3, <1>8, <1>11 DEF EncoderInv, CW, CCW
  <2>2. (At(2) /\ encoder_state' = 3) \/ (At(0) /\ encoder_state' = 0)
    BY <1>1, <1>2, <1>3, <1>7, <1>11, <2>1, NewStates
  <2> QED  BY <1>3, <1>4, <1>5, <1>6, <1>8, <2>2
<1>12. CASE encoder_state = 3
  <2>1. position = 4 * turns + 2
    BY <1>3, <1>8, <1>12 DEF EncoderInv, CW, CCW
  <2>2. (At(3) /\ encoder_state' = 1) \/ (At(1) /\ encoder_state' = 2)
    BY <1>1, <1>2, <1>3, <1>7, <1>12, <2>1, NewStates
  <2> QED  BY <1>3, <1>4, <1>5, <1>6, <1>8, <2>2
<1>13. CASE encoder_state = 4
  <2>1. position = 4 * turns + (-1)
    BY <1>3, <1>8, <1>13 DEF EncoderInv, CW, CCW
  <2>2. (At(0) /\ encoder_state' = 0) \/ (At(-2) /\ encoder_state' = 6)
    BY <1>1, <1>2, <1>3, <1>7, <1>13, <2>1, NewStates
  <2> QED  BY <1>3, <1>4, <1>5, <1>6, <1>8, <2>2
<1>14. CASE encoder_state = 5
  <2>1. position = 4 * turns + (-3)
    BY <1>3, <1>8, <1>14 DEF EncoderInv, CW, CCW
  <2>2. (At(-2) /\ encoder_state' = 6) \/ (At(-4) /\ encoder_state' = CCW)
    BY <1>1, <1>2, <1>3, <1>7, <1>14, <2>1, NewStates
  <2> QED  BY <1>3, <1>4, <1>5, <1>6, <1>8, <2>2
<1>15. CASE encoder_state = 6
  <2>1. position = 4 * turns + (-2)
    BY <1>3, <1>8, <1>15 DEF EncoderInv, CW, CCW
  <2>2. (At(-1) /\ encoder_state' = 4) \/ (At(-3) /\ encoder_state' = 5)
    BY <1>1, <1>2, <1>3, <1>7, <1>15, <2>1, NewStates
  <2> QED  BY <1>3, <1>4, <1>5, <1>6, <1>8, <2>2
<1> QED
  BY <1>9, <1>10, <1>11, <1>12, <1>13, <1>14, <1>15 DEF EncoderInv

\* At a detent the distance is none.
LEMMA EncoderIsRight == EncoderInv => EncoderCounts
<1> SUFFICES ASSUME EncoderInv, position % 4 = 0 PROVE position = 4 * turns
  BY DEF EncoderCounts
<1>1. position \in Int /\ turns \in Int
  BY DEF EncoderInv
<1>2. /\ (4 * turns + 1) % 4 = 1 /\ (4 * turns + 2) % 4 = 2 /\ (4 * turns + 3) % 4 = 3
      /\ (4 * turns - 1) % 4 = 3 /\ (4 * turns - 2) % 4 = 2 /\ (4 * turns - 3) % 4 = 1
  BY <1>1
<1>3. \E n \in {0, 3, 1, 2, -1, -3, -2} : position = 4 * turns + n
  BY <1>1 DEF EncoderInv, Away
<1> QED  BY <1>1, <1>2, <1>3

-----------------------------------------------------------------------------
(* The buttons of a board. *)

\* buttons_state messages and the types of the rest
Seen == [ack_count : Nat, state : Seq(Int)]

ButtonsTyped ==
  /\ seen \in Seq(Int) /\ acked \in Nat /\ to_host \in Seq(Seen) /\ to_mcu \in Seq(Nat) /\ ack_count \in Nat
  /\ callbacks \in Seq(Int) /\ handled \in Seq(Int) /\ template_queue \in Seq(Int) /\ dispatching \in BOOLEAN

\* A message holds what was reported from the first place to the last one.
Holds(m, first, last) ==
  /\ first <= acked /\ ack_count <= last /\ last <= first + MaxUnacked /\ first <= last /\ last <= Len(seen)
  /\ m.ack_count = first % CountMod
  /\ Len(m.state) = last - first /\ \A k \in 1 .. last - first : m.state[k] = seen[first + k]

MessagesHold ==
  \E first, last \in [DOMAIN to_host -> Nat] :
    /\ \A i \in DOMAIN to_host : Holds(to_host[i], first[i], last[i])
    /\ \A i, j \in DOMAIN to_host : i <= j => last[i] <= last[j]

\* What the board will have counted when it has taken the acknowledgements.
AcksAdd ==
  \E sum \in [0 .. Len(to_mcu) -> Nat] :
    /\ sum[0] = acked /\ sum[Len(to_mcu)] = ack_count
    /\ \A i \in 1 .. Len(to_mcu) : sum[i] = sum[i - 1] + to_mcu[i]
    /\ \A i, j \in 0 .. Len(to_mcu) : i <= j => sum[i] <= sum[j]

\* What was handled and what waits is what the board has seen, up to ack_count.
HandledAreSeen ==
  /\ Len(handled) + Len(callbacks) = ack_count /\ ack_count <= Len(seen)
  /\ \A i \in 1 .. Len(handled) : handled[i] = seen[i]
  /\ \A i \in 1 .. Len(callbacks) : callbacks[i] = seen[Len(handled) + i]

ReportsInv == ButtonsTyped /\ Len(seen) <= acked + MaxUnacked /\ MessagesHold /\ AcksAdd /\ HandledAreSeen
ButtonsInv == EncoderInv /\ ReportsInv /\ ScriptsAreRun

\* What a step that leaves the lists alone keeps.
LEMMA ListsKeep ==
  ASSUME MessagesHold, AcksAdd, UNCHANGED <<seen, acked, to_host, to_mcu, ack_count>>
  PROVE  MessagesHold' /\ AcksAdd'
<1>1. MessagesHold'
  <2>1. PICK first, last \in [DOMAIN to_host -> Nat] :
          /\ \A i \in DOMAIN to_host : Holds(to_host[i], first[i], last[i])
          /\ \A i, j \in DOMAIN to_host : i <= j => last[i] <= last[j]
    BY DEF MessagesHold
  <2>2. ASSUME NEW i \in DOMAIN to_host
        PROVE  Holds(to_host[i], first[i], last[i])'
    <3>1. Holds(to_host[i], first[i], last[i])
      BY <2>1
    <3> QED  BY <3>1 DEF Holds
  <2> QED  BY <2>1, <2>2 DEF MessagesHold
<1>2. AcksAdd'
  BY DEF AcksAdd
<1> QED  BY <1>1, <1>2

\* What a step of another device keeps
LEMMA ReportsSame ==
  ASSUME ReportsInv, ScriptsAreRun, UNCHANGED buttons_vars
  PROVE  ReportsInv' /\ ScriptsAreRun'
<1>1. /\ ButtonsTyped /\ Len(seen) <= acked + MaxUnacked /\ MessagesHold /\ AcksAdd /\ HandledAreSeen
  BY DEF ReportsInv
<1>2. /\ UNCHANGED <<seen, acked, to_host, to_mcu, ack_count>> /\ UNCHANGED <<callbacks, handled, template_queue, dispatching>>
  BY DEF buttons_vars, reports, scripts
<1>3. ButtonsTyped' /\ Len(seen') <= acked' + MaxUnacked
  BY <1>1, <1>2 DEF ButtonsTyped
<1>4. MessagesHold' /\ AcksAdd'
  BY <1>1, <1>2, ListsKeep
<1>5. HandledAreSeen'
  BY <1>1, <1>2 DEF HandledAreSeen
<1>6. ScriptsAreRun'
  BY Zenon, <1>2 DEF ScriptsAreRun
<1> QED  BY <1>3, <1>4, <1>5, <1>6 DEF ReportsInv

\* The board has not counted more acknowledged than the host.
LEMMA AcksFacts ==
  ASSUME ReportsInv
  PROVE  acked <= ack_count
<1>1. PICK sum \in [0 .. Len(to_mcu) -> Nat] :
        /\ sum[0] = acked /\ sum[Len(to_mcu)] = ack_count
        /\ \A i, j \in 0 .. Len(to_mcu) : i <= j => sum[i] <= sum[j]
  BY DEF ReportsInv, AcksAdd
<1>2. Len(to_mcu) \in Nat
  BY DEF ReportsInv, ButtonsTyped
<1>3. 0 \in 0 .. Len(to_mcu) /\ Len(to_mcu) \in 0 .. Len(to_mcu) /\ 0 <= Len(to_mcu)
  BY <1>2
<1>4. sum[0] <= sum[Len(to_mcu)]
  BY <1>1, <1>3
<1> QED  BY <1>1, <1>4

\* The board sees a change.
LEMMA PressKeeps ==
  ASSUME ReportsInv, MaxUnacked \in Nat, NEW value \in 0 .. 1, Press(value)
  PROVE  ReportsInv'
<1>1. /\ ButtonsTyped /\ Len(seen) <= acked + MaxUnacked /\ MessagesHold /\ AcksAdd /\ HandledAreSeen
  BY DEF ReportsInv
<1>2. /\ Len(seen) - acked < MaxUnacked /\ seen' = Append(seen, value)
      /\ UNCHANGED <<acked, to_host, to_mcu, ack_count, last_button, callbacks, handled, scripts>>
  BY DEF Press
<1>3. seen \in Seq(Int) /\ Len(seen) \in Nat /\ acked \in Nat /\ to_host \in Seq(Seen) /\ ack_count \in Nat
      /\ handled \in Seq(Int) /\ callbacks \in Seq(Int)
  BY <1>1 DEF ButtonsTyped
<1>4. /\ seen' \in Seq(Int) /\ Len(seen') = Len(seen) + 1
      /\ \A i \in 1 .. Len(seen) : seen'[i] = seen[i]
  BY <1>2, <1>3
<1>5. ButtonsTyped' /\ Len(seen') <= acked' + MaxUnacked
  BY <1>1, <1>2, <1>3, <1>4 DEF ButtonsTyped, scripts
<1>6. MessagesHold'
  <2>1. PICK first, last \in [DOMAIN to_host -> Nat] :
          /\ \A i \in DOMAIN to_host : Holds(to_host[i], first[i], last[i])
          /\ \A i, j \in DOMAIN to_host : i <= j => last[i] <= last[j]
    BY <1>1 DEF MessagesHold
  <2>2. ASSUME NEW i \in DOMAIN to_host
        PROVE  Holds(to_host[i], first[i], last[i])'
    <3>1. Holds(to_host[i], first[i], last[i]) /\ first[i] \in Nat /\ last[i] \in Nat
      BY <2>1
    <3> DEFINE a == first[i]
               n == last[i]
               m == to_host[i]
    <3>2. to_host'[i] = m
      BY <1>2
    <3> HIDE DEF a, n, m
    <3>3. /\ Holds(m, a, n) /\ a \in Nat /\ n \in Nat
      BY <3>1 DEF a, n, m
    <3>4. \A k \in 1 .. n - a : a + k \in 1 .. Len(seen)
      BY <1>3, <3>3 DEF Holds
    <3>5. /\ a <= acked' /\ ack_count' <= n /\ n <= a + MaxUnacked /\ a <= n /\ n <= Len(seen')
          /\ m.ack_count = a % CountMod
          /\ Len(m.state) = n - a /\ \A k \in 1 .. n - a : m.state[k] = seen'[a + k]
      <4>1. /\ a <= acked' /\ ack_count' <= n /\ n <= a + MaxUnacked /\ a <= n /\ n <= Len(seen')
            /\ m.ack_count = a % CountMod /\ Len(m.state) = n - a
        BY <1>2, <1>3, <1>4, <3>3 DEF Holds
      <4>2. \A k \in 1 .. n - a : m.state[k] = seen[a + k]
        BY <3>3 DEF Holds
      <4>3. \A k \in 1 .. n - a : m.state[k] = seen'[a + k]
        BY <1>4, <3>4, <4>2
      <4> QED  BY <4>1, <4>3
    <3> QED  BY <3>2, <3>5 DEF Holds, a, n, m
  <2> QED  BY <1>2, <2>1, <2>2 DEF MessagesHold
<1>7. AcksAdd'
  BY <1>1, <1>2 DEF AcksAdd
<1>8. HandledAreSeen'
  <2>1. \A i \in 1 .. Len(handled) : i \in 1 .. Len(seen)
    BY <1>1, <1>3 DEF HandledAreSeen
  <2>2. \A i \in 1 .. Len(callbacks) : Len(handled) + i \in 1 .. Len(seen)
    BY <1>1, <1>3 DEF HandledAreSeen
  <2> QED  BY <1>1, <1>2, <1>3, <1>4, <2>1, <2>2 DEF HandledAreSeen
<1> QED  BY <1>5, <1>6, <1>7, <1>8 DEF ReportsInv

\* The board sends all that is not acknowledged.
LEMMA TransmitKeeps ==
  ASSUME ButtonsAssumed, ReportsInv, Transmit
  PROVE  ReportsInv'
<1>1. /\ ButtonsTyped /\ Len(seen) <= acked + MaxUnacked /\ MessagesHold /\ AcksAdd /\ HandledAreSeen
  BY DEF ReportsInv
<1> DEFINE m == [ack_count |-> acked % CountMod, state |-> SubSeq(seen, acked + 1, Len(seen))]
           l == Len(to_host)
<1>2. /\ Len(seen) > acked /\ to_host' = Append(to_host, m)
      /\ UNCHANGED <<seen, acked, to_mcu, ack_count, last_button, callbacks, handled, scripts>>
  BY DEF Transmit
<1>3. seen \in Seq(Int) /\ Len(seen) \in Nat /\ acked \in Nat /\ to_host \in Seq(Seen) /\ ack_count \in Nat /\ l \in Nat
  BY <1>1 DEF ButtonsTyped
<1>4. CountMod \in Nat \ {0} /\ MaxUnacked \in Nat
  BY DEF ButtonsAssumed
<1>5. acked % CountMod \in Nat
  BY <1>3, <1>4, Remainders
<1>6. /\ SubSeq(seen, acked + 1, Len(seen)) \in Seq(Int)
      /\ Len(SubSeq(seen, acked + 1, Len(seen))) = Len(seen) - acked
      /\ \A k \in 1 .. Len(seen) - acked : SubSeq(seen, acked + 1, Len(seen))[k] = seen[acked + k]
  BY <1>2, <1>3
<1>7. /\ m \in Seen /\ m.ack_count = acked % CountMod /\ Len(m.state) = Len(seen) - acked
      /\ \A k \in 1 .. Len(seen) - acked : m.state[k] = seen[acked + k]
  BY <1>5, <1>6 DEF Seen
<1> HIDE DEF m
<1>8. /\ to_host' \in Seq(Seen) /\ Len(to_host') = l + 1 /\ DOMAIN to_host' = 1 .. l + 1
      /\ to_host'[l + 1] = m /\ \A i \in 1 .. l : to_host'[i] = to_host[i]
      /\ DOMAIN to_host = 1 .. l
  BY <1>2, <1>3, <1>7
<1> HIDE DEF l
<1>9. ButtonsTyped' /\ Len(seen') <= acked' + MaxUnacked
  BY <1>1, <1>2, <1>8 DEF ButtonsTyped, scripts
<1>10. MessagesHold'
  <2>1. PICK first, last \in [1 .. l -> Nat] :
          /\ \A i \in 1 .. l : Holds(to_host[i], first[i], last[i])
          /\ \A i, j \in 1 .. l : i <= j => last[i] <= last[j]
    BY <1>1, <1>8 DEF MessagesHold
  <2>2. PICK first2 \in [1 .. l + 1 -> Nat], last2 \in [1 .. l + 1 -> Nat] :
          /\ first2[l + 1] = acked /\ last2[l + 1] = Len(seen)
          /\ \A i \in 1 .. l : first2[i] = first[i] /\ last2[i] = last[i]
    <3> DEFINE f == [i \in 1 .. l + 1 |-> IF i = l + 1 THEN acked ELSE first[i]]
               g == [i \in 1 .. l + 1 |-> IF i = l + 1 THEN Len(seen) ELSE last[i]]
    <3>1. /\ f \in [1 .. l + 1 -> Nat] /\ g \in [1 .. l + 1 -> Nat]
          /\ f[l + 1] = acked /\ g[l + 1] = Len(seen)
          /\ \A i \in 1 .. l : f[i] = first[i] /\ g[i] = last[i]
      BY <1>3, <2>1
    <3> HIDE DEF f, g
    <3> QED  BY <3>1
  <2>3. \A i \in 1 .. l : last[i] <= Len(seen)
    BY <2>1 DEF Holds
  <2>4. ASSUME NEW i \in 1 .. l + 1
        PROVE  Holds(to_host[i], first2[i], last2[i])'
    <3>1. CASE i \in 1 .. l
      <4>1. Holds(to_host[i], first[i], last[i])
        BY <2>1, <3>1
      <4> QED  BY <1>2, <1>8, <2>2, <3>1, <4>1 DEF Holds
    <3>2. CASE i = l + 1
      <4>1. ack_count <= Len(seen)
        BY <1>1 DEF HandledAreSeen
      <4>2. to_host'[i] = m /\ first2[i] = acked /\ last2[i] = Len(seen)
        BY <1>8, <2>2, <3>2
      <4>3. /\ acked <= acked /\ ack_count <= Len(seen) /\ Len(seen) <= acked + MaxUnacked /\ acked <= Len(seen)
            /\ Len(seen) <= Len(seen)
        BY <1>1, <1>2, <1>3, <4>1
      <4> QED  BY <1>2, <1>7, <4>2, <4>3 DEF Holds
    <3> QED  BY <1>3, <3>1, <3>2
  <2>5. \A i, j \in 1 .. l + 1 : i <= j => last2[i] <= last2[j]
    <3> SUFFICES ASSUME NEW i \in 1 .. l + 1, NEW j \in 1 .. l + 1, i <= j PROVE last2[i] <= last2[j]
      OBVIOUS
    <3>1. CASE j \in 1 .. l
      <4>1. i \in 1 .. l
        BY <1>3, <3>1
      <4>2. last[i] <= last[j]
        BY <2>1, <3>1, <4>1
      <4> QED  BY <2>2, <3>1, <4>1, <4>2
    <3>2. CASE j = l + 1 /\ i \in 1 .. l
      BY <2>2, <2>3, <3>2
    <3>3. CASE j = l + 1 /\ i = l + 1
      BY <1>3, <2>2, <3>3
    <3> QED  BY <1>3, <3>1, <3>2, <3>3
  <2> QED  BY <1>8, <2>2, <2>4, <2>5 DEF MessagesHold
<1>11. AcksAdd' /\ HandledAreSeen'
  BY <1>1, <1>2 DEF AcksAdd, HandledAreSeen
<1> QED  BY <1>9, <1>10, <1>11 DEF ReportsInv

\* The board takes an acknowledgement: it is of what it has sent.
LEMMA AcknowledgedKeeps ==
  ASSUME MaxUnacked \in Nat, ReportsInv, Acknowledged
  PROVE  ReportsInv'
<1>1. /\ ButtonsTyped /\ Len(seen) <= acked + MaxUnacked /\ MessagesHold /\ AcksAdd /\ HandledAreSeen
  BY DEF ReportsInv
<1>2. /\ to_mcu # <<>> /\ acked' = acked + Head(to_mcu) /\ to_mcu' = Tail(to_mcu)
      /\ UNCHANGED <<seen, to_host, ack_count, last_button, callbacks, handled, scripts>>
  BY DEF Acknowledged
<1> DEFINE l == Len(to_mcu)
<1>3. /\ to_mcu \in Seq(Nat) /\ acked \in Nat /\ to_host \in Seq(Seen) /\ Len(seen) \in Nat
  BY <1>1 DEF ButtonsTyped
<1>4. /\ Head(to_mcu) = to_mcu[1] /\ to_mcu[1] \in Nat /\ l \in Nat /\ l >= 1
      /\ to_mcu' \in Seq(Nat) /\ Len(to_mcu') = l - 1 /\ \A i \in 1 .. l - 1 : to_mcu'[i] = to_mcu[i + 1]
  BY <1>2, <1>3
<1> HIDE DEF l
<1>5. acked' \in Nat /\ acked <= acked'
  BY <1>2, <1>3, <1>4
<1>6. ButtonsTyped' /\ Len(seen') <= acked' + MaxUnacked
  BY <1>1, <1>2, <1>3, <1>4, <1>5 DEF ButtonsTyped, scripts
<1>7. MessagesHold'
  <2>1. PICK first, last \in [DOMAIN to_host -> Nat] :
          /\ \A i \in DOMAIN to_host : Holds(to_host[i], first[i], last[i])
          /\ \A i, j \in DOMAIN to_host : i <= j => last[i] <= last[j]
    BY <1>1 DEF MessagesHold
  <2>2. ASSUME NEW i \in DOMAIN to_host
        PROVE  Holds(to_host[i], first[i], last[i])'
    <3>1. Holds(to_host[i], first[i], last[i]) /\ first[i] \in Nat
      BY <2>1
    <3>2. first[i] <= acked'
      BY <1>3, <1>5, <3>1 DEF Holds
    <3> QED  BY <1>2, <3>1, <3>2 DEF Holds
  <2> QED  BY <1>2, <2>1, <2>2 DEF MessagesHold
<1>8. AcksAdd'
  <2>1. PICK sum \in [0 .. l -> Nat] :
          /\ sum[0] = acked /\ sum[l] = ack_count
          /\ \A i \in 1 .. l : sum[i] = sum[i - 1] + to_mcu[i]
          /\ \A i, j \in 0 .. l : i <= j => sum[i] <= sum[j]
    BY <1>1 DEF AcksAdd, l
  <2> DEFINE sum2 == [i \in 0 .. l - 1 |-> sum[i + 1]]
  <2>2. sum2 \in [0 .. l - 1 -> Nat] /\ \A i \in 0 .. l - 1 : sum2[i] = sum[i + 1]
    BY <1>4, <2>1
  <2> HIDE DEF sum2
  <2>3. sum[1] = acked + to_mcu[1]
    BY <1>4, <2>1
  <2>4. sum2[0] = acked' /\ sum2[l - 1] = ack_count
    BY <1>2, <1>4, <2>1, <2>2, <2>3
  <2>5. \A i \in 1 .. l - 1 : sum2[i] = sum2[i - 1] + to_mcu'[i]
    <3> SUFFICES ASSUME NEW i \in 1 .. l - 1 PROVE sum2[i] = sum2[i - 1] + to_mcu'[i]
      OBVIOUS
    <3>1. i \in 0 .. l - 1 /\ i - 1 \in 0 .. l - 1 /\ (i - 1) + 1 = i /\ (i + 1) - 1 = i /\ i + 1 \in 1 .. l
      BY <1>4
    <3>2. sum2[i] = sum[i + 1] /\ sum2[i - 1] = sum[i] /\ to_mcu'[i] = to_mcu[i + 1]
      BY <1>4, <2>2, <3>1
    <3>3. sum[i + 1] = sum[i] + to_mcu[i + 1]
      BY <2>1, <3>1
    <3> QED  BY <3>2, <3>3
  <2>6. \A i, j \in 0 .. l - 1 : i <= j => sum2[i] <= sum2[j]
    <3> SUFFICES ASSUME NEW i \in 0 .. l - 1, NEW j \in 0 .. l - 1, i <= j PROVE sum2[i] <= sum2[j]
      OBVIOUS
    <3>1. i + 1 \in 0 .. l /\ j + 1 \in 0 .. l /\ i + 1 <= j + 1
      BY <1>4
    <3>2. sum[i + 1] <= sum[j + 1]
      BY <2>1, <3>1
    <3> QED  BY <2>2, <3>2
  <2> QED  BY <1>2, <1>4, <2>2, <2>4, <2>5, <2>6 DEF AcksAdd
<1>9. HandledAreSeen'
  BY <1>1, <1>2 DEF HandledAreSeen
<1> QED  BY <1>6, <1>7, <1>8, <1>9 DEF ReportsInv

\* The low bits of a count that is at most MaxUnacked behind give all of it.
LEMMA CountFacts ==
  ASSUME ButtonsAssumed, ack_count \in Nat, NEW first \in Nat, first <= ack_count, ack_count <= first + MaxUnacked
  PROVE  MsgAckCount(first % CountMod) = first
<1> DEFINE q == first \div CountMod
           r == first % CountMod
           d == ack_count - first
<1>1. CountMod \in Nat \ {0} /\ MaxUnacked \in Nat /\ CountMod > 2 * MaxUnacked
  BY DEF ButtonsAssumed
<1>2. r \in 0 .. CountMod - 1 /\ q \in Int /\ r = first - CountMod * q
  BY <1>1, Remainders
<1>3. d \in 0 .. CountMod - 1 /\ 2 * d < CountMod
  BY <1>1
<1> HIDE DEF q, r
<1> DEFINE turns_of == CountMod * q
<1>4. turns_of \in Int
  BY <1>1, <1>2
<1>5. (turns_of + d) % CountMod = d
  <2> HIDE DEF d
  <2> QED  BY <1>1, <1>2, <1>3, RemainderIs
<1> HIDE DEF turns_of
<1>6. ack_count - r = turns_of + d
  BY <1>2, <1>4 DEF turns_of
<1>7. (ack_count - r) % CountMod = d
  BY <1>5, <1>6
<1>8. MsgAckCount(r) = ack_count - d
  BY <1>1, <1>3, <1>7 DEF MsgAckCount
<1> QED  BY <1>8 DEF r

\* The elements of two lists put together
LEMMA ConcatFacts ==
  ASSUME NEW s \in Seq(Int), NEW t \in Seq(Int)
  PROVE  /\ s \o t \in Seq(Int) /\ Len(s \o t) = Len(s) + Len(t)
         /\ \A i \in 1 .. Len(s) : (s \o t)[i] = s[i]
         /\ \A k \in 1 .. Len(t) : (s \o t)[Len(s) + k] = t[k]
<1>1. s \o t \in Seq(Int) /\ Len(s \o t) = Len(s) + Len(t)
  OBVIOUS
<1>2. \A i \in 1 .. Len(s) : (s \o t)[i] = s[i]
  OBVIOUS
<1>3. \A k \in 1 .. Len(t) : (s \o t)[Len(s) + k] = t[k]
  <2> SUFFICES ASSUME NEW k \in 1 .. Len(t) PROVE (s \o t)[Len(s) + k] = t[k]
    OBVIOUS
  <2>1. Len(s) \in Nat /\ Len(t) \in Nat
    OBVIOUS
  <2>2. Len(s) + k \in 1 .. Len(s) + Len(t) /\ ~(Len(s) + k <= Len(s)) /\ (Len(s) + k) - Len(s) = k
    BY <2>1
  <2> QED  BY <2>2
<1> QED  BY <1>1, <1>2, <1>3

\* handle_buttons_state: what is new is at the end of the message, whatever was sent again.
LEMMA HandleStateKeeps ==
  ASSUME ButtonsAssumed, ReportsInv, handle_buttons_state
  PROVE  ReportsInv'
<1>1. /\ ButtonsTyped /\ Len(seen) <= acked + MaxUnacked /\ MessagesHold /\ AcksAdd /\ HandledAreSeen
  BY DEF ReportsInv
<1>2. /\ to_host # <<>> /\ to_host' = Tail(to_host) /\ UNCHANGED <<seen, acked, last_button, handled, scripts>>
  BY DEF handle_buttons_state
<1>3. /\ to_host \in Seq(Seen) /\ acked \in Nat /\ seen \in Seq(Int) /\ Len(seen) \in Nat /\ ack_count \in Nat
      /\ to_mcu \in Seq(Nat) /\ callbacks \in Seq(Int) /\ handled \in Seq(Int) /\ MaxUnacked \in Nat
      /\ Len(handled) \in Nat /\ Len(callbacks) \in Nat /\ Len(to_mcu) \in Nat
  BY <1>1 DEF ButtonsTyped, ButtonsAssumed
<1>4. PICK l \in Nat, m \in Seen :
        /\ l = Len(to_host) /\ l >= 1 /\ DOMAIN to_host = 1 .. l /\ m = Head(to_host) /\ m = to_host[1]
        /\ to_host' \in Seq(Seen) /\ DOMAIN to_host' = 1 .. l - 1 /\ \A i \in 1 .. l - 1 : to_host'[i] = to_host[i + 1]
  <2>1. /\ Head(to_host) \in Seen /\ Head(to_host) = to_host[1] /\ Len(to_host) \in Nat /\ Len(to_host) >= 1
        /\ DOMAIN to_host = 1 .. Len(to_host)
    BY <1>2, <1>3
  <2>2. to_host' \in Seq(Seen) /\ Len(to_host') = Len(to_host) - 1
    BY <1>2, <1>3
  <2>3. \A i \in 1 .. Len(to_host) - 1 : to_host'[i] = to_host[i + 1]
    BY <1>2, <1>3
  <2>4. DOMAIN to_host' = 1 .. Len(to_host) - 1
    BY <2>2
  <2> QED  BY <2>1, <2>2, <2>3, <2>4
<1>5. PICK first, last \in [1 .. l -> Nat] :
        /\ \A i \in 1 .. l : Holds(to_host[i], first[i], last[i])
        /\ \A i, j \in 1 .. l : i <= j => last[i] <= last[j]
  BY <1>1, <1>4 DEF MessagesHold
<1>6. PICK a \in Nat, n \in Nat : a = first[1] /\ n = last[1]
  BY <1>4, <1>5
<1>7. /\ a <= acked /\ ack_count <= n /\ n <= a + MaxUnacked /\ a <= n /\ n <= Len(seen)
      /\ m.ack_count = a % CountMod
      /\ Len(m.state) = n - a /\ \A k \in 1 .. n - a : m.state[k] = seen[a + k]
  <2>1. Holds(m, a, n)
    <3>1. 1 \in 1 .. l
      BY <1>4
    <3>2. Holds(to_host[1], first[1], last[1])
      BY <1>5, <3>1
    <3> QED  BY <1>4, <1>6, <3>2
  <2> QED  BY <2>1 DEF Holds
<1>8. m.state \in Seq(Int)
  BY DEF Seen
<1>9. a <= ack_count
  BY <1>3, <1>7, AcksFacts
<1>10. PICK c \in Nat : c = n - ack_count /\ c + ack_count = n /\ c <= Len(m.state) /\ Len(m.state) \in Nat
  BY <1>3, <1>7, <1>9
<1>11. NewCount(m) = c
  <2>1. MsgAckCount(m.ack_count) = a
    BY <1>3, <1>7, <1>9, CountFacts
  <2>2. Len(m.state) = n - a
    BY <1>7
  <2> QED  BY <1>3, <1>10, <2>1, <2>2 DEF NewCount
\* Whether something is new or not, ack_count becomes the last place of the message.
<1>12. ack_count' = n
  <2>1. CASE c <= 0
    <3>1. ack_count' = ack_count
      BY <1>4, <1>11, <2>1 DEF handle_buttons_state
    <3> QED  BY <1>3, <1>10, <2>1, <3>1
  <2>2. CASE ~(c <= 0)
    <3>1. ack_count' = ack_count + c
      BY <1>4, <1>11, <2>2 DEF handle_buttons_state
    <3> QED  BY <1>3, <1>10, <3>1
  <2> QED  BY <2>1, <2>2
<1>13. MessagesHold'
  <2>1. PICK first2 \in [1 .. l - 1 -> Nat], last2 \in [1 .. l - 1 -> Nat] :
          \A i \in 1 .. l - 1 : first2[i] = first[i + 1] /\ last2[i] = last[i + 1]
    <3> DEFINE f == [i \in 1 .. l - 1 |-> first[i + 1]]
               g == [i \in 1 .. l - 1 |-> last[i + 1]]
    <3>1. \A i \in 1 .. l - 1 : i + 1 \in 1 .. l
      BY <1>4
    <3>2. /\ f \in [1 .. l - 1 -> Nat] /\ g \in [1 .. l - 1 -> Nat]
          /\ \A i \in 1 .. l - 1 : f[i] = first[i + 1] /\ g[i] = last[i + 1]
      BY <1>5, <3>1
    <3> HIDE DEF f, g
    <3> QED  BY <3>2
  <2>2. ASSUME NEW i \in 1 .. l - 1
        PROVE  Holds(to_host[i], first2[i], last2[i])'
    <3>1. i + 1 \in 1 .. l /\ 1 \in 1 .. l /\ 1 <= i + 1
      BY <1>4
    <3>2. Holds(to_host[i + 1], first2[i], last2[i]) /\ last2[i] \in Nat
      BY <1>5, <2>1, <3>1
    <3>3. n <= last2[i]
      BY <1>5, <1>6, <2>1, <3>1
    <3>4. to_host'[i] = to_host[i + 1]
      BY <1>4
    <3> QED  BY <1>2, <1>12, <3>2, <3>3, <3>4 DEF Holds
  <2>3. \A i, j \in 1 .. l - 1 : i <= j => last2[i] <= last2[j]
    <3> SUFFICES ASSUME NEW i \in 1 .. l - 1, NEW j \in 1 .. l - 1, i <= j PROVE last2[i] <= last2[j]
      OBVIOUS
    <3>1. i + 1 \in 1 .. l /\ j + 1 \in 1 .. l /\ i + 1 <= j + 1
      BY <1>4
    <3>2. last[i + 1] <= last[j + 1]
      BY <1>5, <3>1
    <3> QED  BY <2>1, <3>2
  <2> QED  BY <1>4, <2>1, <2>2, <2>3 DEF MessagesHold
<1>14. CASE c <= 0
  <2>1. UNCHANGED <<to_mcu, ack_count, callbacks>>
    BY <1>4, <1>11, <1>14 DEF handle_buttons_state
  <2>2. ButtonsTyped' /\ Len(seen') <= acked' + MaxUnacked
    BY <1>1, <1>2, <1>4, <2>1 DEF ButtonsTyped, scripts
  <2>3. AcksAdd' /\ HandledAreSeen'
    BY <1>1, <1>2, <2>1 DEF AcksAdd, HandledAreSeen
  <2> QED  BY <1>13, <2>2, <2>3 DEF ReportsInv
<1>15. CASE ~(c <= 0)
  <2>1. PICK new : new = SubSeq(m.state, Len(m.state) - c + 1, Len(m.state))
    OBVIOUS
  <2>2. to_mcu' = Append(to_mcu, c) /\ callbacks' = callbacks \o new
    BY <1>4, <1>11, <1>15, <2>1 DEF handle_buttons_state
  <2>3. \A k \in 1 .. c : new[k] = seen[ack_count + k]
    <3>1. \A k \in 1 .. c : new[k] = m.state[Len(m.state) - c + k]
      <4>1. PICK z \in Nat, st \in Seq(Int) : st = m.state /\ z = Len(st)
        BY <1>8
      <4>2. z - c \in Nat
        BY <1>10, <4>1
      <4>3. PICK d \in Nat : d = z - c
        BY <4>2
      <4>4. new = SubSeq(st, d + 1, z) /\ d + c = z
        <5>1. new = SubSeq(st, z - c + 1, z)
          BY <2>1, <4>1, Zenon
        <5>2. new = SubSeq(st, d + 1, z)
          BY <4>3, <5>1, Zenon
        <5>3. d + c = z
          BY <4>1, <4>3
        <5> QED
          BY <5>2, <5>3
      <4>5. ASSUME NEW k \in 1 .. c PROVE new[k] = st[d + k]
        <5>1. d + 1 \in 1 .. z /\ k \in 1 .. z - d
          BY <4>4
        <5> QED
          BY <4>1, <4>4, <5>1, SMTT(40)
      <4> QED
        BY <1>10, <4>1, <4>3, <4>5
    <3>2. ASSUME NEW k \in 1 .. c
          PROVE  /\ Len(m.state) - c + k = ack_count - a + k /\ ack_count - a + k \in 1 .. n - a
                 /\ a + (ack_count - a + k) = ack_count + k
      <4>1. Len(m.state) = n - a
        BY <1>7
      <4> QED  BY <1>3, <1>7, <1>9, <1>10, <4>1
    <3>3. \A k \in 1 .. n - a : m.state[k] = seen[a + k]
      BY <1>7
    <3> SUFFICES ASSUME NEW k \in 1 .. c PROVE new[k] = seen[ack_count + k]
      OBVIOUS
    <3>4. m.state[ack_count - a + k] = seen[a + (ack_count - a + k)]
      BY <3>2, <3>3
    <3> QED  BY <3>1, <3>2, <3>4
  <2>4. new \in Seq(Int) /\ Len(new) = c
    <3>1. Len(m.state) - c + 1 \in 1 .. Len(m.state) + 1
      BY <1>10
    <3> QED  BY <1>8, <1>10, <2>1, <3>1
  <2>5. /\ callbacks' \in Seq(Int) /\ Len(callbacks') = Len(callbacks) + c
        /\ \A i \in 1 .. Len(callbacks) : callbacks'[i] = callbacks[i]
        /\ \A k \in 1 .. c : callbacks'[Len(callbacks) + k] = new[k]
    BY <1>3, <2>2, <2>4, ConcatFacts
  <2>13. Len(callbacks') = Len(callbacks) + c
    BY <2>5
  <2>14. PICK h \in Nat, b \in Nat, before \in Nat :
           h = Len(handled) /\ b = Len(callbacks) /\ before = ack_count /\ h + b = before /\ before + c = n
    <3>1. Len(handled) + Len(callbacks) = ack_count
      BY <1>1 DEF HandledAreSeen
    <3> QED  BY <1>3, <1>10, <3>1
  <2>15. Len(callbacks') = b + c
    BY <2>13, <2>14
  <2>12. /\ to_mcu' \in Seq(Nat) /\ Len(to_mcu') = Len(to_mcu) + 1 /\ to_mcu'[Len(to_mcu) + 1] = c
        /\ \A i \in 1 .. Len(to_mcu) : to_mcu'[i] = to_mcu[i]
    BY <1>3, <1>10, <2>2
  <2>6. ButtonsTyped' /\ Len(seen') <= acked' + MaxUnacked
    BY <1>1, <1>2, <1>4, <1>12, <2>5, <2>12 DEF ButtonsTyped, scripts
  <2>7. HandledAreSeen'
    <3>1. Len(handled) + Len(callbacks) = ack_count
      BY <1>1 DEF HandledAreSeen
    <3>2. ASSUME NEW i \in 1 .. Len(callbacks')
          PROVE  callbacks'[i] = seen[Len(handled) + i]
      <4>1. CASE i \in 1 .. Len(callbacks)
        BY <1>1, <2>5, <4>1 DEF HandledAreSeen
      <4>2. CASE ~(i \in 1 .. Len(callbacks))
        <5> DEFINE k == i - Len(callbacks)
        <5>1. k \in 1 .. c /\ i = Len(callbacks) + k /\ ack_count + k = Len(handled) + i
          BY <2>14, <2>15, <4>2
        <5> HIDE DEF k
        <5> QED  BY <2>3, <2>5, <5>1
      <4> QED  BY <4>1, <4>2
    <3>3. Len(handled) + Len(callbacks') = n
      <4>1. h + (b + c) = n
        <5>1. h + (b + c) = (h + b) + c
          OBVIOUS
        <5> QED  BY <2>14, <5>1
      <4> QED  BY <2>14, <2>15, <4>1
    <3> QED  BY <1>1, <1>2, <1>7, <1>12, <3>2, <3>3 DEF HandledAreSeen
  <2>8. AcksAdd'
    <3> DEFINE t == Len(to_mcu)
    <3>1. PICK sum \in [0 .. t -> Nat] :
            /\ sum[0] = acked /\ sum[t] = ack_count
            /\ \A i \in 1 .. t : sum[i] = sum[i - 1] + to_mcu[i]
            /\ \A i, j \in 0 .. t : i <= j => sum[i] <= sum[j]
      BY <1>1 DEF AcksAdd
    <3> HIDE DEF t
    <3>2. t \in Nat /\ Len(to_mcu') = t + 1 /\ to_mcu'[t + 1] = c /\ \A i \in 1 .. t : to_mcu'[i] = to_mcu[i]
      BY <1>3, <2>12 DEF t
    <3>3. PICK sum2 \in [0 .. t + 1 -> Nat] : sum2[t + 1] = n /\ \A i \in 0 .. t : sum2[i] = sum[i]
      <4> DEFINE f == [i \in 0 .. t + 1 |-> IF i = t + 1 THEN n ELSE sum[i]]
      <4>1. f \in [0 .. t + 1 -> Nat] /\ f[t + 1] = n /\ \A i \in 0 .. t : f[i] = sum[i]
        BY <3>1, <3>2
      <4> HIDE DEF f
      <4> QED  BY <4>1
    <3>4. sum2[0] = acked /\ n = ack_count + c
      BY <1>3, <1>10, <3>1, <3>2, <3>3
    <3>5. \A i \in 1 .. t + 1 : sum2[i] = sum2[i - 1] + to_mcu'[i]
      <4> SUFFICES ASSUME NEW i \in 1 .. t + 1 PROVE sum2[i] = sum2[i - 1] + to_mcu'[i]
        OBVIOUS
      <4>1. CASE i \in 1 .. t
        <5>1. i \in 0 .. t /\ i - 1 \in 0 .. t
          BY <3>2, <4>1
        <5> QED  BY <3>1, <3>2, <3>3, <4>1, <5>1
      <4>2. CASE i = t + 1
        <5>1. i - 1 = t /\ t \in 0 .. t
          BY <3>2, <4>2
        <5> QED  BY <3>1, <3>2, <3>3, <3>4, <4>2, <5>1
      <4> QED  BY <3>2, <4>1, <4>2
    <3>6. \A i, j \in 0 .. t + 1 : i <= j => sum2[i] <= sum2[j]
      <4> SUFFICES ASSUME NEW i \in 0 .. t + 1, NEW j \in 0 .. t + 1, i <= j PROVE sum2[i] <= sum2[j]
        OBVIOUS
      <4>1. CASE j \in 0 .. t
        <5>1. i \in 0 .. t
          BY <3>2, <4>1
        <5>2. sum[i] <= sum[j]
          BY <3>1, <4>1, <5>1
        <5> QED  BY <3>3, <4>1, <5>1, <5>2
      <4>2. CASE j = t + 1 /\ i \in 0 .. t
        <5>1. sum[i] <= sum[t] /\ sum[i] \in Nat
          BY <3>1, <3>2, <4>2
        <5> QED  BY <1>3, <1>7, <3>1, <3>3, <4>2, <5>1
      <4>3. CASE j = t + 1 /\ i = t + 1
        BY <3>3, <4>3
      <4> QED  BY <3>2, <4>1, <4>2, <4>3
    <3> QED  BY <1>2, <1>12, <3>2, <3>3, <3>4, <3>5, <3>6 DEF AcksAdd
  <2> QED  BY <1>13, <2>6, <2>7, <2>8 DEF ReportsInv
<1> QED  BY <1>14, <1>15

\* handle_button moves one value to those handled, and may queue a script.
LEMMA HandleButtonKeeps ==
  ASSUME ReportsInv, ScriptsAreRun, handle_button
  PROVE  ReportsInv' /\ ScriptsAreRun'
<1>1. /\ ButtonsTyped /\ Len(seen) <= acked + MaxUnacked /\ MessagesHold /\ AcksAdd /\ HandledAreSeen
  BY DEF ReportsInv
<1> DEFINE button == Head(callbacks)
<1>2. /\ callbacks # <<>> /\ callbacks' = Tail(callbacks) /\ handled' = Append(handled, button)
      /\ UNCHANGED <<seen, acked, to_host, to_mcu, ack_count>>
  BY DEF handle_button
<1>3. /\ callbacks \in Seq(Int) /\ handled \in Seq(Int) /\ Len(handled) \in Nat /\ template_queue \in Seq(Int)
  BY <1>1 DEF ButtonsTyped
<1>4. /\ button = callbacks[1] /\ button \in Int /\ Len(callbacks) \in Nat /\ Len(callbacks) >= 1
      /\ callbacks' \in Seq(Int) /\ Len(callbacks') = Len(callbacks) - 1
      /\ \A i \in 1 .. Len(callbacks) - 1 : callbacks'[i] = callbacks[i + 1]
  BY <1>2, <1>3
<1> HIDE DEF button
<1>5. /\ handled' \in Seq(Int) /\ Len(handled') = Len(handled) + 1 /\ handled'[Len(handled) + 1] = button
      /\ \A i \in 1 .. Len(handled) : handled'[i] = handled[i]
  BY <1>2, <1>3, <1>4
<1>6. /\ template_queue' \in Seq(Int) /\ dispatching' \in BOOLEAN /\ ScriptsAreRun'
  <2>1. CASE UNCHANGED scripts
    BY <1>1, <2>1 DEF scripts, ScriptsAreRun, ButtonsTyped
  <2>2. CASE QueueTemplate(button)
    <3>1. template_queue' = Append(template_queue, button) /\ dispatching' = TRUE
      BY <2>2 DEF QueueTemplate
    <3>2. template_queue' \in Seq(Int) /\ template_queue' # <<>>
      BY <1>3, <1>4, <3>1
    <3> QED  BY <3>1, <3>2 DEF ScriptsAreRun
  <2> QED  BY <2>1, <2>2 DEF handle_button, button
<1>7. ButtonsTyped' /\ Len(seen') <= acked' + MaxUnacked
  BY <1>1, <1>2, <1>4, <1>5, <1>6 DEF ButtonsTyped
<1>8. MessagesHold' /\ AcksAdd'
  BY <1>1, <1>2, ListsKeep
<1>9. HandledAreSeen'
  <2>1. /\ Len(handled) + Len(callbacks) = ack_count /\ ack_count <= Len(seen)
        /\ \A i \in 1 .. Len(handled) : handled[i] = seen[i]
        /\ \A i \in 1 .. Len(callbacks) : callbacks[i] = seen[Len(handled) + i]
    BY <1>1 DEF HandledAreSeen
  <2>2. Len(handled') + Len(callbacks') = ack_count
    BY <1>3, <1>4, <1>5, <2>1
  <2>3. ASSUME NEW i \in 1 .. Len(handled')
        PROVE  handled'[i] = seen[i]
    <3>1. CASE i \in 1 .. Len(handled)
      BY <1>5, <2>1, <3>1
    <3>2. CASE i = Len(handled) + 1
      <4>1. 1 \in 1 .. Len(callbacks)
        BY <1>4
      <4> QED  BY <1>4, <1>5, <2>1, <3>2, <4>1
    <3> QED  BY <1>3, <1>5, <3>1, <3>2
  <2>4. ASSUME NEW i \in 1 .. Len(callbacks')
        PROVE  callbacks'[i] = seen[Len(handled') + i]
    <3>1. i + 1 \in 1 .. Len(callbacks) /\ i \in 1 .. Len(callbacks) - 1 /\ Len(handled') + i = Len(handled) + (i + 1)
      BY <1>3, <1>4, <1>5
    <3> QED  BY <1>4, <2>1, <3>1
  <2> QED  BY <1>2, <2>1, <2>2, <2>3, <2>4 DEF HandledAreSeen
<1> QED  BY <1>6, <1>7, <1>8, <1>9 DEF ReportsInv

\* A script has run: the next one is dispatched when there is one.
LEMMA ScriptRanKeeps ==
  ASSUME ReportsInv, ScriptsAreRun, ScriptRan
  PROVE  ReportsInv' /\ ScriptsAreRun'
<1>1. /\ ButtonsTyped /\ Len(seen) <= acked + MaxUnacked /\ MessagesHold /\ AcksAdd /\ HandledAreSeen
  BY DEF ReportsInv
<1>2. /\ dispatching = TRUE /\ template_queue' = Tail(template_queue) /\ dispatching' = (Len(template_queue) > 1)
      /\ UNCHANGED <<seen, acked, to_host, to_mcu, ack_count, callbacks, handled>>
  BY <1>1 DEF ScriptRan, reports, ButtonsTyped
<1>3. template_queue # <<>> /\ template_queue \in Seq(Int)
  BY <1>1, <1>2 DEF ScriptsAreRun, ButtonsTyped
<1>4. /\ template_queue' \in Seq(Int) /\ Len(template_queue') = Len(template_queue) - 1 /\ Len(template_queue) \in Nat
      /\ Len(template_queue) >= 1
  BY <1>2, <1>3
<1>5. (Len(template_queue) > 1) \in BOOLEAN
  BY <1>4
<1>6. (Len(template_queue) > 1) <=> (template_queue' # <<>>)
  BY <1>4
<1>7. ScriptsAreRun' /\ dispatching' \in BOOLEAN
  BY Zenon, <1>2, <1>5, <1>6 DEF ScriptsAreRun
<1>8. ButtonsTyped' /\ Len(seen') <= acked' + MaxUnacked
  BY <1>1, <1>2, <1>4, <1>7 DEF ButtonsTyped
<1>9. MessagesHold' /\ AcksAdd'
  BY <1>1, <1>2, ListsKeep
<1>10. HandledAreSeen'
  BY <1>1, <1>2 DEF HandledAreSeen
<1> QED  BY <1>7, <1>8, <1>9, <1>10 DEF ReportsInv

\* Nothing was seen yet, and the encoder stands at a detent.
LEMMA ButtonsStart == ButtonsAssumed /\ InitButtons => ButtonsInv
<1> SUFFICES ASSUME ButtonsAssumed, InitButtons PROVE ButtonsInv
  OBVIOUS
<1>1. EncoderInv
  BY DEF InitButtons, EncoderInv, Away
<1>2. ButtonsTyped
  <2>1. dispatching \in BOOLEAN
    BY Zenon DEF InitButtons
  <2> QED  BY <2>1 DEF InitButtons, ButtonsTyped
<1>6. ScriptsAreRun
  BY Zenon DEF InitButtons, ScriptsAreRun
<1>3. Len(seen) <= acked + MaxUnacked /\ HandledAreSeen
  BY DEF InitButtons, ButtonsAssumed, HandledAreSeen
<1>4. MessagesHold
  <2> DEFINE none == [i \in DOMAIN to_host |-> 0]
  <2>1. none \in [DOMAIN to_host -> Nat] /\ DOMAIN to_host = {}
    BY DEF InitButtons
  <2> HIDE DEF none
  <2> QED  BY <2>1 DEF MessagesHold
<1>5. AcksAdd
  <2> DEFINE zero == [i \in 0 .. Len(to_mcu) |-> 0]
  <2>1. Len(to_mcu) = 0 /\ acked = 0 /\ ack_count = 0
    BY DEF InitButtons
  <2>2. zero \in [0 .. Len(to_mcu) -> Nat] /\ zero[0] = 0 /\ \A i \in 0 .. Len(to_mcu) : zero[i] = 0
    BY <2>1
  <2> HIDE DEF zero
  <2> QED  BY <2>1, <2>2 DEF AcksAdd
<1> QED  BY <1>1, <1>2, <1>3, <1>4, <1>5, <1>6 DEF ButtonsInv, ReportsInv

\* Each of the three devices
LEMMA ButtonsKeep ==
  ASSUME ButtonsAssumed, ButtonsInv, NextButtons
  PROVE  ButtonsInv'
<1>1. EncoderInv /\ ReportsInv /\ ScriptsAreRun
  BY DEF ButtonsInv
<1>2. CASE NextBoard /\ UNCHANGED <<encoder, adc>>
  <2>1. EncoderInv'
    BY <1>1, <1>2 DEF EncoderInv, encoder
  <2>2. MaxUnacked \in Nat
    BY DEF ButtonsAssumed
  <2>3. ASSUME UNCHANGED scripts
        PROVE  ScriptsAreRun'
    BY Zenon, <1>1, <2>3 DEF scripts, ScriptsAreRun
  <2>4. ReportsInv' /\ ScriptsAreRun'
    <3>1. ASSUME NEW value \in 0 .. 1, Press(value)
          PROVE  ReportsInv' /\ ScriptsAreRun'
      BY <1>1, <2>2, <2>3, <3>1, PressKeeps DEF Press
    <3>2. CASE Transmit
      BY <1>1, <2>3, <3>2, TransmitKeeps DEF Transmit
    <3>3. CASE Acknowledged
      BY <1>1, <2>2, <2>3, <3>3, AcknowledgedKeeps DEF Acknowledged
    <3>4. CASE handle_buttons_state
      BY <1>1, <2>3, <3>4, HandleStateKeeps DEF handle_buttons_state
    <3>5. CASE handle_button \/ ScriptRan
      BY <1>1, <3>5, HandleButtonKeeps, ScriptRanKeeps
    <3> QED  BY <1>2, <3>1, <3>2, <3>3, <3>4, <3>5 DEF NextBoard
  <2> QED  BY <2>1, <2>4 DEF ButtonsInv
<1>3. ASSUME UNCHANGED buttons_vars
      PROVE  ReportsInv' /\ ScriptsAreRun'
  BY <1>1, <1>3, ReportsSame
<1>4. CASE encoder_callback /\ UNCHANGED buttons_vars
  BY <1>1, <1>3, <1>4, EncoderKeeps DEF ButtonsInv
<1>5. CASE UNCHANGED buttons_vars /\ \E btn \in 0 .. 2 : adc_callback(btn)
  <2>1. EncoderInv'
    BY <1>1, <1>5 DEF adc_callback, encoder, EncoderInv
  <2> QED  BY <1>3, <1>5, <2>1 DEF ButtonsInv
<1> QED  BY <1>2, <1>4, <1>5 DEF NextButtons

\* The parts say what HandledOnce says.
LEMMA HandledIsOnce == ReportsInv => HandledOnce
<1> SUFFICES ASSUME ReportsInv PROVE HandledOnce
  OBVIOUS
<1>1. /\ handled \in Seq(Int) /\ callbacks \in Seq(Int) /\ seen \in Seq(Int)
      /\ Len(handled) + Len(callbacks) = ack_count /\ ack_count <= Len(seen)
      /\ \A i \in 1 .. Len(handled) : handled[i] = seen[i]
      /\ \A i \in 1 .. Len(callbacks) : callbacks[i] = seen[Len(handled) + i]
  BY DEF ReportsInv, ButtonsTyped, HandledAreSeen
<1> DEFINE all == handled \o callbacks
<1>2. /\ all \in Seq(Int) /\ Len(all) = Len(handled) + Len(callbacks)
      /\ \A i \in 1 .. Len(handled) : all[i] = handled[i]
      /\ \A i \in 1 .. Len(callbacks) : all[Len(handled) + i] = callbacks[i]
  <2>1. handled \in Seq(Int) /\ callbacks \in Seq(Int)
    BY <1>1
  <2>2. all \in Seq(Int) /\ Len(all) = Len(handled) + Len(callbacks)
    BY <2>1
  <2>3. \A i \in 1 .. Len(handled) : all[i] = handled[i]
    BY <2>1
  <2>4. \A i \in 1 .. Len(callbacks) : all[Len(handled) + i] = callbacks[i]
    BY <2>1
  <2> QED  BY <2>2, <2>3, <2>4
<1> HIDE DEF all
<1>3. Len(handled) \in Nat /\ Len(callbacks) \in Nat /\ Len(seen) \in Nat
  BY <1>1
<1>4. ASSUME NEW i \in 1 .. Len(all)
      PROVE  all[i] = seen[i]
  <2>1. CASE i \in 1 .. Len(handled)
    BY <1>1, <1>2, <2>1
  <2>2. CASE ~(i \in 1 .. Len(handled))
    <3> DEFINE k == i - Len(handled)
    <3>1. k \in 1 .. Len(callbacks) /\ i = Len(handled) + k
      BY <1>2, <1>3, <2>2
    <3> HIDE DEF k
    <3> QED  BY <1>1, <1>2, <3>1
  <2> QED  BY <2>1, <2>2
<1>5. SubSeq(all, 1, Len(all)) = SubSeq(seen, 1, Len(all))
  <2>1. /\ SubSeq(all, 1, Len(all)) = [i \in 1 .. Len(all) |-> all[i]]
        /\ SubSeq(seen, 1, Len(all)) = [i \in 1 .. Len(all) |-> seen[i]]
    BY <1>1, <1>2, <1>3
  <2> QED  BY <1>4, <2>1
<1>6. IsPrefix(all, seen)
  BY <1>1, <1>2, <1>5 DEF IsPrefix
<1>7. acked <= ack_count
  BY AcksFacts
<1> QED  BY <1>1, <1>2, <1>6, <1>7 DEF HandledOnce, all

(* Each report of the buttons is handled once and in order however often it  *)
(* is sent again, scripts queued are going to be run, and the encoder's      *)
(* calls are its turns (handle_buttons_state, encoder_callback), for every   *)
(* count that has more than twice the values the board keeps reports.        *)
THEOREM KeysAlwaysCount ==
  ASSUME ButtonsAssumed
  PROVE  SpecButtons => [](HandledOnce /\ ScriptsAreRun /\ EncoderCounts)
<1>1. InitButtons => ButtonsInv
  BY ButtonsStart
<1>2. ButtonsInv /\ [NextButtons]_<<device, buttons_vars, encoder, adc>> => ButtonsInv'
  <2> SUFFICES ASSUME ButtonsInv, [NextButtons]_<<device, buttons_vars, encoder, adc>> PROVE ButtonsInv'
    OBVIOUS
  <2>1. CASE UNCHANGED <<device, buttons_vars, encoder, adc>>
    <3>1. EncoderInv'
      BY <2>1 DEF ButtonsInv, encoder, EncoderInv
    <3>2. ReportsInv' /\ ScriptsAreRun'
      BY <2>1, ReportsSame DEF ButtonsInv
    <3> QED  BY <3>1, <3>2 DEF ButtonsInv
  <2> QED  BY <2>1, ButtonsKeep
<1>3. ButtonsInv => HandledOnce /\ ScriptsAreRun /\ EncoderCounts
  BY HandledIsOnce, EncoderIsRight DEF ButtonsInv
<1> QED  BY <1>1, <1>2, <1>3, PTL DEF SpecButtons


-----------------------------------------------------------------------------
(* Induction                                                               *)

\* A set of natural numbers that is not empty has a least one.
LEMMA LeastNumber ==
  ASSUME NEW T \in SUBSET Nat, T # {}
  PROVE  \E x \in T : \A y \in T : x <= y
<1> DEFINE R == OpToRel(<, Nat)
<1>1. IsWellFoundedOn(R, Nat)
  BY NatLessThanWellFounded
<1>2. \E x \in T : \A y \in T : <<y, x>> \notin R
  <2> HIDE DEF R
  <2> QED
    BY <1>1, WFMin
<1>3. \A x, y \in T : <<y, x>> \notin R => x <= y
  BY DEF OpToRel
<1> QED
  BY <1>2, <1>3

\* What holds of 0 and of the successor of each number below n it holds of holds up to n.
LEMMA InductionTo ==
  ASSUME NEW n \in Nat, NEW S, 0 \in S, \A k \in Nat : k < n /\ k \in S => k + 1 \in S
  PROVE  0 .. n \subseteq S
<1> SUFFICES ASSUME (0 .. n) \ S # {} PROVE FALSE
  OBVIOUS
<1>1. PICK x \in (0 .. n) \ S : \A y \in (0 .. n) \ S : x <= y
  <2>1. (0 .. n) \ S \in SUBSET Nat
    OBVIOUS
  <2> QED
    BY <2>1, LeastNumber
<1>2. x # 0 /\ x - 1 \in Nat /\ x - 1 < n /\ x - 1 \in S
  BY <1>1
<1> QED
  BY <1>1, <1>2

-----------------------------------------------------------------------------
(* The print time of the toolhead                                          *)

\* The reactor runs what is due before the steps under way are used up.
ToolheadAssumed ==
  /\ BufferLow \in Nat /\ BufferHigh \in Nat /\ BufferStart \in Nat /\ MinKinTime \in Nat /\ PrimeTime \in Nat
  /\ StallDelay \in Nat /\ DripSegment \in Nat /\ DripTime \in Nat /\ Late \in Nat
  /\ ScanTimes \subseteq Nat /\ MoveTimes \subseteq Nat
  /\ Late < BufferLow /\ Late < BufferStart /\ MaxTime \in Nat /\ MaxTime < NEVER

Toolheads ==
  [print_time : Nat, state : {"Main", "Flushed", "Priming", "Drip"}, need_check_stall : Int, flush_timer : Int,
   kin_delay : Nat, kin_flush : Nat, kin_move : Nat, queue : Seq(Nat), generated : Nat, room : BOOLEAN,
   raised : BOOLEAN]

GcodeStates == [at : {"idle", "stall", "wait", "drip"}, wake : Int, from : Nat, until : Nat]

\* A toolhead whose timer is not NEVER has it set to flush the queue in time.
TimerIsSet(s) ==
  /\ s.state = "Main" => s.flush_timer + Late < s.print_time /\ now <= s.flush_timer + Late
  /\ s.state = "Priming" => s.flush_timer <= Later(s.print_time, now + PrimeTime)
  /\ s.state = "Drip" => s.flush_timer = NEVER
  /\ can_pause /\ s.state \in {"Flushed", "Priming"} => s.need_check_stall = -1

\* Steps have been generated up to the scan time before the print time, or up to where all was flushed.
StepsAreBehind(s) ==
  /\ s.raised \/ s.generated <= Later(s.kin_flush, s.print_time - s.kin_delay)
  /\ s.state \in {"Main", "Drip"} => s.kin_flush <= s.print_time - s.kin_delay
  /\ s.room

ToolheadTyped == now \in Nat /\ now <= MaxTime /\ th \in Toolheads /\ gcode \in GcodeStates /\ can_pause \in BOOLEAN

ToolheadInv ==
  /\ ToolheadTyped
  /\ TimerIsSet(th) /\ StepsAreBehind(th)
  /\ th.state = "Drip" <=> gcode.at = "drip"
  /\ th.queue # <<>> /\ gcode.at # "drip" => th.state \in {"Main", "Priming"}
  /\ DripIsShort
  /\ gcode.at = "drip" => gcode.from <= th.print_time


\* A sum of times is a time.
LEMMA TotalIsTime ==
  ASSUME NEW times \in Seq(Nat)
  PROVE  Total(times) \in Nat
<1> DEFINE n == Len(times)
           Sums(f, m) == f = [k \in 0 .. m |-> IF k = 0 THEN 0 ELSE f[k - 1] + times[k]]
           S == {m \in Nat : \E f \in [0 .. m -> Nat] : Sums(f, m)}
<1>1. n \in Nat /\ \A k \in 1 .. n : times[k] \in Nat
  OBVIOUS
<1> HIDE DEF n
<1>2. 0 \in S
  <2>1. [k \in 0 .. 0 |-> 0] \in [0 .. 0 -> Nat] /\ Sums([k \in 0 .. 0 |-> 0], 0)
    OBVIOUS
  <2> QED
    BY <2>1
<1>3. ASSUME NEW m \in Nat, m < n, m \in S PROVE m + 1 \in S
  <2>1. PICK e \in [0 .. m -> Nat] : Sums(e, m)
    BY <1>3
  <2> DEFINE g == [k \in 0 .. m + 1 |-> IF k <= m THEN e[k] ELSE e[m] + times[m + 1]]
  <2>2. g \in [0 .. m + 1 -> Nat]
    BY <1>1, <1>3
  <2>3. \A k \in 0 .. m + 1 : g[k] = IF k = 0 THEN 0 ELSE g[k - 1] + times[k]
    BY <2>1
  <2>4. Sums(g, m + 1)
    BY <2>2, <2>3
  <2> HIDE DEF g, Sums
  <2>5. \E f \in [0 .. m + 1 -> Nat] : Sums(f, m + 1)
    BY <2>2, <2>4
  <2>6. m + 1 \in Nat
    OBVIOUS
  <2> QED
    BY <2>5, <2>6, Zenon
<1>4. PICK e \in [0 .. n -> Nat] : Sums(e, n)
  <2> HIDE DEF S
  <2>1. 0 .. n \subseteq S
    BY <1>1, <1>2, <1>3, InductionTo, Zenon
  <2>2. n \in S
    BY <1>1, <2>1
  <2> QED
    BY <2>2 DEF S
<1> DEFINE sum == CHOOSE f : Sums(f, n)
<1>5. Sums(sum, n)
  BY <1>4, Zenon
<1>6. Total(times) = sum[n]
  BY Zenon DEF Total, n
<1> HIDE DEF sum
<1> DEFINE T == {k \in Nat : k <= n => sum[k] \in Nat}
<1>7. 0 \in T
  BY <1>1, <1>5
<1>8. ASSUME NEW k \in Nat, k < n, k \in T PROVE k + 1 \in T
  <2>1. sum[k + 1] = sum[k] + times[k + 1]
    BY <1>1, <1>5, <1>8
  <2> QED
    BY <1>1, <1>8, <2>1
<1>9. n \in T
  <2> HIDE DEF T
  <2>1. 0 .. n \subseteq T
    BY <1>1, <1>7, <1>8, InductionTo, Zenon
  <2> QED
    BY <1>1, <2>1
<1> QED
  BY <1>1, <1>6, <1>9

\* A toolhead of which all holds that is to hold of it.
Sound(s) == s \in Toolheads /\ TimerIsSet(s) /\ StepsAreBehind(s)

\* A later print time disturbs nothing.
LEMMA UpdateKeeps ==
  ASSUME ToolheadAssumed, now \in Nat, NEW s, Sound(s), NEW next \in Nat, s.print_time <= next
  PROVE  LET u == UpdateMoveTime(s, next)
         IN  /\ Sound(u) /\ u.print_time = next /\ u.state = s.state /\ u.queue = s.queue /\ u.kin_delay = s.kin_delay
             /\ u.need_check_stall = s.need_check_stall /\ u.kin_flush = s.kin_flush
<1> DEFINE u == UpdateMoveTime(s, next)
<1>1. /\ s \in Toolheads /\ s.generated \in Nat /\ s.kin_flush \in Nat /\ s.kin_delay \in Nat /\ s.print_time \in Nat
      /\ s.raised \in BOOLEAN /\ s.flush_timer \in Int
  BY DEF Sound, Toolheads
<1>2. PICK gen, rai : /\ gen = Later(s.generated, Later(s.kin_flush, next - s.kin_delay))
                      /\ rai = (s.raised /\ s.generated > next - s.kin_delay)
  OBVIOUS
<1>3. gen \in Nat /\ rai \in BOOLEAN
  BY <1>1, <1>2 DEF Later
<1>4. u = [s EXCEPT !.print_time = next, !.generated = gen, !.raised = rai]
  BY <1>2 DEF UpdateMoveTime
<1>5. /\ u \in Toolheads /\ u.print_time = next /\ u.state = s.state /\ u.queue = s.queue /\ u.kin_delay = s.kin_delay
      /\ u.need_check_stall = s.need_check_stall /\ u.kin_flush = s.kin_flush /\ u.flush_timer = s.flush_timer
      /\ u.generated = gen /\ u.raised = rai /\ u.room = s.room
  BY <1>1, <1>3, <1>4 DEF Toolheads
<1> HIDE DEF u
<1>6. TimerIsSet(u)
  <2>1. TimerIsSet(s)
    BY DEF Sound
  <2>2. Late \in Nat /\ PrimeTime \in Nat
    BY DEF ToolheadAssumed
  <2>3. u.state = "Main" => u.flush_timer + Late < u.print_time /\ now <= u.flush_timer + Late
    BY <1>1, <1>5, <2>1, <2>2 DEF TimerIsSet
  <2>4. u.state = "Priming" => u.flush_timer <= Later(u.print_time, now + PrimeTime)
    BY <1>1, <1>5, <2>1, <2>2 DEF TimerIsSet, Later
  <2> QED
    BY <1>5, <2>1, <2>3, <2>4 DEF TimerIsSet
<1>7. StepsAreBehind(u)
  <2>1. StepsAreBehind(s)
    BY DEF Sound
  <2>2. rai \/ gen <= Later(s.kin_flush, next - s.kin_delay)
    <3>1. CASE s.generated > next - s.kin_delay /\ s.raised
      BY <1>2, <3>1
    <3>2. CASE s.generated <= next - s.kin_delay
      BY <1>1, <1>2, <3>2 DEF Later
    <3>3. CASE ~s.raised
      <4>1. s.generated <= Later(s.kin_flush, s.print_time - s.kin_delay)
        BY <2>1, <3>3 DEF StepsAreBehind
      <4> QED
        BY <1>1, <1>2, <4>1 DEF Later
    <3> QED
      BY <1>1, <3>1, <3>2, <3>3
  <2>3. s.state \in {"Main", "Drip"} => s.kin_flush <= next - s.kin_delay
    BY <1>1, <2>1 DEF StepsAreBehind
  <2> QED
    BY <1>5, <2>1, <2>2, <2>3 DEF StepsAreBehind
<1>8. Sound(u)
  BY <1>5, <1>6, <1>7 DEF Sound
<1> QED
  BY <1>5, <1>8 DEF u


\* A new print time is behind what the board does now and what was flushed.
LEMMA CalcIs ==
  ASSUME ToolheadAssumed, now \in Nat, NEW s \in Toolheads
  PROVE  \E t \in Nat : /\ CalcPrintTime(s) = [s EXCEPT !.print_time = t] /\ s.print_time <= t
                        /\ now + BufferStart <= t /\ s.kin_flush <= t - s.kin_delay
<1>1. s.print_time \in Nat /\ s.kin_flush \in Nat /\ s.kin_delay \in Nat /\ MinKinTime \in Nat /\ BufferStart \in Nat
  BY DEF Toolheads, ToolheadAssumed
<1>2. PICK t : t = Later(s.print_time, Later(now + BufferStart, Later(now + MinKinTime, s.kin_flush) + s.kin_delay))
  OBVIOUS
<1>3. t \in Nat /\ s.print_time <= t /\ now + BufferStart <= t /\ s.kin_flush <= t - s.kin_delay
  BY <1>1, <1>2 DEF Later
<1>4. CalcPrintTime(s) = [s EXCEPT !.print_time = t]
  BY <1>2 DEF CalcPrintTime
<1> QED
  BY <1>3, <1>4

\* A new print time leaves room for what begins there, and disturbs nothing.
LEMMA CalcKeeps ==
  ASSUME ToolheadAssumed, now \in Nat, NEW s, Sound(s)
  PROVE  LET c == CalcPrintTime(s)
         IN  /\ Sound(c) /\ s.print_time <= c.print_time /\ c.state = s.state /\ c.queue = s.queue
             /\ c.kin_delay = s.kin_delay /\ c.kin_flush <= c.print_time - c.kin_delay
<1>1. /\ s \in Toolheads /\ s.generated \in Nat /\ s.kin_flush \in Nat /\ s.kin_delay \in Nat /\ s.print_time \in Nat
      /\ s.flush_timer \in Int /\ TimerIsSet(s) /\ StepsAreBehind(s)
  BY DEF Sound, Toolheads
<1>2. PICK t \in Nat : /\ CalcPrintTime(s) = [s EXCEPT !.print_time = t] /\ s.print_time <= t
                       /\ now + BufferStart <= t /\ s.kin_flush <= t - s.kin_delay
  BY <1>1, CalcIs
<1> DEFINE c == CalcPrintTime(s)
<1>3. /\ c \in Toolheads /\ c.print_time = t /\ c.state = s.state /\ c.queue = s.queue /\ c.kin_delay = s.kin_delay
      /\ c.need_check_stall = s.need_check_stall /\ c.kin_flush = s.kin_flush /\ c.flush_timer = s.flush_timer
      /\ c.generated = s.generated /\ c.raised = s.raised /\ c.room = s.room
  BY <1>1, <1>2 DEF Toolheads
<1> HIDE DEF c
<1>4. Late \in Nat /\ PrimeTime \in Nat
  BY DEF ToolheadAssumed
<1>5. TimerIsSet(c)
  <2>1. c.state = "Main" => c.flush_timer + Late < c.print_time /\ now <= c.flush_timer + Late
    BY <1>1, <1>2, <1>3, <1>4 DEF TimerIsSet
  <2>2. c.state = "Priming" => c.flush_timer <= Later(c.print_time, now + PrimeTime)
    BY <1>1, <1>2, <1>3, <1>4 DEF TimerIsSet, Later
  <2> QED
    BY <1>1, <1>3, <2>1, <2>2 DEF TimerIsSet
<1>6. StepsAreBehind(c)
  <2>1. s.generated <= Later(s.kin_flush, s.print_time - s.kin_delay) => c.generated <= Later(c.kin_flush, c.print_time - c.kin_delay)
    BY <1>1, <1>2, <1>3 DEF Later
  <2> QED
    BY <1>1, <1>2, <1>3, <2>1 DEF StepsAreBehind
<1>7. Sound(c) /\ s.print_time <= c.print_time /\ c.kin_flush <= c.print_time - c.kin_delay
  BY <1>2, <1>3, <1>5, <1>6 DEF Sound
<1> QED
  BY <1>3, <1>7 DEF c

\* The toolhead is in its main state, or still drips, with room for the moves that begin.
LEMMA ResyncKeeps ==
  ASSUME ToolheadAssumed, now \in Nat, NEW s, Sound(s)
  PROVE  LET r == Resync(s)
         IN  /\ Sound(r) /\ s.print_time <= r.print_time /\ r.queue = s.queue /\ r.kin_delay = s.kin_delay
             /\ r.state = IF s.state = "Drip" THEN "Drip" ELSE "Main"
<1>1. s \in Toolheads /\ s.generated \in Nat /\ s.kin_flush \in Nat /\ s.kin_delay \in Nat /\ s.print_time \in Nat
      /\ s.flush_timer \in Int /\ TimerIsSet(s) /\ StepsAreBehind(s)
  BY DEF Sound, Toolheads
<1>2. CASE s.state = "Main"
  BY <1>1, <1>2 DEF Resync
<1>3. CASE s.state = "Drip"
  <2>1. Resync(s) = CalcPrintTime(s)
    BY <1>3 DEF Resync
  <2> QED
    BY <1>3, <2>1, CalcKeeps
<1>4. CASE s.state \notin {"Main", "Drip"}
  <2> DEFINE m == [s EXCEPT !.state = "Main", !.need_check_stall = -1, !.flush_timer = now]
             c == CalcPrintTime(m)
  <2>1. Resync(s) = c
    BY <1>4 DEF Resync
  <2>0. m \in Toolheads
    <3>1. -1 \in Int /\ now \in Int /\ "Main" \in {"Main", "Flushed", "Priming", "Drip"}
      OBVIOUS
    <3> QED
      BY <1>1, <3>1 DEF Toolheads
  <2>2. /\ m \in Toolheads /\ m.print_time = s.print_time /\ m.state = "Main" /\ m.queue = s.queue /\ m.kin_delay = s.kin_delay
        /\ m.kin_flush = s.kin_flush /\ m.flush_timer = now
        /\ m.generated = s.generated /\ m.raised = s.raised /\ m.room = s.room
    BY <1>1, <2>0 DEF Toolheads
  <2> HIDE DEF m
  <2>3. PICK t \in Nat : /\ c = [m EXCEPT !.print_time = t] /\ m.print_time <= t
                         /\ now + BufferStart <= t /\ m.kin_flush <= t - m.kin_delay
    BY <2>2, CalcIs
  <2>4. /\ c \in Toolheads /\ c.print_time = t /\ c.state = "Main" /\ c.queue = s.queue /\ c.kin_delay = s.kin_delay
        /\ c.kin_flush = s.kin_flush /\ c.flush_timer = now /\ c.generated = s.generated /\ c.raised = s.raised /\ c.room = s.room
    BY <2>2, <2>3 DEF Toolheads
  <2> HIDE DEF c
  <2>5. Late \in Nat /\ BufferStart \in Nat /\ Late < BufferStart
    BY DEF ToolheadAssumed
  <2>6. TimerIsSet(c)
    BY <2>3, <2>4, <2>5 DEF TimerIsSet
  <2>7. StepsAreBehind(c)
    <3>1. s.generated <= Later(s.kin_flush, s.print_time - s.kin_delay) => c.generated <= Later(c.kin_flush, c.print_time - c.kin_delay)
      BY <1>1, <2>2, <2>3, <2>4 DEF Later
    <3>2. c.kin_flush <= c.print_time - c.kin_delay
      BY <1>1, <2>2, <2>3, <2>4
    <3> QED
      BY <1>1, <2>4, <3>1, <3>2 DEF StepsAreBehind
  <2>8. Sound(c) /\ s.print_time <= c.print_time
    BY <2>2, <2>3, <2>4, <2>6, <2>7 DEF Sound
  <2> QED
    BY <1>4, <2>1, <2>4, <2>8
<1> QED
  BY <1>2, <1>3, <1>4


\* Moves that begin have room, and take the print time on.
LEMMA ProcessKeeps ==
  ASSUME ToolheadAssumed, now \in Nat, NEW s, Sound(s), NEW count \in 0 .. Len(s.queue)
  PROVE  LET p == ProcessMoves(s, count)
         IN  /\ Sound(p) /\ s.print_time <= p.print_time /\ p.kin_delay = s.kin_delay
             /\ p.queue = SubSeq(s.queue, count + 1, Len(s.queue))
             /\ p.state = IF count = 0 THEN s.state ELSE IF s.state = "Drip" THEN "Drip" ELSE "Main"
<1>1. s \in Toolheads /\ s.queue \in Seq(Nat) /\ Len(s.queue) \in Nat /\ s.print_time \in Nat
  BY DEF Sound, Toolheads
<1>2. CASE count = 0
  <2>1. SubSeq(s.queue, 1, Len(s.queue)) = s.queue
    BY <1>1
  <2>2. ProcessMoves(s, count) = s
    BY <1>2 DEF ProcessMoves
  <2> QED
    BY <1>1, <1>2, <2>1, <2>2
<1>3. CASE count # 0
  <2>1. PICK r : r = Resync(s)
    OBVIOUS
  <2>2. /\ Sound(r) /\ s.print_time <= r.print_time /\ r.queue = s.queue /\ r.kin_delay = s.kin_delay
        /\ r.state = IF s.state = "Drip" THEN "Drip" ELSE "Main"
    BY <2>1, ResyncKeeps
  <2>3. /\ r \in Toolheads /\ TimerIsSet(r) /\ StepsAreBehind(r) /\ r.print_time \in Nat /\ r.kin_delay \in Nat /\ r.kin_flush \in Nat
        /\ r.generated \in Nat /\ r.raised \in BOOLEAN
    BY <2>2 DEF Sound, Toolheads
  <2>4. (r.raised \/ r.generated <= r.print_time - r.kin_delay) = TRUE
    BY <2>2, <2>3 DEF StepsAreBehind, Later
  <2> DEFINE b == Begin(r)
  <2>5. b = [r EXCEPT !.room = TRUE]
    BY <2>4 DEF Begin
  <2>6. b = r
    <3>1. r.room = TRUE
      BY <2>3 DEF StepsAreBehind, Toolheads
    <3> QED
      BY <2>3, <2>5, <3>1 DEF Toolheads
  <2> HIDE DEF b
  <2>7. PICK next : next = r.print_time + Total(SubSeq(r.queue, 1, count))
    OBVIOUS
  <2>8. next \in Nat /\ r.print_time <= next
    <3>1. SubSeq(r.queue, 1, count) \in Seq(Nat)
      BY <1>1, <2>2
    <3>2. Total(SubSeq(r.queue, 1, count)) \in Nat
      BY <3>1, TotalIsTime
    <3> QED
      BY <2>3, <2>7, <3>2
  <2>9. PICK u : u = UpdateMoveTime(r, next)
    OBVIOUS
  <2>10. /\ Sound(u) /\ u.print_time = next /\ u.state = r.state /\ u.queue = r.queue /\ u.kin_delay = r.kin_delay
         /\ u.need_check_stall = r.need_check_stall /\ u.kin_flush = r.kin_flush
    BY <2>2, <2>8, <2>9, UpdateKeeps
  <2> DEFINE p == [u EXCEPT !.kin_move = next, !.queue = SubSeq(u.queue, count + 1, Len(u.queue))]
  <2>11. ProcessMoves(s, count) = p
    BY <1>3, <2>1, <2>6, <2>7, <2>9 DEF ProcessMoves, b
  <2>12. u \in Toolheads /\ TimerIsSet(u) /\ StepsAreBehind(u) /\ SubSeq(u.queue, count + 1, Len(u.queue)) \in Seq(Nat)
    BY <1>1, <2>2, <2>10 DEF Sound
  <2>13. /\ p \in Toolheads /\ p.print_time = next /\ p.state = u.state /\ p.queue = SubSeq(u.queue, count + 1, Len(u.queue))
         /\ p.kin_delay = u.kin_delay /\ p.need_check_stall = u.need_check_stall /\ p.kin_flush = u.kin_flush
         /\ p.flush_timer = u.flush_timer /\ p.generated = u.generated /\ p.raised = u.raised /\ p.room = u.room
    BY <2>8, <2>10, <2>12 DEF Toolheads
  <2> HIDE DEF p
  <2>14. Sound(p)
    BY <2>10, <2>12, <2>13 DEF Sound, TimerIsSet, StepsAreBehind
  <2> QED
    BY <1>1, <1>3, <2>2, <2>3, <2>8, <2>10, <2>11, <2>13, <2>14
<1> QED
  BY <1>2, <1>3

\* A flush empties the queue.
LEMMA FlushKeeps ==
  ASSUME ToolheadAssumed, now \in Nat, NEW s, Sound(s)
  PROVE  LET f == Flush(s)
         IN  /\ Sound(f) /\ s.print_time <= f.print_time /\ f.kin_delay = s.kin_delay /\ f.queue = <<>>
             /\ f.state = IF s.queue = <<>> THEN s.state ELSE IF s.state = "Drip" THEN "Drip" ELSE "Main"
<1>1. s.queue \in Seq(Nat) /\ Len(s.queue) \in 0 .. Len(s.queue) /\ (Len(s.queue) = 0 <=> s.queue = <<>>)
  BY DEF Sound, Toolheads
<1>2. SubSeq(s.queue, Len(s.queue) + 1, Len(s.queue)) = <<>>
  BY <1>1
<1> QED
  BY <1>1, <1>2, ProcessKeeps DEF Flush

\* A flush of the steps leaves no timer behind.
LEMMA StepGenerationKeeps ==
  ASSUME ToolheadAssumed, now \in Nat, NEW s, Sound(s)
  PROVE  LET g == FlushStepGeneration(s)
         IN  /\ Sound(g) /\ s.print_time <= g.print_time /\ g.kin_delay = s.kin_delay /\ g.queue = <<>>
             /\ g.state = "Flushed"
<1>1. PICK f : f = Flush(s)
  OBVIOUS
<1>2. Sound(f) /\ s.print_time <= f.print_time /\ f.kin_delay = s.kin_delay /\ f.queue = <<>>
  BY <1>1, FlushKeeps
<1>3. /\ f \in Toolheads /\ TimerIsSet(f) /\ StepsAreBehind(f) /\ f.print_time \in Nat /\ f.kin_delay \in Nat /\ f.kin_flush \in Nat
      /\ f.kin_move \in Nat /\ f.generated \in Nat /\ s.print_time \in Nat
  BY <1>2 DEF Sound, Toolheads
<1>4. PICK kin : kin = Later(f.kin_flush, f.kin_move + f.kin_delay)
  OBVIOUS
<1>5. kin \in Nat /\ f.kin_flush <= kin
  BY <1>3, <1>4 DEF Later
<1> DEFINE g == [f EXCEPT !.state = "Flushed", !.need_check_stall = -1, !.flush_timer = NEVER, !.kin_flush = kin]
           next == Later(g.print_time, kin)
<1>6. FlushStepGeneration(s) = UpdateMoveTime(g, next)
  BY <1>1, <1>4 DEF FlushStepGeneration
<1>7. g \in Toolheads
  <2>1. -1 \in Int /\ NEVER \in Int /\ "Flushed" \in {"Main", "Flushed", "Priming", "Drip"}
    BY DEF NEVER
  <2> QED
    BY <1>3, <1>5, <2>1 DEF Toolheads
<1>8. /\ g.print_time = f.print_time /\ g.state = "Flushed" /\ g.queue = <<>> /\ g.kin_delay = f.kin_delay
      /\ g.need_check_stall = -1 /\ g.kin_flush = kin
      /\ g.flush_timer = NEVER /\ g.generated = f.generated /\ g.raised = f.raised /\ g.room = f.room
  BY <1>2, <1>3 DEF Toolheads
<1> HIDE DEF g
<1>9. next \in Nat /\ g.print_time <= next
  BY <1>3, <1>5, <1>8 DEF Later
<1> HIDE DEF next
<1>10. TimerIsSet(g)
  BY <1>8 DEF TimerIsSet
<1>11. StepsAreBehind(g)
  <2>1. f.generated <= Later(f.kin_flush, f.print_time - f.kin_delay) => g.generated <= Later(g.kin_flush, g.print_time - g.kin_delay)
    BY <1>3, <1>5, <1>8 DEF Later
  <2> QED
    BY <1>3, <1>8, <2>1 DEF StepsAreBehind
<1>12. Sound(g)
  BY <1>7, <1>10, <1>11 DEF Sound
<1> QED
  BY <1>2, <1>3, <1>6, <1>8, <1>9, <1>12, UpdateKeeps

\* A flush of the look-ahead empties the queue, whatever the state.
LEMMA LookaheadKeeps ==
  ASSUME ToolheadAssumed, now \in Nat, NEW s, Sound(s), s.state # "Drip"
  PROVE  LET f == FlushLookahead(s)
         IN  /\ Sound(f) /\ s.print_time <= f.print_time /\ f.kin_delay = s.kin_delay /\ f.queue = <<>>
             /\ f.state \in {"Main", "Flushed"}
<1>1. CASE s.state = "Main"
  BY <1>1, FlushKeeps DEF FlushLookahead
<1>2. CASE s.state # "Main"
  BY <1>2, StepGenerationKeeps DEF FlushLookahead
<1> QED
  BY <1>1, <1>2

\* The last move time is found with the queue empty.
LEMMA GetLastKeeps ==
  ASSUME ToolheadAssumed, now \in Nat, NEW s, Sound(s), s.state # "Drip"
  PROVE  LET g == GetLastMoveTime(s)
         IN  Sound(g) /\ g.kin_delay = s.kin_delay /\ g.queue = <<>> /\ g.state \in {"Main", "Flushed"}
<1>1. PICK f : f = FlushLookahead(s)
  OBVIOUS
<1>2. Sound(f) /\ f.kin_delay = s.kin_delay /\ f.queue = <<>> /\ f.state \in {"Main", "Flushed"}
  BY <1>1, LookaheadKeeps
<1>3. CASE f.state = "Main"
  BY <1>1, <1>2, <1>3 DEF GetLastMoveTime
<1>4. CASE f.state # "Main"
  <2>1. GetLastMoveTime(s) = CalcPrintTime(f)
    BY <1>1, <1>4 DEF GetLastMoveTime
  <2> QED
    BY <1>2, <2>1, CalcKeeps
<1> QED
  BY <1>3, <1>4

\* A toolhead that primes has its timer.
LEMMA PrimeKeeps ==
  ASSUME ToolheadAssumed, now \in Nat, NEW s, Sound(s), s.state # "Drip"
  PROVE  Sound(Prime(s)) /\ Prime(s).state \in {"Main", "Priming"}
<1>1. CASE s.state = "Main"
  BY <1>1 DEF Prime
<1>2. CASE s.state # "Main"
  <2> DEFINE p == [s EXCEPT !.state = "Priming", !.need_check_stall = -1, !.flush_timer = now + PrimeTime]
  <2>1. Prime(s) = p
    BY <1>2 DEF Prime
  <2>2. s \in Toolheads /\ TimerIsSet(s) /\ StepsAreBehind(s) /\ s.print_time \in Nat /\ PrimeTime \in Nat
    BY DEF Sound, Toolheads, ToolheadAssumed
  <2>3. p \in Toolheads
    <3>1. -1 \in Int /\ now + PrimeTime \in Int /\ "Priming" \in {"Main", "Flushed", "Priming", "Drip"}
      BY <2>2
    <3> QED
      BY <2>2, <3>1 DEF Toolheads
  <2>4. /\ p.print_time = s.print_time /\ p.state = "Priming" /\ p.kin_delay = s.kin_delay
        /\ p.need_check_stall = -1 /\ p.kin_flush = s.kin_flush
        /\ p.flush_timer = now + PrimeTime /\ p.generated = s.generated /\ p.raised = s.raised /\ p.room = s.room
    BY <2>2 DEF Toolheads
  <2> HIDE DEF p
  <2>5. TimerIsSet(p)
    BY <2>2, <2>4 DEF TimerIsSet, Later
  <2>6. StepsAreBehind(p)
    BY <2>2, <2>4 DEF StepsAreBehind
  <2> QED
    BY <2>1, <2>3, <2>4, <2>5, <2>6 DEF Sound
<1> QED
  BY <1>1, <1>2

\* The next check of a stall is put off.
LEMMA DeferKeeps ==
  ASSUME ToolheadAssumed, now \in Nat, NEW s, Sound(s), NEW time \in Int
  PROVE  s.state = "Main" => LET d == [s EXCEPT !.need_check_stall = time] IN Sound(d) /\ d.state = "Main"
<1> SUFFICES ASSUME s.state = "Main" PROVE LET d == [s EXCEPT !.need_check_stall = time] IN Sound(d) /\ d.state = "Main"
  OBVIOUS
<1> DEFINE d == [s EXCEPT !.need_check_stall = time]
<1>1. s \in Toolheads /\ TimerIsSet(s) /\ StepsAreBehind(s)
  BY DEF Sound
<1>2. /\ d \in Toolheads /\ d.print_time = s.print_time /\ d.state = "Main" /\ d.kin_delay = s.kin_delay
      /\ d.kin_flush = s.kin_flush /\ d.flush_timer = s.flush_timer
      /\ d.generated = s.generated /\ d.raised = s.raised /\ d.room = s.room
  BY <1>1 DEF Toolheads
<1> HIDE DEF d
<1>3. TimerIsSet(d) /\ StepsAreBehind(d)
  BY <1>1, <1>2 DEF TimerIsSet, StepsAreBehind
<1> QED
  BY <1>1, <1>2, <1>3 DEF Sound, d


\* What commands leave is as it is to be.
LEMMA CommandSettles ==
  ASSUME ToolheadTyped, NEW s, Sound(s), NEW g \in GcodeStates, s.state # "Drip", g.at # "drip",
         s.queue # <<>> => s.state \in {"Main", "Priming"}, th' = s, gcode' = g, UNCHANGED <<now, can_pause>>
  PROVE  ToolheadInv'
<1>1. s \in Toolheads /\ TimerIsSet(s) /\ StepsAreBehind(s)
  BY DEF Sound
<1>2. ToolheadTyped'
  BY <1>1 DEF ToolheadTyped
<1>3. TimerIsSet(th)' /\ StepsAreBehind(th)'
  BY <1>1 DEF TimerIsSet, StepsAreBehind
<1> QED
  BY <1>2, <1>3 DEF ToolheadInv, DripIsShort

\* What a command waits for is typed.
LEMMA WaitIs ==
  ASSUME NEW place \in {"stall", "wait"}, NEW wake \in Int
  PROVE  Wait(place, wake) \in GcodeStates /\ Wait(place, wake).at = place /\ Idle \in GcodeStates /\ Idle.at = "idle"
BY DEF Wait, Idle, GcodeStates, NEVER

\* A check that stalls, stops or goes on leaves the toolhead as it is to be.
LEMMA StallKeeps ==
  ASSUME ToolheadAssumed, ToolheadTyped, NEW s, Sound(s), s.state # "Drip",
         s.queue # <<>> => s.state \in {"Main", "Priming"}, Stall(s), UNCHANGED <<now, can_pause>>
  PROVE  ToolheadInv'
<1>1. now \in Nat /\ BufferHigh \in Nat /\ StallDelay \in Nat /\ s.print_time \in Nat /\ s \in Toolheads
  BY DEF ToolheadTyped, ToolheadAssumed, Sound, Toolheads
<1>2. CASE StallTime(s) <= 0
  <2>1. th' = DeferStall(s) /\ gcode' = Idle
    BY <1>2 DEF Stall
  <2>2. CASE s.state = "Main"
    <3>1. PICK time : time = now + BufferHigh + StallDelay
      OBVIOUS
    <3>2. PICK d : d = [s EXCEPT !.need_check_stall = time]
      OBVIOUS
    <3>3. Sound(d) /\ d.state = "Main"
      BY <1>1, <2>2, <3>1, <3>2, DeferKeeps
    <3>4. th' = d
      BY <2>1, <2>2, <3>1, <3>2 DEF DeferStall
    <3>5. Idle \in GcodeStates /\ Idle.at # "drip"
      BY WaitIs
    <3> QED
      BY <2>1, <3>3, <3>4, <3>5, CommandSettles
  <2>3. CASE s.state # "Main"
    <3>1. th' = s
      BY <2>1, <2>3 DEF DeferStall
    <3>2. Idle \in GcodeStates /\ Idle.at # "drip"
      BY WaitIs
    <3> QED
      BY <2>1, <3>1, <3>2, CommandSettles
  <2> QED
    BY <2>2, <2>3
<1>3. CASE ~(StallTime(s) <= 0) /\ ~can_pause
  <2> DEFINE d == [s EXCEPT !.need_check_stall = NEVER]
  <2>1. th' = d /\ gcode' = Idle
    BY <1>3 DEF Stall
  <2>0. d \in Toolheads
    <3>1. NEVER \in Int
      BY DEF NEVER
    <3> QED
      BY <1>1, <3>1 DEF Toolheads
  <2>2. /\ d \in Toolheads /\ d.print_time = s.print_time /\ d.state = s.state /\ d.kin_delay = s.kin_delay
        /\ d.kin_flush = s.kin_flush /\ d.flush_timer = s.flush_timer /\ d.queue = s.queue
        /\ d.generated = s.generated /\ d.raised = s.raised /\ d.room = s.room
    BY <1>1, <2>0 DEF Toolheads
  <2> HIDE DEF d
  <2>3. Sound(d)
    BY <1>3, <2>2 DEF Sound, TimerIsSet, StepsAreBehind
  <2>4. Idle \in GcodeStates /\ Idle.at # "drip"
    BY WaitIs
  <2> QED
    BY <2>1, <2>2, <2>3, <2>4, CommandSettles
<1>4. CASE ~(StallTime(s) <= 0) /\ can_pause
  <2>1. th' = s /\ gcode' = Wait("stall", now + StallTime(s))
    BY <1>4 DEF Stall
  <2>2. now + StallTime(s) \in Int
    BY <1>1 DEF StallTime
  <2>3. Wait("stall", now + StallTime(s)) \in GcodeStates /\ Wait("stall", now + StallTime(s)).at # "drip"
    BY <2>2, WaitIs
  <2> QED
    BY <2>1, <2>3, CommandSettles
<1> QED
  BY <1>2, <1>3, <1>4

\* So does a check from its beginning.
LEMMA CheckStallKeeps ==
  ASSUME ToolheadAssumed, ToolheadTyped, NEW s, Sound(s), s.state # "Drip", CheckStall(s), UNCHANGED <<now, can_pause>>
  PROVE  ToolheadInv'
<1>1. PICK p : p = Prime(s)
  OBVIOUS
<1>2. Sound(p) /\ p.state \in {"Main", "Priming"}
  BY <1>1, PrimeKeeps DEF ToolheadTyped
<1>3. Stall(p)
  BY <1>1 DEF CheckStall
<1> QED
  BY <1>2, <1>3, StallKeeps

\* A move may be flushed at once, with some before it, or wait.
LEMMA MoveKeeps ==
  ASSUME ToolheadAssumed, ToolheadInv, can_pause, NEW time \in MoveTimes, move(time)
  PROVE  ToolheadInv'
<1>1. /\ ToolheadTyped /\ th \in Toolheads /\ TimerIsSet(th) /\ StepsAreBehind(th) /\ now \in Nat /\ time \in Nat
      /\ th.state # "Drip" /\ (th.queue # <<>> => th.state \in {"Main", "Priming"})
  BY DEF ToolheadInv, ToolheadTyped, ToolheadAssumed, move
<1>2. PICK count \in 0 .. Len(th.queue) :
         LET s == ProcessMoves([th EXCEPT !.queue = Append(@, time)], count)
         IN  IF s.print_time > s.need_check_stall THEN CheckStall(s) ELSE th' = s /\ gcode' = Idle
  BY DEF move
<1>3. PICK t : t = th
  OBVIOUS
<1> DEFINE q == [t EXCEPT !.queue = Append(t.queue, time)]
<1>0. q \in Toolheads
  <2>1. t \in Toolheads /\ Append(t.queue, time) \in Seq(Nat)
    BY <1>1, <1>3 DEF Toolheads
  <2> QED
    BY <2>1 DEF Toolheads
<1>4. /\ q \in Toolheads /\ q.print_time = t.print_time /\ q.state = t.state /\ q.kin_delay = t.kin_delay
      /\ q.kin_flush = t.kin_flush /\ q.flush_timer = t.flush_timer /\ q.queue = Append(t.queue, time)
      /\ q.generated = t.generated /\ q.raised = t.raised /\ q.room = t.room /\ q.need_check_stall = t.need_check_stall
  BY <1>0, <1>1, <1>3 DEF Toolheads
<1>5. PICK s : s = ProcessMoves(q, count)
  OBVIOUS
<1>6. IF s.print_time > s.need_check_stall THEN CheckStall(s) ELSE th' = s /\ gcode' = Idle
  BY <1>2, <1>3, <1>5
<1> HIDE DEF q
<1>7. Sound(q)
  BY <1>1, <1>3, <1>4 DEF Sound, TimerIsSet, StepsAreBehind
<1>8. count \in 0 .. Len(q.queue)
  BY <1>1, <1>3, <1>4 DEF Toolheads
<1>9. Sound(s) /\ s.state = IF count = 0 THEN t.state ELSE "Main"
  BY <1>1, <1>3, <1>4, <1>5, <1>7, <1>8, ProcessKeeps
<1>10. UNCHANGED <<now, can_pause>>
  BY DEF move
<1>11. CASE s.print_time > s.need_check_stall
  BY <1>1, <1>3, <1>6, <1>9, <1>10, <1>11, CheckStallKeeps
<1>12. CASE ~(s.print_time > s.need_check_stall)
  <2>1. s.state = "Main"
    <3>1. s.state \in {"Flushed", "Priming"} => s.need_check_stall = -1 /\ s.print_time \in Nat
      BY <1>9 DEF Sound, TimerIsSet, Toolheads
    <3>2. s.state \in {"Flushed", "Priming", "Main"}
      BY <1>1, <1>3, <1>9 DEF Toolheads
    <3> QED
      BY <1>12, <3>1, <3>2
  <2>2. Idle \in GcodeStates /\ Idle.at # "drip"
    BY WaitIs
  <2> QED
    BY <1>1, <1>6, <1>9, <1>10, <1>12, <2>1, <2>2, CommandSettles
<1> QED
  BY <1>11, <1>12

\* A dwell begins behind the last move.
LEMMA DwellKeeps ==
  ASSUME ToolheadAssumed, ToolheadInv, can_pause, NEW delay \in MoveTimes, dwell(delay)
  PROVE  ToolheadInv'
<1>1. /\ ToolheadTyped /\ now \in Nat /\ delay \in Nat /\ th.state # "Drip" /\ Sound(th) /\ UNCHANGED <<now, can_pause>>
  BY DEF ToolheadInv, ToolheadTyped, ToolheadAssumed, dwell, Sound
<1>2. PICK t, s, u : t = th /\ s = GetLastMoveTime(t) /\ u = UpdateMoveTime(s, s.print_time + delay)
  OBVIOUS
<1>3. Sound(t) /\ t.state # "Drip"
  BY <1>1, <1>2 DEF Sound, TimerIsSet, StepsAreBehind
<1>4. Sound(s) /\ s.state # "Drip"
  BY <1>1, <1>2, <1>3, GetLastKeeps
<1>5. s.print_time + delay \in Nat /\ s.print_time <= s.print_time + delay
  BY <1>1, <1>4 DEF Sound, Toolheads
<1>6. Sound(u) /\ u.state # "Drip"
  BY <1>1, <1>2, <1>4, <1>5, UpdateKeeps
<1>7. CheckStall(u)
  BY <1>2 DEF dwell
<1> QED
  BY <1>1, <1>6, <1>7, CheckStallKeeps


LEMMA WaitsKeep ==
  ASSUME ToolheadAssumed, ToolheadInv, wait_moves \/ WaitOver
  PROVE  ToolheadInv'
<1>1. /\ ToolheadTyped /\ now \in Nat /\ th.state # "Drip" /\ UNCHANGED <<now, can_pause>>
      /\ th \in Toolheads /\ TimerIsSet(th) /\ StepsAreBehind(th) /\ (th.queue # <<>> => th.state \in {"Main", "Priming"})
  BY DEF ToolheadInv, ToolheadTyped, wait_moves, WaitOver
<1>2. PICK t : t = th
  OBVIOUS
<1>3. Sound(t)
  BY <1>1, <1>2 DEF Sound, TimerIsSet, StepsAreBehind
<1>4. PICK s : WaitOn(s) /\ Sound(s) /\ s.state # "Drip" /\ (s.queue # <<>> => s.state \in {"Main", "Priming"})
  <2>1. CASE wait_moves
    <3>1. PICK s : s = FlushLookahead(t)
      OBVIOUS
    <3>2. Sound(s) /\ s.queue = <<>> /\ s.state \in {"Main", "Flushed"}
      BY <1>1, <1>2, <1>3, <3>1, LookaheadKeeps
    <3>3. WaitOn(s)
      BY <1>2, <2>1, <3>1 DEF wait_moves
    <3> QED
      BY <3>2, <3>3
  <2>2. CASE WaitOver
    <3>1. WaitOn(t)
      BY <1>2, <2>2 DEF WaitOver
    <3> QED
      BY <1>1, <1>2, <1>3, <3>1
  <2> QED
    BY <2>1, <2>2
<1>5. th' = s /\ gcode' = IF MovesUnderWay(s) /\ can_pause THEN Wait("wait", now + 1) ELSE Idle
  BY <1>4 DEF WaitOn
<1>6. now + 1 \in Int
  BY <1>1
<1>7. gcode' \in GcodeStates /\ gcode'.at # "drip"
  BY <1>5, <1>6, WaitIs
<1>8. PICK g : g = gcode'
  OBVIOUS
<1> QED
  BY <1>1, <1>4, <1>5, <1>7, <1>8, CommandSettles

\* A command that stalled looks at the print time again.
LEMMA StallOverKeeps ==
  ASSUME ToolheadAssumed, ToolheadInv, StallOver
  PROVE  ToolheadInv'
<1>1. /\ ToolheadTyped /\ now \in Nat /\ th.state # "Drip" /\ UNCHANGED <<now, can_pause>>
      /\ th \in Toolheads /\ TimerIsSet(th) /\ StepsAreBehind(th) /\ (th.queue # <<>> => th.state \in {"Main", "Priming"})
  BY DEF ToolheadInv, ToolheadTyped, StallOver
<1>2. PICK t : t = th
  OBVIOUS
<1>3. Sound(t)
  BY <1>1, <1>2 DEF Sound, TimerIsSet, StepsAreBehind
<1>4. Stall(t)
  BY <1>2 DEF StallOver
<1> QED
  BY <1>1, <1>2, <1>3, <1>4, StallKeeps

\* A scan time that grows behind a dwell is noted; else what was generated stays behind.
LEMMA ScanTimeKeeps ==
  ASSUME ToolheadAssumed, ToolheadInv, NEW delay \in ScanTimes, note_step_generation_scan_time(delay)
  PROVE  ToolheadInv'
<1>1. /\ ToolheadTyped /\ now \in Nat /\ delay \in Nat /\ th.state # "Drip" /\ UNCHANGED <<now, gcode, can_pause>>
      /\ th \in Toolheads /\ TimerIsSet(th) /\ StepsAreBehind(th) /\ gcode.at = "idle" /\ gcode \in GcodeStates
  BY DEF ToolheadInv, ToolheadTyped, ToolheadAssumed, note_step_generation_scan_time
<1>2. PICK t, s : t = th /\ s = FlushStepGeneration(t)
  OBVIOUS
<1>3. Sound(t)
  BY <1>1, <1>2 DEF Sound, TimerIsSet, StepsAreBehind
<1>4. Sound(s) /\ s.queue = <<>> /\ s.state = "Flushed"
  BY <1>1, <1>2, <1>3, StepGenerationKeeps
<1>5. /\ s \in Toolheads /\ TimerIsSet(s) /\ StepsAreBehind(s) /\ s.print_time \in Nat /\ s.kin_delay \in Nat /\ s.kin_flush \in Nat
      /\ s.generated \in Nat /\ s.raised \in BOOLEAN
  BY <1>4 DEF Sound, Toolheads
<1>6. PICK rai : rai = (s.raised \/ (delay > s.kin_delay /\ s.print_time > s.kin_flush))
  OBVIOUS
<1>7. rai \in BOOLEAN
  BY <1>5, <1>6
<1> DEFINE d == [s EXCEPT !.kin_delay = delay, !.raised = rai]
<1>8. th' = d
  BY <1>2, <1>6 DEF note_step_generation_scan_time
<1>9. /\ d \in Toolheads /\ d.print_time = s.print_time /\ d.state = "Flushed" /\ d.kin_delay = delay
      /\ d.kin_flush = s.kin_flush /\ d.flush_timer = s.flush_timer /\ d.queue = <<>>
      /\ d.generated = s.generated /\ d.raised = rai /\ d.room = s.room /\ d.need_check_stall = s.need_check_stall
  BY <1>1, <1>4, <1>5, <1>7 DEF Toolheads
<1> HIDE DEF d
<1>10. TimerIsSet(d)
  BY <1>4, <1>5, <1>9 DEF TimerIsSet
<1>11. StepsAreBehind(d)
  <2>1. rai \/ d.generated <= Later(d.kin_flush, d.print_time - d.kin_delay)
    <3>1. CASE s.raised
      BY <1>6, <3>1
    <3>2. CASE delay > s.kin_delay /\ s.print_time > s.kin_flush
      BY <1>6, <3>2
    <3>3. CASE ~s.raised /\ ~(delay > s.kin_delay /\ s.print_time > s.kin_flush)
      <4>1. s.generated <= Later(s.kin_flush, s.print_time - s.kin_delay)
        BY <1>5, <3>3 DEF StepsAreBehind
      <4> QED
        BY <1>1, <1>5, <1>9, <3>3, <4>1 DEF Later
    <3> QED
      BY <3>1, <3>2, <3>3
  <2> QED
    BY <1>5, <1>9, <2>1 DEF StepsAreBehind
<1>12. Sound(d)
  BY <1>9, <1>10, <1>11 DEF Sound
<1>13. PICK g : g = gcode
  OBVIOUS
<1> QED
  BY <1>1, <1>8, <1>9, <1>12, <1>13, CommandSettles

\* A drip move begins with no timer and ahead of the board.
LEMMA DripMoveKeeps ==
  ASSUME ToolheadAssumed, ToolheadInv, NEW time \in MoveTimes, drip_move(time)
  PROVE  ToolheadInv'
<1>1. /\ ToolheadTyped /\ now \in Nat /\ time \in Nat /\ th.state # "Drip" /\ UNCHANGED <<now, can_pause>>
      /\ th \in Toolheads /\ TimerIsSet(th) /\ StepsAreBehind(th)
      /\ th' = DripStart(th, time)
      /\ gcode' = [at |-> "drip", wake |-> now, from |-> th'.print_time, until |-> th'.print_time + time]
  BY DEF ToolheadInv, ToolheadTyped, ToolheadAssumed, drip_move
<1>2. PICK t, f : t = th /\ f = Flush(t)
  OBVIOUS
<1>3. Sound(t)
  BY <1>1, <1>2 DEF Sound, TimerIsSet, StepsAreBehind
<1>4. Sound(f)
  BY <1>1, <1>2, <1>3, FlushKeeps
<1>5. /\ f \in Toolheads /\ StepsAreBehind(f) /\ f.print_time \in Nat /\ f.kin_delay \in Nat /\ f.kin_flush \in Nat
      /\ f.generated \in Nat /\ f.raised \in BOOLEAN
  BY <1>4 DEF Sound, Toolheads
<1> DEFINE d == [f EXCEPT !.state = "Drip", !.need_check_stall = NEVER, !.flush_timer = NEVER, !.queue = <<time>>]
<1>6. d \in Toolheads
  <2>1. NEVER \in Int /\ <<time>> \in Seq(Nat) /\ "Drip" \in {"Main", "Flushed", "Priming", "Drip"}
    BY <1>1 DEF NEVER
  <2> QED
    BY <1>5, <2>1 DEF Toolheads
<1>7. /\ d.print_time = f.print_time /\ d.state = "Drip" /\ d.kin_delay = f.kin_delay
      /\ d.kin_flush = f.kin_flush /\ d.flush_timer = NEVER
      /\ d.generated = f.generated /\ d.raised = f.raised /\ d.room = f.room
  BY <1>5 DEF Toolheads
<1>8. DripStart(t, time) = Begin(CalcPrintTime(d))
  BY <1>2 DEF DripStart
<1> HIDE DEF d
<1>9. PICK p \in Nat : /\ CalcPrintTime(d) = [d EXCEPT !.print_time = p] /\ d.print_time <= p
                       /\ now + BufferStart <= p /\ d.kin_flush <= p - d.kin_delay
  BY <1>1, <1>6, CalcIs
<1>10. PICK c : c = CalcPrintTime(d)
  OBVIOUS
<1>11. /\ c \in Toolheads /\ c.print_time = p /\ c.state = "Drip" /\ c.kin_delay = f.kin_delay
       /\ c.kin_flush = f.kin_flush /\ c.flush_timer = NEVER
       /\ c.generated = f.generated /\ c.raised = f.raised /\ c.room = f.room
  BY <1>6, <1>7, <1>9, <1>10 DEF Toolheads
<1>12. c.raised \/ c.generated <= c.print_time - c.kin_delay
  <2>1. f.generated <= Later(f.kin_flush, f.print_time - f.kin_delay) => c.generated <= c.print_time - c.kin_delay
    BY <1>5, <1>7, <1>9, <1>11 DEF Later
  <2> QED
    BY <1>5, <1>11, <2>1 DEF StepsAreBehind
<1>13. (c.raised \/ c.generated <= c.print_time - c.kin_delay) = TRUE
  BY <1>12
<1>14. Begin(c) = [c EXCEPT !.room = TRUE]
  BY <1>13 DEF Begin
<1>15. th' = c
  <2>1. c.room = TRUE
    BY <1>5, <1>11 DEF StepsAreBehind, Toolheads
  <2>2. [c EXCEPT !.room = TRUE] = c
    BY <1>11, <2>1 DEF Toolheads
  <2> QED
    BY <1>1, <1>2, <1>8, <1>10, <1>14, <2>2
<1>16. TimerIsSet(c)' /\ StepsAreBehind(c)
  <2>1. TimerIsSet(c)'
    BY <1>11 DEF TimerIsSet
  <2>2. c.generated <= c.print_time - c.kin_delay => c.generated <= Later(c.kin_flush, c.print_time - c.kin_delay)
    BY <1>5, <1>9, <1>11 DEF Later
  <2>3. c.kin_flush <= c.print_time - c.kin_delay
    BY <1>7, <1>9, <1>11
  <2> QED
    BY <1>5, <1>11, <1>12, <2>1, <2>2, <2>3 DEF StepsAreBehind
<1>17. /\ gcode' \in GcodeStates /\ gcode'.at = "drip" /\ gcode'.from = p
  BY <1>1, <1>11, <1>15 DEF GcodeStates
<1>18. ToolheadTyped'
  BY <1>1, <1>11, <1>15, <1>17 DEF ToolheadTyped
<1>19. TimerIsSet(th)' /\ StepsAreBehind(th)'
  BY <1>15, <1>16 DEF TimerIsSet, StepsAreBehind
<1> QED
  BY <1>9, <1>11, <1>15, <1>17, <1>18, <1>19 DEF ToolheadInv, DripIsShort

\* A segment of a drip move is sent when few steps are under way, or once the printer is shut down.
LEMMA SegmentKeeps ==
  ASSUME ToolheadAssumed, ToolheadInv, DripSegmentSent
  PROVE  ToolheadInv'
<1>1. /\ ToolheadTyped /\ now \in Nat /\ th.state = "Drip" /\ UNCHANGED <<now, can_pause>> /\ can_pause \in BOOLEAN
      /\ th \in Toolheads /\ TimerIsSet(th) /\ StepsAreBehind(th) /\ gcode \in GcodeStates
      /\ th.print_time \in Nat /\ gcode.at = "drip" /\ gcode.until \in Nat /\ th.print_time < gcode.until
      /\ gcode.from \in Nat /\ gcode.from <= th.print_time /\ DripIsShort /\ DripSegment \in Nat /\ DripTime \in Nat
      /\ th.kin_delay \in Nat
  BY DEF ToolheadInv, ToolheadTyped, ToolheadAssumed, DripSegmentSent, Toolheads, GcodeStates
<1>2. CASE DripAhead(th) > 0 /\ can_pause
  <2>1. gcode' = [gcode EXCEPT !.wake = now + DripAhead(th)] /\ th' = th
    BY <1>2 DEF DripSegmentSent
  <2>2. now + DripAhead(th) \in Int
    BY <1>1 DEF DripAhead, FlushDelay
  <2>3. gcode' \in GcodeStates /\ gcode'.at = "drip" /\ gcode'.from = gcode.from
    BY <1>1, <2>1, <2>2 DEF GcodeStates
  <2> QED
    BY <1>1, <2>1, <2>3 DEF ToolheadInv, ToolheadTyped, TimerIsSet, StepsAreBehind, DripIsShort
<1>3. CASE ~(DripAhead(th) > 0 /\ can_pause)
  <2>1. PICK t, next, u : t = th /\ next = Sooner(t.print_time + DripSegment, gcode.until) /\ u = UpdateMoveTime(t, next)
    OBVIOUS
  <2>2. th' = u /\ gcode' = [gcode EXCEPT !.wake = now]
    BY <1>3, <2>1 DEF DripSegmentSent
  <2>3. next \in Nat /\ t.print_time <= next /\ next <= t.print_time + DripSegment
    BY <1>1, <2>1 DEF Sooner
  <2>4. Sound(t)
    BY <1>1, <2>1 DEF Sound, TimerIsSet, StepsAreBehind
  <2>5. Sound(u) /\ u.print_time = next /\ u.state = "Drip" /\ u.kin_delay = t.kin_delay
    BY <1>1, <2>1, <2>3, <2>4, UpdateKeeps
  <2>6. gcode' \in GcodeStates /\ gcode'.at = "drip" /\ gcode'.from = gcode.from
    BY <1>1, <2>2 DEF GcodeStates
  <2>7. u \in Toolheads /\ TimerIsSet(th)' /\ StepsAreBehind(th)'
    BY <1>1, <2>2, <2>5 DEF Sound, TimerIsSet, StepsAreBehind
  <2>8. can_pause => next - now <= DripTime + t.kin_delay + DripSegment
    <3>1. can_pause => t.print_time - now - (DripTime + t.kin_delay) <= 0
      BY <1>1, <1>3, <2>1 DEF DripAhead, FlushDelay
    <3> QED
      BY <1>1, <2>1, <2>3, <3>1
  <2>9. DripIsShort'
    BY <1>1, <2>1, <2>2, <2>5, <2>8 DEF DripIsShort
  <2>10. gcode'.from <= th'.print_time
    BY <1>1, <2>1, <2>2, <2>3, <2>5, <2>6
  <2>11. ToolheadTyped'
    BY <1>1, <2>2, <2>6, <2>7 DEF ToolheadTyped
  <2> QED
    BY <1>1, <2>2, <2>5, <2>6, <2>7, <2>9, <2>10, <2>11 DEF ToolheadInv
<1> QED
  BY <1>2, <1>3

\* A drip move ends flushed, done or cut off.
LEMMA DripEndKeeps ==
  ASSUME ToolheadAssumed, ToolheadInv, DripDone \/ DripEnds
  PROVE  ToolheadInv'
<1>1. /\ ToolheadTyped /\ now \in Nat /\ UNCHANGED <<now, can_pause>> /\ gcode' = Idle
      /\ th \in Toolheads /\ TimerIsSet(th) /\ StepsAreBehind(th) /\ gcode.until \in Nat
  BY DEF ToolheadInv, ToolheadTyped, DripDone, DripEnds, GcodeStates
<1>2. PICK t : t = th
  OBVIOUS
<1>3. PICK kin \in Nat : th' = FlushStepGeneration([t EXCEPT !.kin_move = kin, !.queue = <<>>])
  <2>1. CASE DripDone
    BY <1>1, <1>2, <2>1 DEF DripDone
  <2>2. CASE DripEnds
    <3>1. t.kin_move \in Nat /\ [t EXCEPT !.queue = <<>>] = [t EXCEPT !.kin_move = t.kin_move, !.queue = <<>>]
      BY <1>1, <1>2 DEF Toolheads
    <3> QED
      BY <1>2, <2>2, <3>1 DEF DripEnds
  <2> QED
    BY <2>1, <2>2
<1> DEFINE q == [t EXCEPT !.kin_move = kin, !.queue = <<>>]
<1>4. /\ q \in Toolheads /\ q.print_time = t.print_time /\ q.state = t.state /\ q.kin_delay = t.kin_delay
      /\ q.kin_flush = t.kin_flush /\ q.flush_timer = t.flush_timer
      /\ q.generated = t.generated /\ q.raised = t.raised /\ q.room = t.room /\ q.need_check_stall = t.need_check_stall
  <2>1. t \in Toolheads /\ <<>> \in Seq(Nat)
    BY <1>1, <1>2
  <2> QED
    BY <2>1 DEF Toolheads
<1>5. PICK s : s = FlushStepGeneration(q)
  OBVIOUS
<1>6. th' = s
  BY <1>3, <1>5
<1> HIDE DEF q
<1>7. Sound(q)
  BY <1>1, <1>2, <1>4 DEF Sound, TimerIsSet, StepsAreBehind
<1>8. Sound(s) /\ s.queue = <<>> /\ s.state = "Flushed"
  BY <1>1, <1>5, <1>7, StepGenerationKeeps
<1>9. Idle \in GcodeStates /\ Idle.at # "drip"
  BY WaitIs
<1> QED
  BY <1>1, <1>6, <1>8, <1>9, CommandSettles

\* The timer is set again in time, or all is flushed.
LEMMA HandlerKeeps ==
  ASSUME ToolheadAssumed, ToolheadInv, FlushHandler
  PROVE  ToolheadInv'
<1>1. /\ ToolheadTyped /\ now \in Nat /\ UNCHANGED <<now, gcode, can_pause>> /\ gcode \in GcodeStates
      /\ th \in Toolheads /\ TimerIsSet(th) /\ StepsAreBehind(th)
      /\ (th.state = "Drip" <=> gcode.at = "drip")
      /\ gcode.at # "drip" => (th.queue # <<>> => th.state \in {"Main", "Priming"})
      /\ now >= th.flush_timer /\ now <= MaxTime /\ MaxTime < NEVER /\ MaxTime \in Nat
  BY DEF ToolheadInv, ToolheadTyped, FlushHandler, ToolheadAssumed
<1>2. th.state # "Drip"
  <2>1. th.state = "Drip" => now >= NEVER
    BY <1>1 DEF TimerIsSet
  <2> QED
    BY <1>1, <2>1 DEF NEVER
<1>3. PICK t, g : t = th /\ g = gcode
  OBVIOUS
<1>4. /\ Sound(t) /\ t \in Toolheads /\ TimerIsSet(t) /\ StepsAreBehind(t) /\ t.print_time \in Nat /\ t.state # "Drip" /\ g.at # "drip" /\ g \in GcodeStates
      /\ BufferLow \in Nat /\ Late \in Nat /\ Late < BufferLow /\ PrimeTime \in Nat
  BY <1>1, <1>2, <1>3 DEF Sound, TimerIsSet, StepsAreBehind, Toolheads, ToolheadAssumed
<1>5. CASE th.print_time - now > BufferLow
  <2> DEFINE d == [t EXCEPT !.flush_timer = t.print_time - BufferLow]
  <2>1. th' = d
    BY <1>3, <1>5 DEF FlushHandler
  <2>2a. t.print_time - BufferLow \in Int
    BY <1>4
  <2>2b. d \in Toolheads
    BY <1>4, <2>2a DEF Toolheads
  <2>2. /\ d \in Toolheads /\ d.print_time = t.print_time /\ d.state = t.state /\ d.kin_delay = t.kin_delay
        /\ d.kin_flush = t.kin_flush /\ d.flush_timer = t.print_time - BufferLow /\ d.queue = t.queue
        /\ d.generated = t.generated /\ d.raised = t.raised /\ d.room = t.room /\ d.need_check_stall = t.need_check_stall
    BY <1>4, <2>2b DEF Toolheads
  <2> HIDE DEF d
  <2>3. TimerIsSet(d)
    <3>1. d.flush_timer + Late < d.print_time /\ now <= d.flush_timer + Late /\ d.flush_timer <= Later(d.print_time, now + PrimeTime)
      BY <1>1, <1>3, <1>4, <1>5, <2>2 DEF Later
    <3> QED
      BY <1>4, <2>2, <3>1 DEF TimerIsSet
  <2>4. StepsAreBehind(d)
    BY <1>4, <2>2 DEF StepsAreBehind
  <2>5. Sound(d)
    BY <2>2, <2>3, <2>4 DEF Sound
  <2> QED
    BY <1>1, <1>3, <1>4, <2>1, <2>2, <2>5, CommandSettles
<1>6. CASE ~(th.print_time - now > BufferLow)
  <2>1. PICK s : s = FlushStepGeneration(t)
    OBVIOUS
  <2>2. th' = s
    BY <1>3, <1>6, <2>1 DEF FlushHandler
  <2>3. Sound(s) /\ s.queue = <<>> /\ s.state = "Flushed"
    BY <1>1, <1>4, <2>1, StepGenerationKeeps
  <2> QED
    BY <1>1, <1>3, <1>4, <2>2, <2>3, CommandSettles
<1> QED
  BY <1>5, <1>6

\* After a shutdown nothing is queued.
LEMMA ShutdownKeeps ==
  ASSUME ToolheadInv, HandleShutdown
  PROVE  ToolheadInv'
<1>1. /\ ToolheadTyped /\ UNCHANGED <<now, gcode>> /\ can_pause' = FALSE /\ th' = [th EXCEPT !.queue = <<>>]
      /\ th \in Toolheads /\ TimerIsSet(th) /\ StepsAreBehind(th)
  BY DEF ToolheadInv, ToolheadTyped, HandleShutdown
<1>2. PICK t, d : t = th /\ d = [t EXCEPT !.queue = <<>>]
  OBVIOUS
<1>3. /\ d \in Toolheads /\ d.print_time = t.print_time /\ d.state = t.state /\ d.kin_delay = t.kin_delay
      /\ d.kin_flush = t.kin_flush /\ d.flush_timer = t.flush_timer /\ d.queue = <<>>
      /\ d.generated = t.generated /\ d.raised = t.raised /\ d.room = t.room
  <2>1. t \in Toolheads /\ <<>> \in Seq(Nat)
    BY <1>1, <1>2
  <2> QED
    BY <1>2, <2>1 DEF Toolheads
<1>4. th' = d
  BY <1>1, <1>2
<1>5. TimerIsSet(th)' /\ StepsAreBehind(th)' /\ ToolheadTyped'
  BY <1>1, <1>2, <1>3, <1>4 DEF TimerIsSet, StepsAreBehind, ToolheadTyped
<1> QED
  BY <1>1, <1>2, <1>3, <1>4, <1>5 DEF ToolheadInv, DripIsShort

\* Time passes no further than what is due, and a little.
LEMMA TickKeeps ==
  ASSUME ToolheadAssumed, ToolheadInv, ClockTick
  PROVE  ToolheadInv'
<1>1. /\ ToolheadTyped /\ now \in Nat /\ now' = now + 1 /\ UNCHANGED <<th, gcode, can_pause>> /\ now < MaxTime
      /\ now < th.flush_timer + Late /\ th.flush_timer \in Int /\ th.print_time \in Nat /\ th.kin_delay \in Nat
      /\ Late \in Nat /\ PrimeTime \in Nat /\ DripTime \in Nat /\ DripSegment \in Nat /\ MaxTime \in Nat
  BY DEF ToolheadInv, ToolheadTyped, ToolheadAssumed, ClockTick, Toolheads
<1>2. ToolheadTyped'
  BY <1>1 DEF ToolheadTyped
<1>3. TimerIsSet(th)'
  <2>1. TimerIsSet(th)
    BY DEF ToolheadInv
  <2>2. now' <= th.flush_timer + Late
    BY <1>1
  <2>3. th.flush_timer <= Later(th.print_time, now + PrimeTime) => th.flush_timer <= Later(th.print_time, now' + PrimeTime)
    BY <1>1 DEF Later
  <2> QED
    BY <1>1, <2>1, <2>2, <2>3 DEF TimerIsSet
<1>4. StepsAreBehind(th)'
  BY <1>1 DEF ToolheadInv, StepsAreBehind
<1>5. DripIsShort'
  <2>1. th.print_time - now <= DripTime + th.kin_delay + DripSegment => th.print_time - now' <= DripTime + th.kin_delay + DripSegment
    BY <1>1
  <2> QED
    BY <1>1, <2>1 DEF ToolheadInv, DripIsShort
<1> QED
  BY <1>1, <1>2, <1>3, <1>4, <1>5 DEF ToolheadInv

\* It begins so, with no timer and nothing queued.
LEMMA ToolheadStarts == ToolheadAssumed /\ InitToolhead => ToolheadInv
<1> SUFFICES ASSUME ToolheadAssumed, InitToolhead PROVE ToolheadInv
  OBVIOUS
<1>1. Idle \in GcodeStates /\ Idle.at = "idle"
  BY WaitIs
<1>2. th \in Toolheads
  <2>1. -1 \in Int /\ NEVER \in Int /\ <<>> \in Seq(Nat)
    BY DEF NEVER
  <2> QED
    BY <2>1 DEF InitToolhead, Toolheads
<1>3. ToolheadTyped
  BY <1>1, <1>2 DEF ToolheadAssumed, ToolheadTyped, InitToolhead
<1>4. TimerIsSet(th) /\ StepsAreBehind(th)
  BY DEF InitToolhead, TimerIsSet, StepsAreBehind, Later
<1> QED
  BY <1>1, <1>3, <1>4 DEF ToolheadInv, InitToolhead, DripIsShort

\* Every step keeps it.
LEMMA ToolheadKeeps ==
  ASSUME ToolheadAssumed, ToolheadInv, [NextToolhead]_toolhead_vars
  PROVE  ToolheadInv'
<1>1. CASE \E time \in MoveTimes : can_pause /\ move(time)
  BY <1>1, MoveKeeps
<1>2. CASE \E time \in MoveTimes : can_pause /\ dwell(time)
  BY <1>2, DwellKeeps
<1>3. CASE \E time \in MoveTimes : drip_move(time)
  BY <1>3, DripMoveKeeps
<1>4. CASE \E delay \in ScanTimes : note_step_generation_scan_time(delay)
  BY <1>4, ScanTimeKeeps
<1>5. CASE wait_moves \/ WaitOver
  BY <1>5, WaitsKeep
<1>6. CASE UNCHANGED toolhead_vars
  BY <1>6 DEF toolhead_vars, ToolheadInv, ToolheadTyped, TimerIsSet, StepsAreBehind, DripIsShort
<1> QED
  BY <1>1, <1>2, <1>3, <1>4, <1>5, <1>6, StallOverKeeps, SegmentKeeps, DripEndKeeps, HandlerKeeps, ShutdownKeeps, TickKeeps
     DEF NextToolhead

(* The toolhead is ahead of the board while it is in its main state, with    *)
(* its timer due before the steps run out, a queued move is flushed in time, *)
(* moves begin where no steps have been generated, and a drip move sends few *)
(* steps ahead (_update_move_time, _calc_print_time, _check_stall,           *)
(* _flush_handler and _update_drip_move_time).                               *)
THEOREM MovesAlwaysInTime ==
  ASSUME ToolheadAssumed
  PROVE  SpecToolhead => [](MainIsAhead /\ QueuedIsFlushed /\ BeginsUngenerated /\ DripIsShort)
<1>1. InitToolhead => ToolheadInv
  BY ToolheadStarts
<1>2. ToolheadInv /\ [NextToolhead]_toolhead_vars => ToolheadInv'
  BY ToolheadKeeps
<1>3. ToolheadInv => MainIsAhead /\ QueuedIsFlushed /\ BeginsUngenerated /\ DripIsShort
  <2> SUFFICES ASSUME ToolheadInv PROVE MainIsAhead /\ QueuedIsFlushed /\ BeginsUngenerated /\ DripIsShort
    OBVIOUS
  <2>1. /\ TimerIsSet(th) /\ now \in Nat /\ th.flush_timer \in Int /\ th.print_time \in Nat /\ Late \in Nat /\ PrimeTime \in Nat
    BY DEF ToolheadInv, ToolheadTyped, ToolheadAssumed, Toolheads
  <2>2. MainIsAhead
    BY <2>1 DEF MainIsAhead, TimerIsSet
  <2>3. th.state = "Main" => th.flush_timer <= Later(th.print_time, now + PrimeTime)
    BY <2>1 DEF TimerIsSet, Later
  <2>4. QueuedIsFlushed
    BY <2>1, <2>3 DEF ToolheadInv, QueuedIsFlushed, TimerIsSet
  <2> QED
    BY <2>2, <2>4 DEF ToolheadInv, StepsAreBehind, BeginsUngenerated
<1> QED  BY <1>1, <1>2, <1>3, PTL DEF SpecToolhead

-----------------------------------------------------------------------------
(* The look-ahead                                                          *)

\* What a move is made of: it can change its speed, and more so if it need not be smooth (max_accel_to_decel).
LookAheadAssumed ==
  /\ \A m \in Moves : /\ m \in [delta : Nat, smooth_delta : Nat, cruise : Nat, max_start : Nat, max_smoothed : Nat]
                      /\ m.max_start = 0 /\ m.max_smoothed = 0 /\ 0 < m.smooth_delta /\ m.smooth_delta <= m.delta
  /\ Corners \subseteq Nat

QueuedMoves == [delta : Nat, smooth_delta : Nat, cruise : Nat, max_start : Nat, max_smoothed : Nat]
DelayedMoves == [index : Nat, start : Nat, end : Nat]
JunctionSpeeds == [start : Nat, cruise : Nat, end : Nat]

MoveFits(m) ==
  /\ m \in QueuedMoves /\ 0 < m.smooth_delta /\ m.smooth_delta <= m.delta
  /\ m.max_smoothed <= m.max_start /\ m.max_start <= m.cruise

\* The speeds the move m may begin at, behind the move l.
Follows(m, l) ==
  /\ m.max_start <= l.cruise /\ m.max_start <= l.max_start + l.delta
  /\ m.max_smoothed <= l.max_smoothed + l.smooth_delta
  /\ m.max_smoothed = m.max_start \/ m.max_smoothed = l.max_smoothed + l.smooth_delta

QueueFits(q) ==
  /\ q \in Seq(QueuedMoves)
  /\ \A i \in 1 .. Len(q) : MoveFits(q[i])
  /\ \A i \in 1 .. Len(q) - 1 : Follows(q[i + 1], q[i])

Lesser(a, b) == IF a <= b THEN a ELSE b

\* E and N are the speeds, and the smoothed ones, at which a pass over q finds that its moves can begin.
SpeedsOf(q, E, N) ==
  /\ E \in [1 .. Len(q) + 1 -> Nat] /\ N \in [1 .. Len(q) + 1 -> Nat]
  /\ E[Len(q) + 1] = 0 /\ N[Len(q) + 1] = 0
  /\ \A i \in 1 .. Len(q) : /\ E[i] = Lesser(q[i].max_start, E[i + 1] + q[i].delta)
                            /\ N[i] = Lesser(q[i].max_smoothed, N[i + 1] + q[i].smooth_delta)

\* Such a move need not slow down all the way.
Speeding(q, N, i) == q[i].max_smoothed < N[i + 1] + q[i].smooth_delta

\* What is so of the speeds at the move i and at the one behind it.
SpeedsFit(q, E, N, i) ==
  /\ E[i] <= q[i].max_start /\ N[i] <= E[i] /\ N[i] <= q[i].max_smoothed
  /\ N[i + 1] <= E[i + 1] /\ E[i + 1] <= q[i].cruise /\ E[i + 1] <= E[i] + q[i].delta
  /\ N[i + 1] <= q[i].max_smoothed + q[i].smooth_delta
  /\ /\ i < Len(q) /\ Speeding(q, N, i + 1)
     /\ ~Speeding(q, N, i) \/ N[i + 1] < q[i].max_smoothed + q[i].smooth_delta
     => N[i + 1] = E[i + 1] /\ E[i + 1] = q[i + 1].max_start

\* What waits are the moves from i on: p tells the speeds at which each can begin and must end.
DelayIs(d, E, j) == d.index = j /\ d.start = E[j] /\ d.end = E[j + 1]

Delays(p, E, i) ==
  /\ p.delayed \in Seq(DelayedMoves)
  /\ \A k \in 1 .. Len(p.delayed) : DelayIs(p.delayed[k], E, i + Len(p.delayed) - k)

\* Of the junctions J the k from i on have been given, with mc as the speed left.
GivenTo(J, R, mc, E, i, k, n, peak) ==
  /\ R \in [1 .. n -> JunctionSpeeds]
  /\ \A j \in 1 .. n : j < i \/ i + k <= j => R[j] = J[j]
  /\ \A j \in i .. i + k - 2 : R[j].end = R[j + 1].start
  /\ k > 0 => R[i].start = Lesser(E[i], peak) /\ R[i + k - 1].end = Lesser(E[i + k], mc)

GivenBy(J, acc, E, i, k, n, peak) ==
  acc.mc \in Nat /\ (k = 0 => acc.mc = peak) /\ GivenTo(J, acc.junctions, acc.mc, E, i, k, n, peak)

\* Pass and Propagate, as the functions they go through.
PassesFrom(f, q, lazy) ==
  /\ Pass(q, lazy) = f[1] /\ f[Len(q) + 1] = Stopped(lazy, q)
  /\ \A i \in 1 .. Len(q) : f[i] = Visit(q[i], f[i + 1], i)
GivesFrom(g, p, peak) ==
  /\ Propagate(p, peak) = g[Len(p.delayed)].junctions
  /\ g[0] = [mc |-> peak, junctions |-> p.junctions]
  /\ \A k \in 1 .. Len(p.delayed) : g[k] = Give(g[k - 1], p.delayed[Len(p.delayed) + 1 - k])

Passes(n) ==
  [next_end : Nat, next_smoothed : Nat, peak : Nat, delayed : Seq(DelayedMoves), update : BOOLEAN,
   count : 0 .. n, junctions : [1 .. n -> JunctionSpeeds]]

\* The peak a move reaches that need not slow down all the way.
PeakOf(q, N, i) == Lesser(q[i].cruise, (N[i] + (N[i + 1] + q[i].smooth_delta)) \div 2)

\* However a queue goes on behind its end, the speed at which its first move begins is settled by the move k,
\* which begins as fast as it may.
Settles(q, v, k, E, N) ==
  /\ N[Len(q) + 1] = 0
  /\ \A j \in 1 .. Len(q) : N[j] <= q[j].max_smoothed /\ N[j] <= N[j + 1] + q[j].smooth_delta
  /\ Speeding(q, N, k) /\ E[k] = q[k].max_start /\ N[k] = q[k].max_start /\ q[k].max_smoothed = q[k].max_start
  /\ \A j \in 1 .. k - 1 : /\ E[j] = Lesser(q[j].max_start, E[j + 1] + q[j].delta)
                            /\ N[j] = Lesser(q[j].max_smoothed, N[j + 1] + q[j].smooth_delta)
  /\ Speeding(q, N, 1) /\ \A j \in 2 .. k - 1 : ~Speeding(q, N, j)
  /\ k = 2 => N[2] < q[1].max_smoothed + q[1].smooth_delta
  /\ v = Lesser(E[1], PeakOf(q, N, 1))

Settled(q, v) ==
  \/ q[1].max_start = 0 /\ v = 0
  \/ \E k \in 2 .. Len(q) : \E E \in [1 .. Len(q) + 1 -> Nat] : \E N \in [1 .. Len(q) + 1 -> Nat] : Settles(q, v, k, E, N)

\* From the move i on the junctions J meet, up to the last one that goes, c, which ends at the speed b.
MeetsUpTo(J, E, i, c, b, peak) ==
  /\ i <= c + 1
  /\ i <= c => J[i].start = Lesser(E[i], peak) /\ J[c].end = b
  /\ i = c + 1 => b = Lesser(E[i], peak)
  /\ \A j \in i .. c - 1 : J[j].end = J[j + 1].start

Meets(p, q, E, f, b) ==
  /\ MeetsUpTo(p.junctions, E, f, p.count, b, p.peak) /\ b \in Nat
  /\ p.count = Len(q) => b = 0
  /\ p.count < Len(q) => Settled(SubSeq(q, p.count + 1, Len(q)), b)

\* Before the moves that wait there is one that need not slow down.
Waits(p, q, E, N, i, f) ==
  /\ p \in Passes(Len(q)) /\ p.next_end = E[i] /\ p.next_smoothed = N[i]
  /\ Delays(p, E, i) /\ f <= Len(q) + 1
  /\ \A j \in i .. f - 1 : ~Speeding(q, N, j)
  /\ \A j \in i .. f : N[f] <= N[j]
  /\ f <= Len(q) => Speeding(q, N, f)
  /\ N[f] <= p.peak /\ (p.peak > 0 => f <= Len(q))

PassInv(p, q, E, N, i) ==
  /\ Waits(p, q, E, N, i, i + Len(p.delayed))
  /\ p.update => p.count = Len(q)
  /\ ~p.update => \E b : Meets(p, q, E, i + Len(p.delayed), b)

\* What is left at a peak: the queue is cut before it, or the moves behind it meet up to the last one that goes.
AtPeakFits(r, q, E, N, m) ==
  /\ r \in Passes(Len(q)) /\ r.next_end = E[m + 1] /\ r.next_smoothed = N[m + 1]
  /\ r.delayed = <<>> /\ r.peak = PeakOf(q, N, m)
  /\ r.update => r.count = Len(q)
  /\ ~r.update => \/ r.count = m - 1 /\ Settled(SubSeq(q, m, Len(q)), Lesser(E[m], r.peak))
                  \/ m <= r.count /\ \E b : Meets(r, q, E, m + 1, b)

\* The speed at f, where the moves end that wait behind the move m, is settled.
Bottom(p, q, E, N, m, f) ==
  /\ f \in m + 1 .. Len(q) + 1 /\ N[f] = E[f] /\ E[f] \in Nat /\ E[f] <= N[m + 1] /\ E[f] <= p.peak
  /\ \A j \in m + 1 .. f : E[f] <= E[j]
  /\ f <= Len(q) => E[f] = q[f].max_start
  /\ f = m + 1 => p.delayed = <<>>

\* The junction of a move that is not delayed.
CruisesTo(q, r, m, E, new) ==
  /\ new \in JunctionSpeeds /\ Cruise(q[m], r, m) = [r EXCEPT !.junctions[m] = new]
  /\ new.start = Lesser(E[m], r.peak) /\ new.end = Lesser(E[m + 1], r.peak)

CruisesOn(q, r, m, E, b, R) ==
  /\ R \in [1 .. Len(q) -> JunctionSpeeds] /\ Cruise(q[m], r, m) = [r EXCEPT !.junctions = R]
  /\ MeetsUpTo(R, E, m, r.count, b, r.peak)

SpeedsDownTo(q, E, N, m) ==
  /\ E \in [1 .. Len(q) + 1 -> Nat] /\ N \in [1 .. Len(q) + 1 -> Nat]
  /\ E[Len(q) + 1] = 0 /\ N[Len(q) + 1] = 0
  /\ \A i \in m .. Len(q) : /\ E[i] = Lesser(q[i].max_start, E[i + 1] + q[i].delta)
                            /\ N[i] = Lesser(q[i].max_smoothed, N[i + 1] + q[i].smooth_delta)

\* What a pass over the queue q leaves, the moves before which end at the speed v.
PassMeets(p, q, v) ==
  /\ p \in Passes(Len(q))
  /\ ~p.update /\ p.count > 0 =>
       /\ p.junctions[1].start = v
       /\ \A j \in 1 .. p.count - 1 : p.junctions[j].end = p.junctions[j + 1].start
       /\ \E b \in Nat : /\ p.junctions[p.count].end = b
                         /\ p.count = Len(q) => b = 0
                         /\ p.count < Len(q) => Settled(SubSeq(q, p.count + 1, Len(q)), b)

\* The moves that wait begin at the speed at which those end that were processed.
LookAheadInv ==
  /\ QueueFits(moves) /\ flushed \in Seq(JunctionSpeeds)
  /\ moves # <<>> => Settled(moves, LastEnd)
  /\ JunctionsMeet

\* The least of some numbers is the one of them that is not above another.
LEMMA LeastIs ==
  ASSUME NEW S \in SUBSET Nat, NEW x \in S, \A y \in S : x <= y
  PROVE  Least(S) = x
<1> DEFINE least == CHOOSE z \in S : \A y \in S : z <= y
<1>1. least \in S /\ \A y \in S : least <= y
  OBVIOUS
<1>2. least \in Nat /\ x \in Nat /\ least <= x /\ x <= least
  BY <1>1
<1> QED
  BY <1>2 DEF Least

LEMMA LeastOfTwo ==
  ASSUME NEW a \in Nat, NEW b \in Nat
  PROVE  Least({a, b}) = Lesser(a, b)
<1>1. {a, b} \in SUBSET Nat /\ Lesser(a, b) \in {a, b} /\ \A y \in {a, b} : Lesser(a, b) <= y
  BY DEF Lesser
<1> QED
  BY <1>1, LeastIs

LEMMA LeastOfSome ==
  ASSUME NEW a \in Nat, NEW b \in Nat
  PROVE  /\ \A c \in Nat : Least({a, b, c}) = Lesser(a, Lesser(b, c))
         /\ \A c, d \in Nat : Least({a, b, c, d}) = Lesser(a, Lesser(b, Lesser(c, d)))
<1>2. ASSUME NEW c \in Nat PROVE Least({a, b, c}) = Lesser(a, Lesser(b, c))
  <2> DEFINE x == Lesser(a, Lesser(b, c))
  <2>1. {a, b, c} \in SUBSET Nat /\ x \in {a, b, c} /\ \A y \in {a, b, c} : x <= y
    BY DEF Lesser
  <2> QED
    BY <2>1, LeastIs
<1>3. ASSUME NEW c \in Nat, NEW d \in Nat PROVE Least({a, b, c, d}) = Lesser(a, Lesser(b, Lesser(c, d)))
  <2> DEFINE x == Lesser(a, Lesser(b, Lesser(c, d)))
  <2>1. {a, b, c, d} \in SUBSET Nat /\ x \in {a, b, c, d} /\ \A y \in {a, b, c, d} : x <= y
    BY DEF Lesser
  <2> QED
    BY <2>1, LeastIs
<1> QED
  BY <1>2, <1>3

\* The middle of two numbers is above what is below both.
LEMMA HalfIsAbove ==
  ASSUME NEW a \in Nat, NEW c \in Nat, 2 * c <= a
  PROVE  a \div 2 \in Nat /\ c <= a \div 2
OBVIOUS

\* What holds of n + 1, and of each number above 0 if of the next, holds down to 1.
LEMMA InductionFrom ==
  ASSUME NEW n \in Nat, NEW S, n + 1 \in S, \A i \in 1 .. n : i + 1 \in S => i \in S
  PROVE  1 .. n + 1 \subseteq S
<1> DEFINE T == {k \in Nat : n + 1 - k \in S}
<1>1. 0 \in T /\ \A k \in Nat : k < n + 1 /\ k \in T => (k < n => k + 1 \in T)
  <2>1. 0 \in T
    OBVIOUS
  <2>2. ASSUME NEW k \in Nat, k < n, k \in T PROVE k + 1 \in T
    <3>1. n - k \in 1 .. n /\ (n - k) + 1 = n + 1 - k /\ n + 1 - (k + 1) = n - k
      BY <2>2
    <3> QED
      BY <2>2, <3>1
  <2> QED
    BY <2>1, <2>2
<1>2. 0 .. n \subseteq T
  <2>1. 0 \in T /\ \A k \in Nat : k < n /\ k \in T => k + 1 \in T
    BY <1>1
  <2> HIDE DEF T
  <2> QED
    BY <2>1, InductionTo
<1> SUFFICES ASSUME NEW i \in 1 .. n + 1 PROVE i \in S
  OBVIOUS
<1>3. n + 1 - i \in 0 .. n /\ n + 1 - (n + 1 - i) = i
  OBVIOUS
<1> QED
  BY <1>2, <1>3

LEMMA MoveIs ==
  ASSUME NEW q, QueueFits(q), NEW i \in 1 .. Len(q)
  PROVE  /\ q[i].delta \in Nat /\ q[i].smooth_delta \in Nat /\ q[i].cruise \in Nat /\ q[i].max_start \in Nat
         /\ q[i].max_smoothed \in Nat /\ 0 < q[i].smooth_delta /\ q[i].smooth_delta <= q[i].delta
         /\ q[i].max_smoothed <= q[i].max_start /\ q[i].max_start <= q[i].cruise
BY DEF QueueFits, MoveFits, QueuedMoves

\* What the limits of each move say of the speeds found.
LEMMA SpeedsAreFit ==
  ASSUME NEW q, NEW E, NEW N, QueueFits(q), SpeedsOf(q, E, N)
  PROVE  \A i \in 1 .. Len(q) : SpeedsFit(q, E, N, i)
<1> DEFINE n == Len(q)
<1>1. n \in Nat
  BY DEF QueueFits
<1>2. /\ \A i \in 1 .. n + 1 : E[i] \in Nat /\ N[i] \in Nat
      /\ E[n + 1] = 0 /\ N[n + 1] = 0
      /\ \A i \in 1 .. n : /\ E[i] = Lesser(q[i].max_start, E[i + 1] + q[i].delta)
                           /\ N[i] = Lesser(q[i].max_smoothed, N[i + 1] + q[i].smooth_delta)
  BY DEF SpeedsOf
<1> HIDE DEF n
<1>3. ASSUME NEW i \in 1 .. n
      PROVE  /\ q[i].delta \in Nat /\ q[i].smooth_delta \in Nat /\ q[i].cruise \in Nat /\ q[i].max_start \in Nat
             /\ q[i].max_smoothed \in Nat /\ 0 < q[i].smooth_delta /\ q[i].smooth_delta <= q[i].delta
             /\ q[i].max_smoothed <= q[i].max_start /\ q[i].max_start <= q[i].cruise
             /\ E[i] \in Nat /\ N[i] \in Nat /\ E[i + 1] \in Nat /\ N[i + 1] \in Nat
             /\ E[i] <= q[i].max_start /\ N[i] <= q[i].max_smoothed
  <2>1. i \in 1 .. Len(q) /\ i \in 1 .. n + 1 /\ i + 1 \in 1 .. n + 1
    BY <1>1 DEF n
  <2> QED
    BY <1>2, <2>1, MoveIs DEF Lesser
<1>4. \A i \in 1 .. n + 1 : N[i] <= E[i]
  <2> DEFINE S == {i \in 1 .. n + 1 : N[i] <= E[i]}
  <2>1. n + 1 \in S
    BY <1>1, <1>2
  <2>2. ASSUME NEW i \in 1 .. n, i + 1 \in S PROVE i \in S
    <3>1. N[i + 1] <= E[i + 1]
      BY <2>2
    <3>2. N[i] <= E[i]
      BY <1>2, <1>3, <3>1 DEF Lesser
    <3> QED
      BY <1>1, <3>2
  <2>3. 1 .. n + 1 \subseteq S
    <3> HIDE DEF S
    <3> QED
      BY <1>1, <2>1, <2>2, InductionFrom
  <2> QED
    BY <2>3
<1>5. ASSUME NEW i \in 1 .. n PROVE SpeedsFit(q, E, N, i)
  <2>1. N[i] <= E[i] /\ N[i + 1] <= E[i + 1]
    BY <1>1, <1>4
  <2>2. CASE i = n
    <3>1. E[i + 1] = 0 /\ N[i + 1] = 0
      BY <1>2, <2>2
    <3> QED
      BY <1>3, <2>1, <2>2, <3>1 DEF SpeedsFit, n
  <2>3. CASE i < n
    <3>1. i \in 1 .. Len(q) - 1 /\ i + 1 \in 1 .. n
      BY <1>1, <2>3 DEF n
    <3>2. /\ q[i + 1].max_start <= q[i].cruise /\ q[i + 1].max_start <= q[i].max_start + q[i].delta
          /\ q[i + 1].max_smoothed <= q[i].max_smoothed + q[i].smooth_delta
          /\ \/ q[i + 1].max_smoothed = q[i + 1].max_start
             \/ q[i + 1].max_smoothed = q[i].max_smoothed + q[i].smooth_delta
      BY <3>1 DEF QueueFits, Follows
    <3>3. /\ q[i + 1].max_start \in Nat /\ q[i + 1].max_smoothed \in Nat
          /\ E[i + 1] <= q[i + 1].max_start /\ N[i + 1] <= q[i + 1].max_smoothed
      BY <1>3, <3>1
    <3>4. E[i + 1] <= q[i].cruise /\ E[i + 1] <= E[i] + q[i].delta
      BY <1>2, <1>3, <3>2, <3>3 DEF Lesser
    <3>5. N[i + 1] <= q[i].max_smoothed + q[i].smooth_delta
      BY <1>3, <3>2, <3>3
    <3>6. ASSUME Speeding(q, N, i + 1), ~Speeding(q, N, i) \/ N[i + 1] < q[i].max_smoothed + q[i].smooth_delta
          PROVE  N[i + 1] = E[i + 1] /\ E[i + 1] = q[i + 1].max_start
      <4>1. N[i + 1] = q[i + 1].max_smoothed
        <5>1. /\ N[i + 1] = Lesser(q[i + 1].max_smoothed, N[(i + 1) + 1] + q[i + 1].smooth_delta)
              /\ q[i + 1].max_smoothed < N[(i + 1) + 1] + q[i + 1].smooth_delta
          BY <1>2, <3>1, <3>6 DEF Speeding
        <5>2. q[i + 1].smooth_delta \in Nat /\ N[(i + 1) + 1] \in Nat
          BY <1>3, <3>1
        <5> QED
          BY <3>3, <5>1, <5>2 DEF Lesser
      <4>2. N[i + 1] # q[i].max_smoothed + q[i].smooth_delta
        BY <1>3, <3>6 DEF Speeding
      <4> QED
        BY <1>3, <2>1, <3>2, <3>3, <4>1, <4>2
    <3> QED
      BY <1>3, <2>1, <3>4, <3>5, <3>6 DEF SpeedsFit
  <2> QED
    BY <1>1, <2>2, <2>3
<1> QED
  BY <1>5 DEF n

\* A pass visits the moves from the last to the first.
LEMMA PassIsDefined ==
  ASSUME NEW q, Len(q) \in Nat, NEW lazy
  PROVE  \E f : PassesFrom(f, q, lazy)
<1> DEFINE n == Len(q)
           Visits(f, m) == f = [i \in n + 1 - m .. n + 1 |-> IF i > n THEN Stopped(lazy, q) ELSE Visit(q[i], f[i + 1], i)]
           S == {m \in Nat : \E f : Visits(f, m)}
<1>1. 0 \in S
  <2> DEFINE g == [i \in n + 1 - 0 .. n + 1 |-> Stopped(lazy, q)]
  <2>1. \A i \in n + 1 - 0 .. n + 1 : i > n
    OBVIOUS
  <2>2. Visits(g, 0)
    BY <2>1
  <2> HIDE DEF g, Visits
  <2>3. \E f : Visits(f, 0)
    BY <2>2
  <2>4. 0 \in Nat
    OBVIOUS
  <2> QED
    BY <2>3, <2>4, Zenon
<1>2. ASSUME NEW m \in Nat, m < n, m \in S PROVE m + 1 \in S
  <2>1. PICK e : Visits(e, m)
    BY <1>2
  <2> DEFINE g == [i \in n + 1 - (m + 1) .. n + 1 |-> IF i >= n + 1 - m THEN e[i] ELSE Visit(q[i], e[i + 1], i)]
  <2>2. \A i \in n + 1 - m .. n + 1 : e[i] = IF i > n THEN Stopped(lazy, q) ELSE Visit(q[i], e[i + 1], i)
    BY <2>1
  <2>3. ASSUME NEW i \in n + 1 - (m + 1) .. n + 1
        PROVE  g[i] = IF i > n THEN Stopped(lazy, q) ELSE Visit(q[i], g[i + 1], i)
    <3>1. CASE i > n
      <4>1. i \in n + 1 - m .. n + 1 /\ i >= n + 1 - m
        BY <1>2, <3>1
      <4> QED
        BY <2>2, <3>1, <4>1
    <3>2. CASE i <= n
      <4>1. i + 1 \in n + 1 - (m + 1) .. n + 1 /\ i + 1 >= n + 1 - m /\ ~(i > n)
        BY <1>2, <3>2
      <4>2. g[i + 1] = e[i + 1]
        BY <4>1
      <4>3. i >= n + 1 - m => i \in n + 1 - m .. n + 1
        BY <1>2
      <4> QED
        BY <2>2, <4>1, <4>2, <4>3
    <3> QED
      BY <3>1, <3>2
  <2>4. Visits(g, m + 1)
    <3>1. g = [i \in n + 1 - (m + 1) .. n + 1 |-> g[i]]
      OBVIOUS
    <3> HIDE DEF g
    <3> QED
      BY <2>3, <3>1, Zenon
  <2> HIDE DEF g, Visits
  <2>5. \E f : Visits(f, m + 1)
    BY <2>4
  <2>6. m + 1 \in Nat
    OBVIOUS
  <2> QED
    BY <2>5, <2>6, Zenon
<1>3. PICK e : Visits(e, n)
  <2> HIDE DEF S
  <2>1. 0 .. n \subseteq S
    BY <1>1, <1>2, InductionTo, Zenon
  <2>2. n \in S
    BY <2>1
  <2> QED
    BY <2>2 DEF S
<1> DEFINE pass == CHOOSE f : f = [i \in 1 .. n + 1 |-> IF i > n THEN Stopped(lazy, q) ELSE Visit(q[i], f[i + 1], i)]
<1>4. n + 1 - n = 1
  OBVIOUS
<1>5. pass = [i \in 1 .. n + 1 |-> IF i > n THEN Stopped(lazy, q) ELSE Visit(q[i], pass[i + 1], i)]
  BY <1>3, <1>4, Zenon
<1>6. Pass(q, lazy) = pass[1]
  BY Zenon DEF Pass, n
<1> HIDE DEF pass, Visits
<1>7. \A i \in 1 .. n + 1 : pass[i] = IF i > n THEN Stopped(lazy, q) ELSE Visit(q[i], pass[i + 1], i)
  BY <1>5, Zenon
<1>8. pass[n + 1] = Stopped(lazy, q) /\ \A i \in 1 .. n : pass[i] = Visit(q[i], pass[i + 1], i)
  <2>1. n + 1 \in 1 .. n + 1 /\ n + 1 > n /\ \A i \in 1 .. n : i \in 1 .. n + 1 /\ ~(i > n)
    OBVIOUS
  <2> QED
    BY <1>7, <2>1
<1>9. PassesFrom(pass, q, lazy)
  BY <1>6, <1>8 DEF PassesFrom
<1> QED
  BY <1>9

\* The moves that were delayed are given their speeds one after the other, the nearest first.
LEMMA GivenIsDefined ==
  ASSUME NEW p, NEW peak, Len(p.delayed) \in Nat
  PROVE  \E g : GivesFrom(g, p, peak)
<1> DEFINE last == Len(p.delayed)
           Gives(f, m) == f = [k \in 0 .. m |->
             IF k = 0 THEN [mc |-> peak, junctions |-> p.junctions] ELSE Give(f[k - 1], p.delayed[last + 1 - k])]
           S == {m \in Nat : \E f : Gives(f, m)}
<1>1. 0 \in S
  <2> DEFINE g == [k \in 0 .. 0 |-> [mc |-> peak, junctions |-> p.junctions]]
  <2>1. \A k \in 0 .. 0 : k = 0
    OBVIOUS
  <2>2. Gives(g, 0)
    BY <2>1
  <2> HIDE DEF g, Gives
  <2>3. \E f : Gives(f, 0)
    BY <2>2
  <2>4. 0 \in Nat
    OBVIOUS
  <2> QED
    BY <2>3, <2>4, Zenon
<1>2. ASSUME NEW m \in Nat, m < last, m \in S PROVE m + 1 \in S
  <2>1. PICK e : Gives(e, m)
    BY <1>2
  <2> DEFINE g == [k \in 0 .. m + 1 |-> IF k <= m THEN e[k] ELSE Give(e[k - 1], p.delayed[last + 1 - k])]
  <2>2. \A k \in 0 .. m : e[k] =
          IF k = 0 THEN [mc |-> peak, junctions |-> p.junctions] ELSE Give(e[k - 1], p.delayed[last + 1 - k])
    BY <2>1
  <2>3. ASSUME NEW k \in 0 .. m + 1
        PROVE  g[k] = IF k = 0 THEN [mc |-> peak, junctions |-> p.junctions]
                      ELSE Give(g[k - 1], p.delayed[last + 1 - k])
    <3>1. CASE k = 0
      <4>1. k \in 0 .. m /\ k <= m
        BY <3>1
      <4> QED
        BY <2>2, <3>1, <4>1
    <3>2. CASE k > 0
      <4>1. k - 1 \in 0 .. m + 1 /\ k - 1 <= m /\ k # 0 /\ (k <= m => k \in 0 .. m)
        BY <3>2
      <4>2. g[k - 1] = e[k - 1]
        BY <4>1
      <4> QED
        BY <2>2, <4>1, <4>2
    <3> QED
      BY <3>1, <3>2
  <2>4. Gives(g, m + 1)
    <3>1. g = [k \in 0 .. m + 1 |-> g[k]]
      OBVIOUS
    <3> HIDE DEF g
    <3> QED
      BY <2>3, <3>1, Zenon
  <2> HIDE DEF g, Gives
  <2>5. \E f : Gives(f, m + 1)
    BY <2>4
  <2>6. m + 1 \in Nat
    OBVIOUS
  <2> QED
    BY <2>5, <2>6, Zenon
<1>3. PICK e : Gives(e, last)
  <2> HIDE DEF S
  <2>1. 0 .. last \subseteq S
    BY <1>1, <1>2, InductionTo, Zenon
  <2>2. last \in S
    BY <2>1
  <2> QED
    BY <2>2 DEF S
<1> DEFINE given == CHOOSE f : f = [k \in 0 .. last |->
             IF k = 0 THEN [mc |-> peak, junctions |-> p.junctions] ELSE Give(f[k - 1], p.delayed[last + 1 - k])]
<1>4. given = [k \in 0 .. last |->
        IF k = 0 THEN [mc |-> peak, junctions |-> p.junctions] ELSE Give(given[k - 1], p.delayed[last + 1 - k])]
  BY <1>3, Zenon
<1>5. Propagate(p, peak) = given[last].junctions
  BY Zenon DEF Propagate, last
<1> HIDE DEF given, Gives
<1>6. \A k \in 0 .. last : given[k] =
        IF k = 0 THEN [mc |-> peak, junctions |-> p.junctions] ELSE Give(given[k - 1], p.delayed[last + 1 - k])
  BY <1>4, Zenon
<1>7. /\ given[0] = [mc |-> peak, junctions |-> p.junctions]
      /\ \A k \in 1 .. last : given[k] = Give(given[k - 1], p.delayed[last + 1 - k])
  <2>1. 0 \in 0 .. last /\ \A k \in 1 .. last : k \in 0 .. last /\ ~(k = 0)
    OBVIOUS
  <2> QED
    BY <1>6, <2>1, Zenon
<1>8. GivesFrom(given, p, peak)
  BY <1>5, <1>7 DEF GivesFrom
<1> QED
  BY <1>8

\* One more move is given its speeds.
LEMMA GiveMeets ==
  ASSUME NEW n \in Nat, NEW E \in [1 .. n + 1 -> Nat], NEW J, NEW i \in 1 .. n, NEW k \in Nat, i + k <= n,
         NEW peak \in Nat, NEW acc, GivenBy(J, acc, E, i, k, n, peak), NEW d, DelayIs(d, E, i + k)
  PROVE  Give(acc, d).mc = Lesser(acc.mc, E[i + k]) /\ GivenBy(J, Give(acc, d), E, i, k + 1, n, peak)
<1>19. /\ acc.mc \in Nat /\ (k = 0 => acc.mc = peak) /\ GivenTo(J, acc.junctions, acc.mc, E, i, k, n, peak)
       /\ d.start = E[i + k] /\ d.end = E[i + k + 1] /\ d.index = i + k
  BY DEF GivenBy, DelayIs
<1>1. PICK x, y : x = E[i + k] /\ y = E[i + k + 1] /\ x \in Nat /\ y \in Nat
  OBVIOUS
<1>2. PICK mc : mc = Lesser(acc.mc, x) /\ mc \in Nat
  BY <1>1, <1>19 DEF Lesser
<1>3. PICK u, v : u = Lesser(x, mc) /\ v = Lesser(y, mc) /\ u \in Nat /\ v \in Nat /\ u = mc
  BY <1>1, <1>2 DEF Lesser
<1>4. Least({acc.mc, d.start}) = mc /\ Least({d.start, mc}) = u /\ Least({d.end, mc}) = v
  <2>1. Least({acc.mc, x}) = mc
    BY <1>1, <1>2, <1>19, LeastOfTwo
  <2>2. Least({x, mc}) = u
    BY <1>1, <1>2, <1>3, LeastOfTwo
  <2>3. Least({y, mc}) = v
    BY <1>1, <1>2, <1>3, LeastOfTwo
  <2>4. d.start = x /\ d.end = y
    BY <1>1, <1>19
  <2> QED
    BY <2>1, <2>2, <2>3, <2>4
<1>5. PICK R : R = [acc.junctions EXCEPT ![i + k] = [start |-> u, cruise |-> mc, end |-> v]]
  OBVIOUS
<1>6. Give(acc, d) = [mc |-> mc, junctions |-> R]
  BY <1>4, <1>5, <1>19 DEF Give, Junction
<1>7. Give(acc, d).mc = mc /\ Give(acc, d).junctions = R
  BY <1>6
<1>8. PICK Q : Q = acc.junctions
  OBVIOUS
<1>9. /\ Q \in [1 .. n -> JunctionSpeeds] /\ \A j \in 1 .. n : j < i \/ i + k <= j => Q[j] = J[j]
      /\ \A j \in i .. i + k - 2 : Q[j].end = Q[j + 1].start
      /\ k > 0 => Q[i].start = Lesser(E[i], peak) /\ Q[i + k - 1].end = Lesser(E[i + k], acc.mc)
  BY <1>8, <1>19 DEF GivenTo
<1>10. i + k \in 1 .. n /\ i + k = i + (k + 1) - 1 /\ i + (k + 1) = i + k + 1
  OBVIOUS
<1>11. PICK new : new = [start |-> u, cruise |-> mc, end |-> v]
  OBVIOUS
<1>18. new \in JunctionSpeeds /\ new.start = u /\ new.end = v
  BY <1>2, <1>3, <1>11 DEF JunctionSpeeds
<1>12. R \in [1 .. n -> JunctionSpeeds] /\ R[i + k] = new /\ \A j \in 1 .. n : j # i + k => R[j] = Q[j]
  BY <1>5, <1>8, <1>9, <1>10, <1>11, <1>18
<1>13. \A j \in 1 .. n : j < i \/ i + (k + 1) <= j => R[j] = J[j]
  <2> SUFFICES ASSUME NEW j \in 1 .. n, j < i \/ i + (k + 1) <= j PROVE R[j] = J[j]
    OBVIOUS
  <2>1. j # i + k /\ (j < i \/ i + k <= j)
    OBVIOUS
  <2> QED
    BY <1>9, <1>12, <2>1
<1>14. \A j \in i .. i + (k + 1) - 2 : R[j].end = R[j + 1].start
  <2> SUFFICES ASSUME NEW j \in i .. i + (k + 1) - 2 PROVE R[j].end = R[j + 1].start
    OBVIOUS
  <2>1. j \in 1 .. n /\ j + 1 \in 1 .. n /\ j # i + k /\ k > 0
    OBVIOUS
  <2>2. CASE j = i + k - 1
    <3>1. R[j].end = Lesser(x, acc.mc) /\ R[j + 1].start = u
      BY <1>1, <1>9, <1>12, <1>18, <2>1, <2>2
    <3>2. Lesser(x, acc.mc) = Lesser(acc.mc, x)
      BY <1>1, <1>19 DEF Lesser
    <3> QED
      BY <1>2, <1>3, <3>1, <3>2
  <2>3. CASE j # i + k - 1
    <3>1. j \in i .. i + k - 2 /\ j + 1 # i + k
      BY <2>3
    <3> QED
      BY <1>9, <1>12, <2>1, <3>1
  <2> QED
    BY <2>2, <2>3
<1>15. R[i].start = Lesser(E[i], peak)
  <2>1. CASE k = 0
    <3>1. R[i].start = u /\ x = E[i] /\ acc.mc = peak
      BY <1>1, <1>12, <1>18, <1>19, <2>1
    <3> QED
      BY <1>1, <1>2, <1>3, <3>1 DEF Lesser
  <2>2. CASE k > 0
    <3>1. i # i + k /\ i \in 1 .. n
      BY <2>2
    <3> QED
      BY <1>9, <1>12, <2>2, <3>1
  <2> QED
    BY <2>1, <2>2
<1>16. R[i + (k + 1) - 1].end = Lesser(E[i + (k + 1)], mc)
  BY <1>1, <1>3, <1>10, <1>12, <1>18
<1>17. GivenTo(J, R, mc, E, i, k + 1, n, peak)
  BY <1>12, <1>13, <1>14, <1>15, <1>16 DEF GivenTo
<1>20. k + 1 # 0
  OBVIOUS
<1>21. GivenBy(J, Give(acc, d), E, i, k + 1, n, peak)
  BY <1>2, <1>7, <1>17, <1>20 DEF GivenBy
<1> QED
  BY <1>1, <1>2, <1>7, <1>21

\* g goes through what is given to the moves dl that were delayed, the last K of which begin at i.
Gives(g, dl, J, E, i, K, peak) ==
  /\ E[i + K] <= peak /\ \A j \in i .. i + K - 1 : E[i + K] <= E[j]
  /\ \A k \in 1 .. K : DelayIs(dl[k], E, i + K - k)
  /\ g[0] = [mc |-> peak, junctions |-> J] /\ \A k \in 1 .. K : g[k] = Give(g[k - 1], dl[K + 1 - k])

\* All that was delayed is given its speeds, the nearest first.
LEMMA GivesDownTo ==
  ASSUME NEW n \in Nat, NEW E \in [1 .. n + 1 -> Nat], NEW i \in 1 .. n + 1, NEW K \in Nat, i + K <= n + 1,
         NEW J \in [1 .. n -> JunctionSpeeds], NEW peak \in Nat, NEW dl, NEW g, Gives(g, dl, J, E, i, K, peak)
  PROVE  GivenBy(J, g[K], E, i, K, n, peak) /\ (K > 0 => E[i + K] <= g[K].mc)
<1>7. /\ E[i + K] <= peak /\ \A j \in i .. i + K - 1 : E[i + K] <= E[j]
      /\ \A k \in 1 .. K : DelayIs(dl[k], E, i + K - k)
      /\ g[0] = [mc |-> peak, junctions |-> J] /\ \A k \in 1 .. K : g[k] = Give(g[k - 1], dl[K + 1 - k])
  BY DEF Gives
<1> DEFINE S == {k \in Nat : GivenBy(J, g[k], E, i, k, n, peak) /\ (K > 0 => E[i + K] <= g[k].mc)}
<1>3. 0 \in S
  <2>1. g[0].mc = peak /\ g[0].junctions = J
    BY <1>7
  <2>2. GivenTo(J, J, peak, E, i, 0, n, peak)
    BY DEF GivenTo
  <2>3. GivenBy(J, g[0], E, i, 0, n, peak)
    BY <2>1, <2>2 DEF GivenBy
  <2> QED
    BY <1>7, <2>1, <2>3
<1>4. ASSUME NEW k \in Nat, k < K, k \in S PROVE k + 1 \in S
  <2>0. k < K
    BY <1>4
  <2>1. GivenBy(J, g[k], E, i, k, n, peak) /\ E[i + K] <= g[k].mc
    BY <1>4
  <2>2. PICK d : d = dl[K - k]
    OBVIOUS
  <2>3. DelayIs(d, E, i + k)
    <3>1. i \in Nat /\ K \in Nat
      OBVIOUS
    <3>2. K - k \in 1 .. K
      BY <2>0, <3>1
    <3>3. i + K - (K - k) = i + k
      BY <3>1
    <3> QED
      BY <1>7, <2>2, <3>2, <3>3
  <2>4. k + 1 \in 1 .. K /\ (k + 1) - 1 = k /\ K + 1 - (k + 1) = K - k /\ i + k <= n /\ i \in 1 .. n
    BY <2>0
  <2>5. g[k + 1] = Give(g[k], d)
    BY <1>7, <2>2, <2>4
  <2>6. PICK acc : acc = g[k]
    OBVIOUS
  <2>7. Give(acc, d).mc = Lesser(acc.mc, E[i + k]) /\ GivenBy(J, Give(acc, d), E, i, k + 1, n, peak)
    <3> HIDE DEF S
    <3>1. GivenBy(J, acc, E, i, k, n, peak)
      BY <2>1, <2>6
    <3> QED
      BY <2>3, <2>4, <3>1, GiveMeets, Zenon
  <2>8. E[i + k] \in Nat /\ E[i + K] \in Nat /\ E[i + K] <= E[i + k]
    <3>2. i \in Nat /\ i >= 1 /\ K \in Nat /\ i + K <= n + 1
      OBVIOUS
    <3>3. i + k \in i .. i + K - 1
      BY <2>0, <3>2
    <3>4. i + k \in 1 .. n + 1 /\ i + K \in 1 .. n + 1
      BY <2>0, <3>2
    <3>1. i + k \in i .. i + K - 1 /\ i + k \in 1 .. n + 1 /\ i + K \in 1 .. n + 1
      BY <3>3, <3>4
    <3> QED
      BY <1>7, <3>1
  <2>9. E[i + K] <= g[k + 1].mc
    <3>1. g[k].mc \in Nat
      BY <2>1 DEF GivenBy
    <3> QED
      BY <2>1, <2>5, <2>6, <2>7, <2>8, <3>1 DEF Lesser
  <2>10. GivenBy(J, g[k + 1], E, i, k + 1, n, peak)
    BY <2>5, <2>6, <2>7
  <2>11. k + 1 \in Nat
    OBVIOUS
  <2> QED
    BY <2>9, <2>10, <2>11
<1>5. K \in S
  <2> HIDE DEF S
  <2>1. 0 .. K \subseteq S
    BY <1>3, <1>4, InductionTo
  <2> QED
    BY <2>1
<1> QED
  BY <1>5

\* All that was delayed is given speeds that meet, down to the one it must end with.
LEMMA PropagateMeets ==
  ASSUME NEW n \in Nat, NEW E \in [1 .. n + 1 -> Nat], NEW i \in 1 .. n + 1, NEW p, Delays(p, E, i),
         NEW L, L = Len(p.delayed), NEW f, f = i + L, f <= n + 1,
         NEW J, J = p.junctions, J \in [1 .. n -> JunctionSpeeds],
         NEW peak \in Nat, E[f] <= peak, \A j \in i .. f : E[f] <= E[j]
  PROVE  \E mc \in Nat : (L > 0 => E[f] <= mc) /\ GivenTo(J, Propagate(p, peak), mc, E, i, L, n, peak)
<1>1. Len(p.delayed) \in Nat
  BY DEF Delays
<1>2. PICK g : GivesFrom(g, p, peak)
  BY <1>1, GivenIsDefined
<1>6. L \in Nat
  BY <1>1
<1>8. \A j \in i .. i + L - 1 : E[i + L] <= E[j]
  <2>1. \A j \in i .. i + L - 1 : j \in i .. f
    BY <1>6
  <2> QED
    BY <2>1
<1>9. PICK K : K = L
  OBVIOUS
<1>7. /\ K \in Nat /\ i + K <= n + 1 /\ J \in [1 .. n -> JunctionSpeeds] /\ E[i + K] <= peak
      /\ \A j \in i .. i + K - 1 : E[i + K] <= E[j]
      /\ \A k \in 1 .. K : DelayIs(p.delayed[k], E, i + K - k)
      /\ Propagate(p, peak) = g[K].junctions /\ g[0] = [mc |-> peak, junctions |-> J]
      /\ \A k \in 1 .. K : g[k] = Give(g[k - 1], p.delayed[K + 1 - k])
  BY <1>1, <1>2, <1>6, <1>8, <1>9 DEF Delays, GivesFrom
<1>10. GivenBy(J, g[K], E, i, K, n, peak) /\ (K > 0 => E[i + K] <= g[K].mc)
  <2>1. Gives(g, p.delayed, J, E, i, K, peak)
    BY <1>7 DEF Gives
  <2> QED
    BY <1>7, <2>1, GivesDownTo
<1>11. g[K].mc \in Nat /\ (K > 0 => E[i + K] <= g[K].mc) /\ GivenTo(J, Propagate(p, peak), g[K].mc, E, i, K, n, peak)
  BY <1>7, <1>10 DEF GivenBy
<1> QED
  BY <1>9, <1>11

\* What a step of the pass finds of a move.
LEMMA StartIs ==
  ASSUME NEW q, NEW E, NEW N, QueueFits(q), SpeedsOf(q, E, N), NEW m \in 1 .. Len(q),
         NEW p, p.next_end = E[m + 1], p.next_smoothed = N[m + 1]
  PROVE  /\ E[m] \in Nat /\ N[m] \in Nat /\ E[m + 1] \in Nat /\ N[m + 1] \in Nat
         /\ Start(q[m], p) = E[m] /\ Smoothed(q[m], p) = N[m]
         /\ ReachableSmoothed(q[m], p) = N[m + 1] + q[m].smooth_delta
         /\ E[m] = Lesser(q[m].max_start, E[m + 1] + q[m].delta)
         /\ N[m] = Lesser(q[m].max_smoothed, N[m + 1] + q[m].smooth_delta)
<1>1. /\ E[m] = Lesser(q[m].max_start, E[m + 1] + q[m].delta)
      /\ N[m] = Lesser(q[m].max_smoothed, N[m + 1] + q[m].smooth_delta)
  BY DEF SpeedsOf
<1>2. E[m] \in Nat /\ N[m] \in Nat /\ E[m + 1] \in Nat /\ N[m + 1] \in Nat
  <2>1. m \in 1 .. Len(q) + 1 /\ m + 1 \in 1 .. Len(q) + 1
    BY DEF QueueFits
  <2> QED
    BY <2>1 DEF SpeedsOf
<1>3. q[m].max_start \in Nat /\ q[m].delta \in Nat /\ q[m].max_smoothed \in Nat /\ q[m].smooth_delta \in Nat
  BY MoveIs
<1>4. E[m + 1] + q[m].delta \in Nat /\ N[m + 1] + q[m].smooth_delta \in Nat
  <2>1. \A a, b \in Nat : a + b \in Nat
    OBVIOUS
  <2> QED
    BY <1>2, <1>3, <2>1, Zenon
<1>5. ReachableSmoothed(q[m], p) = N[m + 1] + q[m].smooth_delta
  BY DEF ReachableSmoothed
<1>6. Start(q[m], p) = Least({q[m].max_start, E[m + 1] + q[m].delta})
  BY DEF Start
<1>7. Smoothed(q[m], p) = Least({q[m].max_smoothed, N[m + 1] + q[m].smooth_delta})
  BY <1>5 DEF Smoothed
<1>8. Start(q[m], p) = E[m]
  BY <1>1, <1>3, <1>4, <1>6, LeastOfTwo
<1>9. Smoothed(q[m], p) = N[m]
  BY <1>1, <1>3, <1>4, <1>7, LeastOfTwo
<1> QED
  BY <1>1, <1>2, <1>5, <1>8, <1>9

\* A move that is not delayed is given a speed between those of its neighbours and the peak.
LEMMA CruiseIs ==
  ASSUME NEW q, NEW E, NEW N, QueueFits(q), SpeedsOf(q, E, N), NEW m \in 1 .. Len(q), SpeedsFit(q, E, N, m),
         NEW r \in Passes(Len(q)), r.next_end = E[m + 1], r.next_smoothed = N[m + 1], ~r.update, m <= r.count
  PROVE  \E new : CruisesTo(q, r, m, E, new)
<1>1. /\ E[m] \in Nat /\ N[m] \in Nat /\ E[m + 1] \in Nat /\ N[m + 1] \in Nat /\ Start(q[m], r) = E[m]
      /\ E[m] = Lesser(q[m].max_start, E[m + 1] + q[m].delta)
  BY StartIs
<1>2. q[m].delta \in Nat /\ q[m].cruise \in Nat /\ q[m].max_start \in Nat /\ q[m].max_start <= q[m].cruise
  BY MoveIs
<1>3. PICK x, y, c, pk, d, ms : /\ x = E[m] /\ y = E[m + 1] /\ c = q[m].cruise /\ pk = r.peak
                                /\ d = q[m].delta /\ ms = q[m].max_start
  OBVIOUS
<1>4. PICK avg : avg = (E[m] + (E[m + 1] + q[m].delta)) \div 2
  OBVIOUS
<1>5. /\ x \in Nat /\ y \in Nat /\ c \in Nat /\ pk \in Nat /\ d \in Nat /\ x <= c /\ y <= c
      /\ x <= y + d /\ y <= x + d
  <2>1. x \in Nat /\ y \in Nat /\ c \in Nat /\ d \in Nat /\ ms \in Nat /\ ms <= c
    BY <1>1, <1>2, <1>3, Zenon
  <2>2. pk \in Nat
    BY <1>3 DEF Passes
  <2>3. x = Lesser(ms, y + d) /\ y <= c /\ y <= x + d
    BY <1>1, <1>3, Zenon DEF SpeedsFit
  <2> QED
    BY <2>1, <2>2, <2>3 DEF Lesser
<1>6. avg \in Nat /\ x <= avg /\ y <= avg
  <2>1. PICK sum : sum = E[m] + (E[m + 1] + q[m].delta)
    OBVIOUS
  <2>2. sum = x + (y + d)
    BY <1>3, <2>1
  <2>3. sum \in Nat /\ 2 * x <= sum /\ 2 * y <= sum
    BY <1>5, <2>2
  <2> QED
    BY <1>4, <1>5, <2>1, <2>3, HalfIsAbove
<1>7. PICK cr : cr = Lesser(avg, Lesser(c, pk))
  OBVIOUS
<1>8. cr \in Nat /\ Lesser(x, cr) = Lesser(x, pk) /\ Lesser(y, cr) = Lesser(y, pk) /\ Lesser(x, pk) \in Nat /\ Lesser(y, pk) \in Nat
  BY <1>5, <1>6, <1>7 DEF Lesser
<1>9. Least({avg, c, pk}) = cr
  BY <1>5, <1>6, <1>7, LeastOfSome
<1>10. Least({x, cr}) = Lesser(x, pk) /\ Least({y, cr}) = Lesser(y, pk)
  <2>1. Least({x, cr}) = Lesser(x, cr)
    BY <1>5, <1>8, LeastOfTwo
  <2>2. Least({y, cr}) = Lesser(y, cr)
    BY <1>5, <1>8, LeastOfTwo
  <2> QED
    BY <1>8, <2>1, <2>2
<1>11. PICK new : new = [start |-> Lesser(x, pk), cruise |-> cr, end |-> Lesser(y, pk)]
  OBVIOUS
<1>12. new \in JunctionSpeeds /\ new.start = Lesser(x, pk) /\ new.end = Lesser(y, pk)
  BY <1>8, <1>11 DEF JunctionSpeeds
<1>13. r.next_end = y /\ Start(q[m], r) = x /\ r.next_end + q[m].delta = E[m + 1] + q[m].delta
  BY <1>1, <1>3
<1>14. Cruise(q[m], r, m) = [r EXCEPT !.junctions[m] = new]
  <2>1. ~(r.update \/ m > r.count)
    BY DEF Passes
  <2>2. Least({(Start(q[m], r) + (r.next_end + q[m].delta)) \div 2, q[m].cruise, r.peak}) = cr
    BY <1>3, <1>4, <1>9, <1>13
  <2>3. Junction(Least({Start(q[m], r), cr}), cr, Least({r.next_end, cr})) = new
    BY <1>10, <1>11, <1>13 DEF Junction
  <2> QED
    BY <2>1, <2>2, <2>3, Zenon DEF Cruise
<1> QED
  BY <1>3, <1>12, <1>14 DEF CruisesTo

\* The new peak is no lower than what comes before and behind it.
LEMMA PeakIs ==
  ASSUME NEW q, NEW E, NEW N, QueueFits(q), SpeedsOf(q, E, N), NEW m \in 1 .. Len(q), SpeedsFit(q, E, N, m),
         NEW p, p.next_end = E[m + 1], p.next_smoothed = N[m + 1], Speeding(q, N, m)
  PROVE  /\ Least({q[m].cruise, (Smoothed(q[m], p) + ReachableSmoothed(q[m], p)) \div 2}) = PeakOf(q, N, m)
         /\ PeakOf(q, N, m) \in Nat /\ N[m] <= PeakOf(q, N, m) /\ N[m + 1] <= PeakOf(q, N, m)
<1>1. /\ E[m] \in Nat /\ N[m] \in Nat /\ E[m + 1] \in Nat /\ N[m + 1] \in Nat
      /\ Smoothed(q[m], p) = N[m] /\ ReachableSmoothed(q[m], p) = N[m + 1] + q[m].smooth_delta
      /\ N[m] = Lesser(q[m].max_smoothed, N[m + 1] + q[m].smooth_delta)
  BY StartIs
<1>2. PICK x, y, z, e, c, sd, mm, ms :
        /\ x = N[m] /\ y = N[m + 1] /\ z = E[m + 1] /\ e = E[m] /\ c = q[m].cruise /\ sd = q[m].smooth_delta
        /\ mm = q[m].max_smoothed /\ ms = q[m].max_start
  OBVIOUS
<1>3. /\ x \in Nat /\ y \in Nat /\ z \in Nat /\ e \in Nat /\ c \in Nat /\ sd \in Nat /\ mm \in Nat /\ ms \in Nat /\ mm <= ms /\ ms <= c
  BY <1>1, <1>2, MoveIs
<1>4. y <= z /\ z <= c /\ y <= mm + sd /\ mm < y + sd /\ x = Lesser(mm, y + sd)
  BY <1>1, <1>2, Zenon DEF SpeedsFit, Speeding
<1>5. PICK sum : sum = x + (y + sd)
  OBVIOUS
<1>6. sum \in Nat /\ 2 * x <= sum /\ 2 * y <= sum
  BY <1>3, <1>4, <1>5 DEF Lesser
<1>7. PICK half : half = sum \div 2 /\ half \in Nat /\ x <= half /\ y <= half
  BY <1>3, <1>6, HalfIsAbove
<1>8. Least({c, half}) = Lesser(c, half)
  BY <1>3, <1>7, LeastOfTwo
<1>9. PeakOf(q, N, m) = Lesser(c, half)
  BY <1>2, <1>5, <1>7 DEF PeakOf
<1>10. Least({q[m].cruise, (Smoothed(q[m], p) + ReachableSmoothed(q[m], p)) \div 2}) = Least({c, half})
  BY <1>1, <1>2, <1>5, <1>7
<1>11. x <= c /\ y <= c
  BY <1>3, <1>4 DEF Lesser
<1>12. Lesser(c, half) \in Nat /\ x <= Lesser(c, half) /\ y <= Lesser(c, half)
  BY <1>3, <1>7, <1>11 DEF Lesser
<1> QED
  BY <1>2, <1>8, <1>9, <1>10, <1>12

\* Where the moves end that wait behind the move m.
EndFits(n, m, L, f) ==
  /\ (f = m + 1 => L = 0) /\ m + (L + 1) = f
  /\ f \in m + 1 .. n + 1 /\ f \in 1 .. n + 1 /\ m + 1 \in m + 1 .. f
  /\ m + 1 \in 1 .. n + 1 /\ f - 1 \in 1 .. n /\ (f - 1) + 1 = f /\ (f = m + 1 => f - 1 = m)
  /\ (f # m + 1 => f - 1 \in m + 1 .. f - 1)
  /\ (f # n + 1 <=> f <= n) /\ (f # n + 1 => f - 1 < n /\ f \in 1 .. n)
  /\ \A j \in m + 1 .. f : j \in 1 .. n + 1 /\ j - 1 \in 1 .. n /\ (j - 1) + 1 = j

LEMMA EndIs ==
  ASSUME NEW n \in Nat, NEW m \in 1 .. n, NEW L \in Nat, NEW f, f = m + 1 + L, f <= n + 1
  PROVE  EndFits(n, m, L, f)
BY DEF EndFits

\* A move that need not slow down, before one that must: the speed between them is settled.
LEMMA BottomIs ==
  ASSUME NEW q, NEW E, NEW N, QueueFits(q), SpeedsOf(q, E, N), \A i \in 1 .. Len(q) : SpeedsFit(q, E, N, i),
         NEW m \in 1 .. Len(q), Speeding(q, N, m), NEW p, NEW f, f = m + 1 + Len(p.delayed),
         Waits(p, q, E, N, m + 1, f), p.delayed # <<>> \/ N[m + 1] < q[m].max_smoothed + q[m].smooth_delta
  PROVE  Bottom(p, q, E, N, m, f)
<1>1. PICK n, L : n = Len(q) /\ L = Len(p.delayed)
  OBVIOUS
<1>2. n \in Nat
  BY <1>1 DEF QueueFits
<1>3. p.delayed \in Seq(DelayedMoves) /\ f <= n + 1
  BY <1>1 DEF Waits, Delays
<1>4. L \in Nat /\ (L = 0 => p.delayed = <<>>)
  BY <1>1, <1>3
<1>5. m \in 1 .. n /\ f = m + 1 + L /\ f <= n + 1
  BY <1>1, <1>3
<1>16. EndFits(n, m, L, f)
  BY <1>2, <1>4, <1>5, EndIs
<1>6. /\ f \in m + 1 .. n + 1 /\ f \in 1 .. n + 1 /\ m + 1 \in m + 1 .. f /\ (f = m + 1 => L = 0)
      /\ m + 1 \in 1 .. n + 1 /\ f - 1 \in 1 .. n /\ (f - 1) + 1 = f /\ (f = m + 1 => f - 1 = m)
      /\ (f # m + 1 => f - 1 \in m + 1 .. f - 1)
      /\ (f # n + 1 <=> f <= n) /\ (f # n + 1 => f - 1 < n /\ f \in 1 .. n)
      /\ \A j \in m + 1 .. f : j \in 1 .. n + 1 /\ j - 1 \in 1 .. n /\ (j - 1) + 1 = j
  BY <1>16, Zenon DEF EndFits
<1>7. \A j \in 1 .. n + 1 : E[j] \in Nat /\ N[j] \in Nat
  BY <1>1 DEF SpeedsOf
<1>8. /\ \A j \in m + 1 .. f - 1 : ~Speeding(q, N, j)
      /\ \A j \in m + 1 .. f : N[f] <= N[j]
      /\ f <= n => Speeding(q, N, f)
      /\ N[f] <= p.peak
  BY <1>1 DEF Waits
<1>9. \A j \in 1 .. n : SpeedsFit(q, E, N, j)
  BY <1>1
<1>10. N[f] = E[f] /\ (f <= n => E[f] = q[f].max_start)
  <2>1. CASE f = n + 1
    <3>1. E[f] = 0 /\ N[f] = 0
      BY <1>1, <2>1 DEF SpeedsOf
    <3>2. ~(f <= n)
      BY <1>6, <2>1
    <3> QED
      BY <3>1, <3>2
  <2>2. CASE f # n + 1
    <3>1. PICK g : g = f - 1
      OBVIOUS
    <3>2. g \in 1 .. n /\ g < n /\ g + 1 = f /\ f <= n /\ (f = m + 1 => g = m) /\ (f # m + 1 => g \in m + 1 .. f - 1)
      BY <1>6, <2>2, <3>1
    <3>3. Speeding(q, N, f)
      BY <1>8, <3>2
    <3>4. ~Speeding(q, N, g) \/ N[g + 1] < q[g].max_smoothed + q[g].smooth_delta
      <4>1. CASE f = m + 1
        <5>1. p.delayed = <<>> /\ g = m
          BY <1>4, <1>6, <3>2, <4>1
        <5> QED
          BY <5>1
      <4>2. CASE f # m + 1
        BY <1>8, <3>2, <4>2
      <4> QED
        BY <4>1, <4>2
    <3>5. SpeedsFit(q, E, N, g) /\ Speeding(q, N, g + 1) /\ g < Len(q)
      BY <1>1, <1>9, <3>2, <3>3
    <3>6. N[g + 1] = E[g + 1] /\ E[g + 1] = q[g + 1].max_start
      BY <3>4, <3>5, Zenon DEF SpeedsFit
    <3> QED
      BY <3>2, <3>6
  <2> QED
    BY <2>1, <2>2
<1>11. E[f] \in Nat
  BY <1>6, <1>7
<1>12. ASSUME NEW j \in m + 1 .. f PROVE N[j] <= E[j] /\ N[f] <= N[j] /\ N[j] \in Nat /\ E[j] \in Nat
  <2>1. PICK g : g = j - 1
    OBVIOUS
  <2>2. g \in 1 .. n /\ g + 1 = j /\ j \in 1 .. n + 1
    BY <1>6, <2>1
  <2>3. N[g + 1] <= E[g + 1]
    BY <1>9, <2>2 DEF SpeedsFit
  <2> QED
    BY <1>7, <1>8, <2>2, <2>3
<1>13. \A j \in m + 1 .. f : E[f] <= E[j]
  <2> SUFFICES ASSUME NEW j \in m + 1 .. f PROVE E[f] <= E[j]
    OBVIOUS
  <2>1. PICK x, y, z : x = N[j] /\ y = E[j] /\ z = E[f]
    OBVIOUS
  <2>2. x <= y /\ z <= x /\ x \in Nat /\ y \in Nat /\ z \in Nat
    BY <1>10, <1>11, <1>12, <2>1
  <2>3. z <= y
    BY <2>2
  <2> QED
    BY <2>1, <2>3
<1>14. E[f] <= N[m + 1]
  <2>1. m + 1 \in m + 1 .. f
    BY <1>6
  <2> QED
    BY <1>10, <1>12, <2>1
<1>15. E[f] <= p.peak
  BY <1>8, <1>10
<1> QED
  BY <1>1, <1>4, <1>6, <1>10, <1>11, <1>13, <1>14, <1>15 DEF Bottom

\* The moves that waited meet those behind, and the last one that goes ends at the speed it ended at.
LEMMA MeetsAgain ==
  ASSUME NEW n \in Nat, NEW E \in [1 .. n + 1 -> Nat], NEW m \in 1 .. n, NEW L \in Nat, NEW f, f = m + 1 + L,
         NEW c \in 0 .. n, NEW J, NEW R, NEW mc \in Nat, NEW peak \in Nat,
         NEW pk \in Nat, NEW b \in Nat, GivenTo(J, R, mc, E, m + 1, L, n, peak), L > 0 => E[f] <= mc,
         E[f] <= peak, E[f] <= pk,
         MeetsUpTo(J, E, f, c, b, pk)
  PROVE  MeetsUpTo(R, E, m + 1, c, b, peak)
<1>12. f <= c + 1
  BY DEF MeetsUpTo
<1>1. PICK x : x = E[f] /\ x \in Nat
  <2>1. f \in 1 .. n + 1
    BY <1>12
  <2> QED
    BY <2>1
<1>2. Lesser(x, pk) = x /\ Lesser(x, peak) = x /\ (L > 0 => Lesser(x, mc) = x)
  BY <1>1 DEF Lesser
<1>3. /\ \A j \in 1 .. n : j < m + 1 \/ f <= j => R[j] = J[j]
      /\ \A j \in m + 1 .. f - 2 : R[j].end = R[j + 1].start
      /\ L > 0 => R[m + 1].start = Lesser(E[m + 1], peak) /\ R[f - 1].end = x
  <2>1. m + 1 + L = f
    OBVIOUS
  <2>2. /\ \A j \in 1 .. n : j < m + 1 \/ m + 1 + L <= j => R[j] = J[j]
        /\ \A j \in m + 1 .. m + 1 + L - 2 : R[j].end = R[j + 1].start
        /\ L > 0 => R[m + 1].start = Lesser(E[m + 1], peak) /\ R[m + 1 + L - 1].end = Lesser(E[m + 1 + L], mc)
    BY Zenon DEF GivenTo
  <2> QED
    BY <1>1, <1>2, <2>1, <2>2
<1>4. f <= c + 1 /\ (f <= c => J[f].start = x /\ J[c].end = b)
  BY <1>1, <1>2 DEF MeetsUpTo
<1>5. f = c + 1 => b = x
  BY <1>1, <1>2 DEF MeetsUpTo
<1>10. \A j \in f .. c - 1 : J[j].end = J[j + 1].start
  BY DEF MeetsUpTo
<1>6. ASSUME m + 1 <= c PROVE R[m + 1].start = Lesser(E[m + 1], peak)
  <2>1. CASE L = 0
    <3>1. f = m + 1 /\ f <= c /\ f \in 1 .. n /\ f <= f
      BY <1>6, <2>1
    <3> QED
      BY <1>1, <1>2, <1>3, <1>4, <3>1
  <2>2. CASE L > 0
    BY <1>3, <2>2
  <2> QED
    BY <2>1, <2>2
<1>7. ASSUME m + 1 <= c PROVE R[c].end = b
  <2>1. CASE f <= c
    <3>1. c \in 1 .. n
      BY <2>1
    <3> QED
      BY <1>3, <1>4, <2>1, <3>1
  <2>2. CASE f = c + 1
    <3>1. L > 0 /\ f - 1 = c
      BY <1>7, <2>2
    <3> QED
      BY <1>3, <1>5, <2>2, <3>1
  <2> QED
    BY <1>12, <2>1, <2>2
<1>8. m + 1 = c + 1 => b = Lesser(E[m + 1], peak)
  <2> SUFFICES ASSUME m + 1 = c + 1 PROVE b = Lesser(E[m + 1], peak)
    OBVIOUS
  <2>1. f = m + 1 /\ f = c + 1
    BY <1>4
  <2> QED
    BY <1>1, <1>2, <1>5, <2>1
<1>9. ASSUME NEW j \in m + 1 .. c - 1 PROVE R[j].end = R[j + 1].start
  <2>1. CASE j < f - 1
    <3>1. j \in m + 1 .. f - 2
      BY <2>1
    <3> QED
      BY <1>3, <3>1
  <2>2. CASE j = f - 1
    <3>1. L > 0 /\ f <= c /\ j + 1 = f /\ f \in 1 .. n /\ f <= f
      BY <2>2
    <3> QED
      BY <1>3, <1>4, <2>2, <3>1
  <2>3. CASE j > f - 1
    <3>1. j \in f .. c - 1 /\ j \in 1 .. n /\ j + 1 \in 1 .. n /\ f <= j /\ f <= j + 1
      BY <2>3
    <3> QED
      BY <1>3, <1>10, <3>1
  <2> QED
    BY <2>1, <2>2, <2>3
<1>11. m + 1 <= c + 1
  BY <1>4
<1> QED
  BY <1>6, <1>7, <1>8, <1>9, <1>11 DEF MeetsUpTo

\* Where the moves of the rest of a queue are in it.
LEMMA ShiftIs ==
  ASSUME NEW n \in Nat, NEW m \in 1 .. n, NEW j \in 1 .. n - m + 1
  PROVE  j + m - 1 \in 1 .. n /\ j + m - 1 + 1 = j + 1 + m - 1 /\ j \in 1 .. n - m + 2 /\ j + 1 \in 1 .. n - m + 2
OBVIOUS

\* The rest of the queue is settled where it is cut.
LEMMA CutSettles ==
  ASSUME NEW q, NEW E, NEW N, QueueFits(q), SpeedsOf(q, E, N), NEW m \in 1 .. Len(q), Speeding(q, N, m),
         NEW f \in m + 1 .. Len(q), Speeding(q, N, f), E[f] = N[f], E[f] = q[f].max_start,
         \A j \in m + 1 .. f - 1 : ~Speeding(q, N, j),
         f = m + 1 => N[m + 1] < q[m].max_smoothed + q[m].smooth_delta
  PROVE  Settled(SubSeq(q, m, Len(q)), Lesser(E[m], PeakOf(q, N, m)))
<1>1. PICK n, Q, k, len : n = Len(q) /\ Q = SubSeq(q, m, n) /\ k = f - m + 1 /\ len = n - m + 1
  OBVIOUS
<1>2. n \in Nat /\ m \in 1 .. n /\ f \in m + 1 .. n /\ q \in Seq(QueuedMoves)
  BY <1>1 DEF QueueFits
<1>3. len \in Nat /\ k \in 2 .. len /\ k \in 1 .. len /\ len \in 1 .. n
  BY <1>1, <1>2
<1>4. Len(Q) = len /\ \A j \in 1 .. len : Q[j] = q[j + m - 1]
  <2>1. Q \in Seq(QueuedMoves) /\ Len(Q) = len /\ \A j \in 1 .. len : Q[j] = q[m + j - 1]
    BY <1>1, <1>2
  <2>2. \A j \in 1 .. len : m + j - 1 = j + m - 1
    BY <1>2, <1>3
  <2> QED
    BY <2>1, <2>2
<1> DEFINE A == [j \in 1 .. len + 1 |-> E[j + m - 1]]
           B == [j \in 1 .. len + 1 |-> N[j + m - 1]]
<1>5. PICK e, s : e = A /\ s = B
  OBVIOUS
<1>6. \A j \in 1 .. len + 1 : /\ e[j] = E[j + m - 1] /\ s[j] = N[j + m - 1]
                              /\ E[j + m - 1] \in Nat /\ N[j + m - 1] \in Nat
  <2>1. \A j \in 1 .. len + 1 : j + m - 1 \in 1 .. n + 1
    BY <1>1, <1>2
  <2>2. \A j \in 1 .. n + 1 : E[j] \in Nat /\ N[j] \in Nat
    BY <1>1 DEF SpeedsOf
  <2> QED
    BY <1>5, <2>1, <2>2
<1>7. e \in [1 .. len + 1 -> Nat] /\ s \in [1 .. len + 1 -> Nat]
  BY <1>5, <1>6
<1> HIDE DEF A, B
<1>8. ASSUME NEW j \in 1 .. len
      PROVE  /\ e[j] = Lesser(Q[j].max_start, e[j + 1] + Q[j].delta)
             /\ s[j] = Lesser(Q[j].max_smoothed, s[j + 1] + Q[j].smooth_delta)
             /\ s[j] <= Q[j].max_smoothed /\ s[j] <= s[j + 1] + Q[j].smooth_delta
             /\ (Speeding(Q, s, j) <=> Speeding(q, N, j + m - 1))
             /\ Q[j] = q[j + m - 1] /\ j + m - 1 \in 1 .. n
  <2>8. j \in 1 .. n - m + 1
    BY <1>1
  <2>10. len + 1 = n - m + 2
    BY <1>1, <1>2
  <2>9. j + m - 1 \in 1 .. n /\ j + m - 1 + 1 = j + 1 + m - 1 /\ j \in 1 .. len + 1 /\ j + 1 \in 1 .. len + 1
    BY <1>2, <2>8, <2>10, ShiftIs
  <2>1. PICK g : g = j + m - 1
    OBVIOUS
  <2>2. g \in 1 .. n /\ g + 1 = j + 1 + m - 1 /\ j \in 1 .. len + 1 /\ j + 1 \in 1 .. len + 1
    BY <2>1, <2>9
  <2>3. Q[j] = q[g] /\ e[j] = E[g] /\ s[j] = N[g] /\ e[j + 1] = E[g + 1] /\ s[j + 1] = N[g + 1]
    BY <1>4, <1>6, <2>1, <2>2
  <2>4. /\ E[g] = Lesser(q[g].max_start, E[g + 1] + q[g].delta)
        /\ N[g] = Lesser(q[g].max_smoothed, N[g + 1] + q[g].smooth_delta)
    BY <1>1, <2>2 DEF SpeedsOf
  <2>5. q[g].max_smoothed \in Nat /\ q[g].smooth_delta \in Nat /\ N[g + 1] \in Nat
    <3>1. g \in 1 .. Len(q)
      BY <1>1, <2>2
    <3> QED
      BY <1>6, <2>2, <3>1, MoveIs
  <2>6. N[g] <= q[g].max_smoothed /\ N[g] <= N[g + 1] + q[g].smooth_delta
    BY <2>4, <2>5 DEF Lesser
  <2>7. Speeding(Q, s, j) <=> Speeding(q, N, g)
    BY <2>3 DEF Speeding
  <2> QED
    BY <2>1, <2>2, <2>3, <2>4, <2>6, <2>7
<1>9. k + m - 1 = f /\ 1 + m - 1 = m /\ 1 \in 1 .. len
  <2>1. m \in Nat /\ f \in Nat /\ 1 <= len
    BY <1>2, <1>3
  <2>2. 1 \in 1 .. len
    BY <1>3, <2>1
  <2>3. 1 + m - 1 = m
    BY <2>1
  <2>4. f - m + 1 + m - 1 = f
    BY <2>1
  <2> QED
    BY <1>1, <2>2, <2>3, <2>4
<1>10. s[len + 1] = 0
  <2>1. len + 1 \in 1 .. len + 1 /\ len + 1 + m - 1 = n + 1
    BY <1>1, <1>2, <1>3
  <2>2. N[n + 1] = 0
    BY <1>1 DEF SpeedsOf
  <2> QED
    BY <1>6, <2>1, <2>2
<1>11. \A j \in 1 .. len : s[j] <= Q[j].max_smoothed /\ s[j] <= s[j + 1] + Q[j].smooth_delta
  BY <1>8
<1>12. Speeding(Q, s, k) /\ e[k] = Q[k].max_start /\ s[k] = Q[k].max_start /\ Q[k].max_smoothed = Q[k].max_start
  <2>1. k \in 1 .. len + 1 /\ k \in 1 .. len
    BY <1>3
  <2>2. Q[k] = q[f] /\ e[k] = E[f] /\ s[k] = N[f] /\ Speeding(Q, s, k) /\ s[k] <= Q[k].max_smoothed
    BY <1>6, <1>8, <1>9, <2>1
  <2>3. f \in 1 .. Len(q)
    BY <1>1, <1>2
  <2>4. q[f].max_smoothed <= q[f].max_start /\ q[f].max_smoothed \in Nat /\ q[f].max_start \in Nat
    BY <2>3, MoveIs
  <2>5. PICK x, y : x = q[f].max_smoothed /\ y = q[f].max_start
    OBVIOUS
  <2>6. x <= y /\ y <= x /\ x \in Nat /\ y \in Nat
    BY <2>2, <2>4, <2>5
  <2>7. x = y
    BY <2>6
  <2> QED
    BY <2>2, <2>5, <2>7
<1>13. \A j \in 1 .. k - 1 : /\ e[j] = Lesser(Q[j].max_start, e[j + 1] + Q[j].delta)
                              /\ s[j] = Lesser(Q[j].max_smoothed, s[j + 1] + Q[j].smooth_delta)
  <2>1. \A j \in 1 .. k - 1 : j \in 1 .. len
    BY <1>3
  <2> QED
    BY <1>8, <2>1
<1>14. Speeding(Q, s, 1) /\ \A j \in 2 .. k - 1 : ~Speeding(Q, s, j)
  <2>1. \A j \in 2 .. k - 1 : j \in 1 .. len /\ j + m - 1 \in m + 1 .. f - 1
    BY <1>1, <1>2, <1>3
  <2>2. Speeding(Q, s, 1)
    <3>1. Speeding(Q, s, 1) <=> Speeding(q, N, m)
      <4>1. PICK g : g = 1 + m - 1
        OBVIOUS
      <4>2. Speeding(Q, s, 1) <=> Speeding(q, N, g)
        BY <1>8, <1>9, <4>1
      <4> QED
        BY <1>9, <4>1, <4>2
    <3> QED
      BY <1>8, <3>1
  <2>3. ASSUME NEW j \in 2 .. k - 1 PROVE ~Speeding(Q, s, j)
    BY <1>8, <2>1
  <2> QED
    BY <2>2, <2>3
<1>15. k = 2 => s[2] < Q[1].max_smoothed + Q[1].smooth_delta
  <2> SUFFICES ASSUME k = 2 PROVE s[2] < Q[1].max_smoothed + Q[1].smooth_delta
    OBVIOUS
  <2>1. f = m + 1 /\ 2 \in 1 .. len + 1 /\ 2 + m - 1 = m + 1
    BY <1>1, <1>2, <1>3
  <2>2. Q[1] = q[m] /\ s[2] = N[m + 1]
    BY <1>6, <1>8, <1>9, <2>1
  <2> QED
    BY <2>1, <2>2
<1>16. Lesser(E[m], PeakOf(q, N, m)) = Lesser(e[1], PeakOf(Q, s, 1))
  <2>1. 1 \in 1 .. len + 1 /\ 2 \in 1 .. len + 1 /\ 2 + m - 1 = m + 1 /\ 1 + 1 = 2
    BY <1>2, <1>3
  <2>2. Q[1] = q[m] /\ e[1] = E[m] /\ s[1] = N[m] /\ s[1 + 1] = N[m + 1]
    BY <1>6, <1>8, <1>9, <2>1
  <2> QED
    BY <2>2 DEF PeakOf
<1>17. Settles(Q, Lesser(E[m], PeakOf(q, N, m)), k, e, s)
  BY <1>4, <1>10, <1>11, <1>12, <1>13, <1>14, <1>15, <1>16, Zenon DEF Settles
<1>18. k \in 2 .. Len(Q) /\ e \in [1 .. Len(Q) + 1 -> Nat] /\ s \in [1 .. Len(Q) + 1 -> Nat]
  BY <1>3, <1>4, <1>7
<1>19. Settled(Q, Lesser(E[m], PeakOf(q, N, m)))
  BY <1>17, <1>18, Zenon DEF Settled
<1> QED
  BY <1>1, <1>19

LEMMA AtPeakIs ==
  ASSUME NEW q, NEW E, NEW N, QueueFits(q), SpeedsOf(q, E, N), \A i \in 1 .. Len(q) : SpeedsFit(q, E, N, i),
         NEW m \in 1 .. Len(q), Speeding(q, N, m), NEW p, PassInv(p, q, E, N, m + 1),
         p.delayed # <<>> \/ N[m + 1] < q[m].max_smoothed + q[m].smooth_delta
  PROVE  AtPeakFits(AtPeak(q[m], p, m), q, E, N, m)
<1>1. PICK n, L, f, peak : n = Len(q) /\ L = Len(p.delayed) /\ f = m + 1 + L /\ peak = PeakOf(q, N, m)
  OBVIOUS
<1>2. n \in Nat /\ m \in 1 .. n
  BY <1>1 DEF QueueFits
<1>3. Waits(p, q, E, N, m + 1, f)
  BY <1>1 DEF PassInv
<1>4. p \in Passes(n) /\ p.next_end = E[m + 1] /\ p.next_smoothed = N[m + 1] /\ (p.peak > 0 => f <= n) /\ Delays(p, E, m + 1)
  BY <1>1, <1>3 DEF Waits
<1>5. /\ Least({q[m].cruise, (Smoothed(q[m], p) + ReachableSmoothed(q[m], p)) \div 2}) = peak
      /\ peak \in Nat /\ N[m + 1] <= peak
  BY <1>1, <1>4, PeakIs
<1>13. f = m + 1 + Len(p.delayed)
  BY <1>1
<1>14. Bottom(p, q, E, N, m, f)
  BY <1>3, <1>13, BottomIs
<1>6. /\ f \in m + 1 .. n + 1 /\ N[f] = E[f] /\ E[f] \in Nat /\ E[f] <= N[m + 1] /\ E[f] <= p.peak
      /\ \A j \in m + 1 .. f : E[f] <= E[j]
      /\ f <= n => E[f] = q[f].max_start
      /\ f = m + 1 => p.delayed = <<>>
  BY <1>1, <1>14 DEF Bottom
<1>7. /\ p.next_end \in Nat /\ p.next_smoothed \in Nat /\ p.update \in BOOLEAN /\ p.count \in 0 .. n /\ p.peak \in Nat
      /\ p.junctions \in [1 .. n -> JunctionSpeeds]
      /\ p = [next_end |-> p.next_end, next_smoothed |-> p.next_smoothed, peak |-> p.peak, delayed |-> p.delayed,
              update |-> p.update, count |-> p.count, junctions |-> p.junctions]
  BY <1>4 DEF Passes
<1>8. PICK r : r = AtPeak(q[m], p, m)
  OBVIOUS
<1>9. p.update => p.count = n
  BY <1>1 DEF PassInv
<1>10. ASSUME p.update, p.peak > 0 PROVE AtPeakFits(r, q, E, N, m)
  <2>1. CutsHere(q[m], p)
    BY <1>10 DEF CutsHere
  <2>2. ~(m <= m - 1) /\ m - 1 \in 0 .. n
    BY <1>2
  <2>3. r = [next_end |-> p.next_end, next_smoothed |-> p.next_smoothed, peak |-> peak, delayed |-> <<>>,
             update |-> FALSE, count |-> m - 1, junctions |-> p.junctions]
    BY <1>5, <1>7, <1>8, <2>1, <2>2 DEF AtPeak
  <2>4. /\ r.next_end = E[m + 1] /\ r.next_smoothed = N[m + 1] /\ r.delayed = <<>> /\ r.peak = peak
        /\ ~r.update /\ r.count = m - 1
    BY <1>4, <2>3
  <2>5. r \in Passes(n)
    BY <1>5, <1>7, <2>2, <2>3 DEF Passes
  <2>6. f \in m + 1 .. n
    BY <1>2, <1>4, <1>6, <1>10
  <2>7. Speeding(q, N, f) /\ \A j \in m + 1 .. f - 1 : ~Speeding(q, N, j)
    <3>1. f <= Len(q)
      BY <1>1, <1>2, <2>6
    <3> QED
      BY <1>3, <3>1 DEF Waits
  <2>8. f = m + 1 => N[m + 1] < q[m].max_smoothed + q[m].smooth_delta
    BY <1>6
  <2>9. Settled(SubSeq(q, m, n), Lesser(E[m], peak))
    <3>2. f <= n
      BY <1>2, <2>6
    <3>1. f \in m + 1 .. Len(q) /\ E[f] = N[f] /\ E[f] = q[f].max_start
      BY <1>1, <1>6, <2>6, <3>2
    <3> QED
      BY <1>1, <2>7, <2>8, <3>1, CutSettles
  <2> QED
    BY <1>1, <2>4, <2>5, <2>9 DEF AtPeakFits
<1>11. ASSUME p.update, ~(p.peak > 0) PROVE AtPeakFits(r, q, E, N, m)
  <2>1. ~CutsHere(q[m], p)
    BY <1>11 DEF CutsHere
  <2>2. r = [next_end |-> p.next_end, next_smoothed |-> p.next_smoothed, peak |-> peak, delayed |-> <<>>,
             update |-> TRUE, count |-> p.count, junctions |-> p.junctions]
    BY <1>5, <1>7, <1>8, <1>11, <2>1 DEF AtPeak
  <2>3. r.next_end = E[m + 1] /\ r.next_smoothed = N[m + 1] /\ r.delayed = <<>> /\ r.peak = peak /\ r.update /\ r.count = n
    BY <1>4, <1>9, <1>11, <2>2
  <2>4. r \in Passes(n)
    BY <1>5, <1>7, <2>2 DEF Passes
  <2> QED
    BY <1>1, <2>3, <2>4 DEF AtPeakFits
<1>12. ASSUME ~p.update PROVE AtPeakFits(r, q, E, N, m)
  <2>1. PICK b : Meets(p, q, E, f, b)
    BY <1>1, <1>12 DEF PassInv
  <2>2. f <= p.count + 1 /\ b \in Nat
    BY <2>1 DEF Meets, MeetsUpTo
  <2>3. m <= p.count
    BY <1>2, <1>6, <1>7, <2>2
  <2>4. ~CutsHere(q[m], p)
    BY <1>12 DEF CutsHere
  <2>5. PICK R, c, J : R = Propagate(p, peak) /\ c = p.count /\ J = p.junctions
    OBVIOUS
  <2>6. r = [next_end |-> p.next_end, next_smoothed |-> p.next_smoothed, peak |-> peak, delayed |-> <<>>,
             update |-> FALSE, count |-> c, junctions |-> R]
    BY <1>5, <1>7, <1>8, <1>12, <2>3, <2>4, <2>5 DEF AtPeak
  <2>7. PICK mc \in Nat : /\ L > 0 => E[f] <= mc
                          /\ GivenTo(J, R, mc, E, m + 1, L, n, peak)
    <3>1. E \in [1 .. n + 1 -> Nat]
      BY <1>1 DEF SpeedsOf
    <3>2. m + 1 \in 1 .. n + 1
      BY <1>2
    <3>3. f <= n + 1
      BY <1>2, <1>6
    <3>4. E[f] <= peak
      <4>1. N[m + 1] \in Nat
        BY <1>1, <3>2 DEF SpeedsOf
      <4> QED
        BY <1>5, <1>6, <4>1
    <3> QED
      BY <1>1, <1>2, <1>4, <1>5, <1>6, <1>7, <2>5, <3>1, <3>2, <3>3, <3>4, PropagateMeets
  <2>8. R \in [1 .. n -> JunctionSpeeds]
    BY <2>7 DEF GivenTo
  <2>9. r \in Passes(n)
    BY <1>5, <1>7, <2>5, <2>6, <2>8 DEF Passes
  <2>10. /\ r.next_end = E[m + 1] /\ r.next_smoothed = N[m + 1] /\ r.delayed = <<>> /\ r.peak = peak /\ ~r.update
         /\ r.count = c /\ r.junctions = R
    BY <1>4, <2>6
  <2>11. MeetsUpTo(R, E, m + 1, c, b, peak)
    <3>1. PICK pk : pk = p.peak /\ pk \in Nat
      BY <1>7
    <3>2. MeetsUpTo(J, E, f, c, b, pk)
      BY <2>1, <2>5, <3>1 DEF Meets
    <3>3. E \in [1 .. n + 1 -> Nat] /\ L \in Nat /\ c \in 0 .. n
      BY <1>1, <1>4, <1>7, <2>5 DEF SpeedsOf, Delays
    <3>4. N[m + 1] \in Nat
      <4>1. m + 1 \in 1 .. n + 1
        BY <1>2
      <4> QED
        BY <1>1, <4>1 DEF SpeedsOf
    <3>5. E[f] <= peak /\ E[f] <= pk
      BY <1>5, <1>6, <3>1, <3>4
    <3> QED
      BY <1>1, <1>2, <1>5, <2>2, <2>7, <3>1, <3>2, <3>3, <3>5, MeetsAgain
  <2>12. Meets(r, q, E, m + 1, b)
    <3>1. /\ c = Len(q) => b = 0
          /\ c < Len(q) => Settled(SubSeq(q, c + 1, Len(q)), b)
      BY <2>1, <2>5 DEF Meets
    <3> QED
      BY <2>2, <2>10, <2>11, <3>1 DEF Meets
  <2> QED
    BY <1>1, <2>3, <2>5, <2>9, <2>10, <2>12 DEF AtPeakFits
<1> QED
  BY <1>7, <1>8, <1>10, <1>11, <1>12

\* A move given its own speeds meets the ones behind.
LEMMA CruiseMeets ==
  ASSUME NEW q, NEW E, NEW N, QueueFits(q), SpeedsOf(q, E, N), NEW m \in 1 .. Len(q), SpeedsFit(q, E, N, m),
         NEW r \in Passes(Len(q)), r.next_end = E[m + 1], r.next_smoothed = N[m + 1], ~r.update, m <= r.count,
         NEW b, Meets(r, q, E, m + 1, b)
  PROVE  \E R : CruisesOn(q, r, m, E, b, R)
<1>1. PICK n, c, J, peak : n = Len(q) /\ c = r.count /\ J = r.junctions /\ peak = r.peak
  OBVIOUS
<1>13. PICK new : CruisesTo(q, r, m, E, new)
  BY CruiseIs
<1>2. /\ new \in JunctionSpeeds /\ Cruise(q[m], r, m) = [r EXCEPT !.junctions[m] = new]
      /\ new.start = Lesser(E[m], peak) /\ new.end = Lesser(E[m + 1], peak)
  BY <1>1, <1>13 DEF CruisesTo
<1>3. n \in Nat /\ m \in 1 .. n /\ c \in 0 .. n /\ m <= c /\ J \in [1 .. n -> JunctionSpeeds]
  BY <1>1 DEF QueueFits, Passes
<1>4. MeetsUpTo(J, E, m + 1, c, b, peak)
  BY <1>1 DEF Meets
<1>5. PICK R : R = [J EXCEPT ![m] = new]
  OBVIOUS
<1>6. R \in [1 .. n -> JunctionSpeeds] /\ R[m] = new /\ \A j \in 1 .. n : j # m => R[j] = J[j]
  BY <1>2, <1>3, <1>5
<1>7. Cruise(q[m], r, m) = [r EXCEPT !.junctions = R]
  BY <1>1, <1>2, <1>5
<1>8. /\ m + 1 <= c => J[m + 1].start = Lesser(E[m + 1], peak) /\ J[c].end = b
      /\ m + 1 = c + 1 => b = Lesser(E[m + 1], peak)
      /\ \A j \in m + 1 .. c - 1 : J[j].end = J[j + 1].start
  BY <1>4 DEF MeetsUpTo
<1>9. R[c].end = b
  <2>1. CASE c = m
    BY <1>2, <1>6, <1>8, <2>1
  <2>2. CASE c # m
    <3>1. m + 1 <= c /\ c \in 1 .. n
      BY <1>3, <2>2
    <3> QED
      BY <1>6, <1>8, <2>2, <3>1
  <2> QED
    BY <2>1, <2>2
<1>10. ASSUME NEW j \in m .. c - 1 PROVE R[j].end = R[j + 1].start
  <2>1. j \in 1 .. n /\ j + 1 \in 1 .. n /\ j + 1 # m /\ m + 1 <= c /\ (j # m => j \in m + 1 .. c - 1)
    BY <1>3
  <2>2. CASE j = m
    BY <1>2, <1>6, <1>8, <2>1, <2>2
  <2>3. CASE j # m
    BY <1>6, <1>8, <2>1, <2>3
  <2> QED
    BY <2>2, <2>3
<1>11. m <= c + 1 /\ ~(m = c + 1)
  BY <1>3
<1>12. MeetsUpTo(R, E, m, c, b, peak)
  BY <1>2, <1>6, <1>9, <1>10, <1>11 DEF MeetsUpTo
<1> QED
  BY <1>1, <1>6, <1>7, <1>12 DEF CruisesOn

\* What a step of the pass leaves when no move waits.
LEMMA Arrives ==
  ASSUME NEW q, NEW E, NEW N, QueueFits(q), SpeedsOf(q, E, N), NEW m \in 1 .. Len(q), Speeding(q, N, m),
         NEW r \in Passes(Len(q)), r.delayed = <<>>, N[m] <= r.peak, r.update => r.count = Len(q),
         ~r.update => \E b : Meets(r, q, E, m, b), NEW v, v = [r EXCEPT !.next_end = E[m], !.next_smoothed = N[m]]
  PROVE  PassInv(v, q, E, N, m)
<1>1. PICK n : n = Len(q)
  OBVIOUS
<1>2. n \in Nat /\ m \in 1 .. n
  BY <1>1 DEF QueueFits
<1>3. E[m] \in Nat /\ N[m] \in Nat
  <2>1. m \in 1 .. n + 1
    BY <1>2
  <2> QED
    BY <1>1, <2>1 DEF SpeedsOf
<1>4. /\ v.delayed = <<>> /\ v.next_end = E[m] /\ v.next_smoothed = N[m] /\ v.update = r.update /\ v.count = r.count
      /\ v.junctions = r.junctions /\ v.peak = r.peak
  BY DEF Passes
<1>5. v \in Passes(n)
  BY <1>1, <1>3 DEF Passes
<1>6. Len(v.delayed) = 0
  BY <1>4
<1>7. PICK f : f = m + Len(v.delayed)
  OBVIOUS
<1>8. f = m /\ m <= n + 1 /\ m <= n
  BY <1>2, <1>6, <1>7
<1>9. Delays(v, E, m)
  <2>1. v.delayed \in Seq(DelayedMoves)
    BY <1>4, <1>5 DEF Passes
  <2>2. \A k \in 1 .. Len(v.delayed) : FALSE
    BY <1>6
  <2> QED
    BY <2>1, <2>2 DEF Delays
<1>10. Waits(v, q, E, N, m, f)
  <2>1. (\A j \in m .. m - 1 : ~Speeding(q, N, j)) /\ \A j \in m .. m : N[m] <= N[j]
    BY <1>2, <1>3
  <2> QED
    BY <1>1, <1>4, <1>5, <1>8, <1>9, <2>1 DEF Waits
<1>11. v.update => v.count = n
  BY <1>1, <1>4
<1>12. ~v.update => \E b : Meets(v, q, E, f, b)
  BY <1>4, <1>8 DEF Meets
<1> QED
  BY <1>1, <1>7, <1>10, <1>11, <1>12 DEF PassInv

\* A move that need not slow down is given its speed, or the queue was cut before it.
LEMMA CruiseKeeps ==
  ASSUME NEW q, NEW E, NEW N, QueueFits(q), SpeedsOf(q, E, N), NEW m \in 1 .. Len(q), SpeedsFit(q, E, N, m),
         Speeding(q, N, m), NEW r \in Passes(Len(q)), r.next_end = E[m + 1], r.next_smoothed = N[m + 1],
         r.delayed = <<>>, N[m] <= r.peak, r.update => r.count = Len(q),
         ~r.update => \/ r.count = m - 1 /\ Settled(SubSeq(q, m, Len(q)), Lesser(E[m], r.peak))
                      \/ m <= r.count /\ \E b : Meets(r, q, E, m + 1, b),
         NEW v, v = [Cruise(q[m], r, m) EXCEPT !.next_end = E[m], !.next_smoothed = N[m]]
  PROVE  PassInv(v, q, E, N, m)
<1>1. PICK n : n = Len(q) /\ n \in Nat
  BY DEF QueueFits
<1>2. m \in 1 .. n /\ r.count \in 0 .. n /\ r.peak \in Nat
  BY <1>1 DEF Passes
<1>3. CASE r.update
  <2>1. v = [r EXCEPT !.next_end = E[m], !.next_smoothed = N[m]]
    BY <1>3 DEF Cruise
  <2> QED
    BY <1>3, <2>1, Arrives
<1>4. CASE ~r.update /\ r.count = m - 1 /\ Settled(SubSeq(q, m, Len(q)), Lesser(E[m], r.peak))
  <2>1. m > r.count
    BY <1>2, <1>4
  <2>2. v = [r EXCEPT !.next_end = E[m], !.next_smoothed = N[m]]
    BY <2>1 DEF Cruise
  <2>3. PICK b : b = Lesser(E[m], r.peak)
    OBVIOUS
  <2>4. b \in Nat
    <3>1. m \in 1 .. n + 1
      BY <1>1, <1>2
    <3>2. E[m] \in Nat
      BY <1>1, <3>1 DEF SpeedsOf
    <3> QED
      BY <1>2, <2>3, <3>2 DEF Lesser
  <2>5. PICK c : c = r.count
    OBVIOUS
  <2>6. m <= c + 1 /\ ~(m <= c) /\ c + 1 = m /\ c < n /\ c # n /\ \A j \in m .. c - 1 : FALSE
    BY <1>1, <1>2, <1>4, <2>5
  <2>7. MeetsUpTo(r.junctions, E, m, c, b, r.peak)
    BY <2>3, <2>6 DEF MeetsUpTo
  <2>8. Settled(SubSeq(q, c + 1, Len(q)), b)
    BY <1>4, <2>3, <2>6
  <2>9. Meets(r, q, E, m, b)
    BY <1>1, <2>4, <2>5, <2>6, <2>7, <2>8 DEF Meets
  <2>10. \E z : Meets(r, q, E, m, z)
    BY <2>9
  <2> QED
    BY <1>4, <2>2, <2>10, Arrives
<1>5. CASE ~r.update /\ m <= r.count /\ \E b : Meets(r, q, E, m + 1, b)
  <2>1. PICK b : Meets(r, q, E, m + 1, b)
    BY <1>5
  <2>2. PICK R : CruisesOn(q, r, m, E, b, R)
    BY <1>5, <2>1, CruiseMeets
  <2>3. PICK s : s = [r EXCEPT !.junctions = R]
    OBVIOUS
  <2>4. /\ R \in [1 .. n -> JunctionSpeeds] /\ Cruise(q[m], r, m) = s
        /\ MeetsUpTo(R, E, m, r.count, b, r.peak)
    BY <1>1, <2>2, <2>3 DEF CruisesOn
  <2>5. /\ s.next_end = r.next_end /\ s.next_smoothed = r.next_smoothed /\ s.delayed = r.delayed /\ s.peak = r.peak
        /\ s.update = r.update /\ s.count = r.count /\ s.junctions = R
    BY <2>3 DEF Passes
  <2>6. s \in Passes(n)
    BY <1>1, <2>3, <2>4 DEF Passes
  <2>7. v = [s EXCEPT !.next_end = E[m], !.next_smoothed = N[m]]
    BY <2>4
  <2>8. Meets(s, q, E, m, b)
    BY <2>1, <2>4, <2>5 DEF Meets
  <2>9. \E z : Meets(s, q, E, m, z)
    BY <2>8
  <2>10. s \in Passes(Len(q)) /\ s.delayed = <<>> /\ N[m] <= s.peak /\ ~s.update
    BY <1>1, <1>5, <2>5, <2>6
  <2> QED
    BY <2>7, <2>9, <2>10, Arrives
<1> QED
  BY <1>3, <1>4, <1>5

\* A step of the pass keeps the invariant.
LEMMA VisitKeeps ==
  ASSUME NEW q, NEW E, NEW N, QueueFits(q), SpeedsOf(q, E, N), \A i \in 1 .. Len(q) : SpeedsFit(q, E, N, i),
         NEW m \in 1 .. Len(q), NEW p, PassInv(p, q, E, N, m + 1)
  PROVE  PassInv(Visit(q[m], p, m), q, E, N, m)
<1>1. PICK n, f, L : n = Len(q) /\ f = m + 1 + L /\ L = Len(p.delayed)
  OBVIOUS
<1>15. n \in Nat
  BY <1>1 DEF QueueFits
<1>2. Waits(p, q, E, N, m + 1, f)
  BY <1>1 DEF PassInv
<1>3. n \in Nat /\ m \in 1 .. n /\ SpeedsFit(q, E, N, m)
  BY <1>1, <1>15
<1>4. p \in Passes(n) /\ p.next_end = E[m + 1] /\ p.next_smoothed = N[m + 1] /\ Delays(p, E, m + 1)
  BY <1>1, <1>2 DEF Waits
<1>5. /\ E[m] \in Nat /\ N[m] \in Nat /\ E[m + 1] \in Nat /\ N[m + 1] \in Nat
      /\ Start(q[m], p) = E[m] /\ Smoothed(q[m], p) = N[m]
      /\ ReachableSmoothed(q[m], p) = N[m + 1] + q[m].smooth_delta
      /\ N[m] = Lesser(q[m].max_smoothed, N[m + 1] + q[m].smooth_delta)
  BY <1>4, StartIs
<1>6. PICK x, y, sd, mm : /\ x = N[m] /\ y = N[m + 1] /\ sd = q[m].smooth_delta /\ mm = q[m].max_smoothed
                          /\ sd \in Nat /\ mm \in Nat
  BY MoveIs
<1>7. x \in Nat /\ y \in Nat /\ x = Lesser(mm, y + sd) /\ y <= mm + sd
  BY <1>3, <1>5, <1>6 DEF SpeedsFit
<1>8. Smoothed(q[m], p) < ReachableSmoothed(q[m], p) <=> Speeding(q, N, m)
  <2>1. x < y + sd <=> mm < y + sd
    BY <1>6, <1>7 DEF Lesser
  <2> QED
    BY <1>5, <1>6, <2>1 DEF Speeding
<1>9. PICK v : v = Visit(q[m], p, m)
  OBVIOUS
<1>10. p.update => p.count = n
  BY <1>1 DEF PassInv
<1>11. ~p.update => \E b : Meets(p, q, E, f, b)
  BY <1>1 DEF PassInv
<1>12. ASSUME Speeding(q, N, m), Accelerates(q[m], p) PROVE PassInv(v, q, E, N, m)
  <2>1. p.delayed # <<>> \/ N[m + 1] < q[m].max_smoothed + q[m].smooth_delta
    <3>1. x + sd > y => y < mm + sd
      BY <1>6, <1>7 DEF Lesser
    <3>2. x + sd > y \/ p.delayed # <<>>
      BY <1>4, <1>5, <1>6, <1>12 DEF Accelerates
    <3> QED
      BY <1>6, <3>1, <3>2
  <2>2. PICK r : r = AtPeak(q[m], p, m)
    OBVIOUS
  <2>3. AtPeakFits(r, q, E, N, m)
    BY <1>12, <2>1, <2>2, AtPeakIs
  <2>4. N[m] <= PeakOf(q, N, m)
    BY <1>3, <1>4, <1>12, PeakIs
  <2>5. v = [Cruise(q[m], r, m) EXCEPT !.next_end = E[m], !.next_smoothed = N[m]]
    BY <1>5, <1>8, <1>9, <1>12, <2>2 DEF Visit
  <2>6. /\ r \in Passes(Len(q)) /\ r.next_end = E[m + 1] /\ r.next_smoothed = N[m + 1]
        /\ r.delayed = <<>> /\ N[m] <= r.peak /\ (r.update => r.count = Len(q))
        /\ ~r.update => \/ r.count = m - 1 /\ Settled(SubSeq(q, m, Len(q)), Lesser(E[m], r.peak))
                        \/ m <= r.count /\ \E b : Meets(r, q, E, m + 1, b)
    BY <2>3, <2>4 DEF AtPeakFits
  <2> QED
    BY <1>3, <1>12, <2>5, <2>6, CruiseKeeps
<1>13. ASSUME Speeding(q, N, m), ~Accelerates(q[m], p) PROVE PassInv(v, q, E, N, m)
  <2>1. p.delayed = <<>> /\ ~(x + sd > y)
    BY <1>4, <1>5, <1>6, <1>13 DEF Accelerates
  <2>2. f = m + 1
    BY <1>1, <1>3, <2>1
  <2>3. N[m] <= p.peak
    <3>1. y <= p.peak /\ p.peak \in Nat
      BY <1>2, <1>4, <1>6, <2>2 DEF Waits, Passes
    <3>2. x <= y
      BY <1>6, <1>7, <2>1
    <3> QED
      BY <1>6, <1>7, <3>1, <3>2
  <2>4. v = [Cruise(q[m], p, m) EXCEPT !.next_end = E[m], !.next_smoothed = N[m]]
    BY <1>5, <1>8, <1>9, <1>13 DEF Visit
  <2>5. ~p.update => m <= p.count /\ \E b : Meets(p, q, E, m + 1, b)
    <3> SUFFICES ASSUME ~p.update PROVE m <= p.count /\ \E b : Meets(p, q, E, m + 1, b)
      OBVIOUS
    <3>1. PICK b : Meets(p, q, E, m + 1, b)
      BY <1>11, <2>2
    <3>2. m + 1 <= p.count + 1
      BY <3>1 DEF Meets, MeetsUpTo
    <3>3. p.count \in Nat
      BY <1>4 DEF Passes
    <3>4. m <= p.count
      BY <1>3, <3>2, <3>3
    <3> QED
      BY <3>1, <3>4
  <2>6. /\ p \in Passes(Len(q)) /\ (p.update => p.count = Len(q))
        /\ ~p.update => \/ p.count = m - 1 /\ Settled(SubSeq(q, m, Len(q)), Lesser(E[m], p.peak))
                        \/ m <= p.count /\ \E b : Meets(p, q, E, m + 1, b)
    BY <1>1, <1>4, <1>10, <2>5
  <2> QED
    BY <1>3, <1>4, <1>13, <2>1, <2>3, <2>4, <2>6, CruiseKeeps
<1>14. ASSUME ~Speeding(q, N, m) PROVE PassInv(v, q, E, N, m)
  <2>1. PICK d, dl : /\ d = [index |-> m, start |-> E[m], end |-> E[m + 1]] /\ dl = Append(p.delayed, d)
    OBVIOUS
  <2>2. p.delayed \in Seq(DelayedMoves) /\ L \in Nat /\ d \in DelayedMoves /\ DelayIs(d, E, m)
    BY <1>1, <1>3, <1>4, <1>5, <2>1 DEF Delays, DelayedMoves, DelayIs
  <2>3. dl \in Seq(DelayedMoves) /\ Len(dl) = L + 1 /\ dl[L + 1] = d /\ \A k \in 1 .. L : dl[k] = p.delayed[k]
    BY <1>1, <2>1, <2>2
  <2>4. v = [p EXCEPT !.delayed = dl, !.next_end = E[m], !.next_smoothed = N[m]]
    BY <1>4, <1>5, <1>8, <1>9, <1>14, <2>1 DEF Visit, Passes
  <2>5. /\ v.delayed = dl /\ v.next_end = E[m] /\ v.next_smoothed = N[m] /\ v.peak = p.peak /\ v.update = p.update
        /\ v.count = p.count /\ v.junctions = p.junctions
    BY <1>4, <2>4 DEF Passes
  <2>6. v \in Passes(n)
    BY <1>4, <1>5, <2>3, <2>4 DEF Passes
  <2>7. f = m + Len(v.delayed) /\ m + (L + 1) = f
    <3>1. f <= n + 1
      BY <1>1, <1>2 DEF Waits
    <3>2. m + (L + 1) = f
      <4>1. EndFits(n, m, L, f)
        BY <1>1, <1>3, <2>2, <3>1, EndIs
      <4> QED
        BY <4>1 DEF EndFits
    <3> QED
      BY <2>3, <2>5, <3>2
  <2>8. Delays(v, E, m)
    <3>1. ASSUME NEW k \in 1 .. L + 1 PROVE DelayIs(dl[k], E, m + (L + 1) - k)
      <4>1. CASE k = L + 1
        <5>1. m + (L + 1) - k = m
          BY <1>3, <2>2, <4>1
        <5> QED
          BY <2>2, <2>3, <4>1, <5>1
      <4>2. CASE k # L + 1
        <5>1. k \in 1 .. L /\ m + (L + 1) - k = m + 1 + L - k
          BY <1>3, <2>2, <4>2
        <5> QED
          BY <1>1, <1>4, <2>3, <5>1 DEF Delays
      <4> QED
        BY <4>1, <4>2
    <3> QED
      BY <2>3, <2>5, <3>1 DEF Delays
  <2>9. Waits(v, q, E, N, m, f)
    <3>1. /\ f <= n + 1 /\ \A j \in m + 1 .. f - 1 : ~Speeding(q, N, j)
          /\ \A j \in m + 1 .. f : N[f] <= N[j]
          /\ f <= n => Speeding(q, N, f)
          /\ N[f] <= p.peak /\ (p.peak > 0 => f <= n)
      BY <1>1, <1>2 DEF Waits
    <3>2. f \in m + 1 .. n + 1 /\ m + 1 \in m + 1 .. f /\ f \in 1 .. n + 1
      <4>1. EndFits(n, m, L, f)
        BY <1>1, <1>3, <2>2, <3>1, EndIs
      <4> QED
        BY <4>1, Zenon DEF EndFits
    <3>3. \A j \in m .. f - 1 : ~Speeding(q, N, j)
      <4>1. \A j \in m .. f - 1 : j = m \/ j \in m + 1 .. f - 1
        BY <1>3, <3>2
      <4> QED
        BY <1>14, <3>1, <4>1
    <3>4. N[f] <= N[m]
      <4>1. N[f] \in Nat
        BY <1>1, <3>2 DEF SpeedsOf
      <4>2. N[f] <= y
        BY <1>6, <3>1, <3>2
      <4>3. x = y + sd
        BY <1>6, <1>7, <1>14 DEF Lesser, Speeding
      <4> QED
        BY <1>6, <1>7, <4>1, <4>2, <4>3
    <3>5. \A j \in m .. f : N[f] <= N[j]
      <4>1. \A j \in m .. f : j = m \/ j \in m + 1 .. f
        BY <1>3, <3>2
      <4> QED
        BY <3>1, <3>4, <4>1
    <3> QED
      BY <1>1, <2>5, <2>6, <2>8, <3>1, <3>3, <3>5 DEF Waits
  <2>10. ~v.update => \E b : Meets(v, q, E, f, b)
    BY <1>11, <2>5 DEF Meets
  <2> QED
    BY <1>1, <1>10, <2>5, <2>7, <2>9, <2>10 DEF PassInv
<1> QED
  BY <1>9, <1>12, <1>13, <1>14

\* Every queue has its speeds.
LEMMA SpeedsExist ==
  ASSUME NEW q, QueueFits(q)
  PROVE  \E E, N : SpeedsOf(q, E, N)
<1>1. PICK n : n = Len(q) /\ n \in Nat
  BY DEF QueueFits
<1> DEFINE S == {m \in 1 .. n + 1 : \E E, N : SpeedsDownTo(q, E, N, m)}
<1>2. n + 1 \in S
  <2> DEFINE Z == [i \in 1 .. n + 1 |-> 0]
  <2>1. Z \in [1 .. n + 1 -> Nat] /\ Z[n + 1] = 0 /\ n + 1 \in 1 .. n + 1
    BY <1>1
  <2>2. \A i \in n + 1 .. n : FALSE
    BY <1>1
  <2> HIDE DEF Z
  <2>3. SpeedsDownTo(q, Z, Z, n + 1)
    BY <1>1, <2>1, <2>2 DEF SpeedsDownTo
  <2>4. \E E, N : SpeedsDownTo(q, E, N, n + 1)
    BY <2>3
  <2> QED
    BY <2>1, <2>4
<1>3. ASSUME NEW m \in 1 .. n, m + 1 \in S PROVE m \in S
  <2>1. PICK A, B : SpeedsDownTo(q, A, B, m + 1)
    BY <1>3
  <2>2. /\ A \in [1 .. n + 1 -> Nat] /\ B \in [1 .. n + 1 -> Nat] /\ A[n + 1] = 0 /\ B[n + 1] = 0
        /\ \A i \in m + 1 .. n : /\ A[i] = Lesser(q[i].max_start, A[i + 1] + q[i].delta)
                                 /\ B[i] = Lesser(q[i].max_smoothed, B[i + 1] + q[i].smooth_delta)
    BY <1>1, <2>1 DEF SpeedsDownTo
  <2>3. m \in 1 .. n + 1 /\ m + 1 \in 1 .. n + 1 /\ m + 1 # m /\ n + 1 # m /\ n + 1 \in 1 .. n + 1
    BY <1>1
  <2>4. PICK x, y : /\ x = Lesser(q[m].max_start, A[m + 1] + q[m].delta) /\ x \in Nat
                    /\ y = Lesser(q[m].max_smoothed, B[m + 1] + q[m].smooth_delta) /\ y \in Nat
    <3>1. A[m + 1] \in Nat /\ B[m + 1] \in Nat
      BY <2>2, <2>3
    <3>2. q[m].max_start \in Nat /\ q[m].delta \in Nat /\ q[m].max_smoothed \in Nat /\ q[m].smooth_delta \in Nat
      BY <1>1, MoveIs
    <3> QED
      BY <3>1, <3>2 DEF Lesser
  <2>5. PICK E, N : E = [A EXCEPT ![m] = x] /\ N = [B EXCEPT ![m] = y]
    OBVIOUS
  <2>6. /\ E \in [1 .. n + 1 -> Nat] /\ N \in [1 .. n + 1 -> Nat] /\ E[m] = x /\ N[m] = y
        /\ \A i \in 1 .. n + 1 : i # m => E[i] = A[i] /\ N[i] = B[i]
    BY <2>2, <2>3, <2>4, <2>5
  <2>7. ASSUME NEW i \in m .. n
        PROVE  /\ E[i] = Lesser(q[i].max_start, E[i + 1] + q[i].delta)
               /\ N[i] = Lesser(q[i].max_smoothed, N[i + 1] + q[i].smooth_delta)
    <3>1. i \in 1 .. n + 1 /\ i + 1 \in 1 .. n + 1 /\ i + 1 # m /\ (i # m => i \in m + 1 .. n)
      BY <1>1
    <3>2. E[i + 1] = A[i + 1] /\ N[i + 1] = B[i + 1]
      BY <2>6, <3>1
    <3>3. CASE i = m
      BY <2>4, <2>6, <3>2, <3>3
    <3>4. CASE i # m
      BY <2>2, <2>6, <3>1, <3>2, <3>4
    <3> QED
      BY <3>3, <3>4
  <2>8. SpeedsDownTo(q, E, N, m)
    BY <1>1, <2>2, <2>3, <2>6, <2>7 DEF SpeedsDownTo
  <2>9. \E e, s : SpeedsDownTo(q, e, s, m)
    BY <2>8
  <2> QED
    BY <2>3, <2>9
<1>4. PICK E, N : SpeedsDownTo(q, E, N, 1)
  <2> HIDE DEF S
  <2>1. 1 .. n + 1 \subseteq S
    BY <1>1, <1>2, <1>3, InductionFrom
  <2>2. 1 \in S
    BY <1>1, <2>1
  <2> QED
    BY <2>2 DEF S
<1>5. SpeedsOf(q, E, N)
  BY <1>4 DEF SpeedsOf, SpeedsDownTo
<1> QED
  BY <1>5

\* The pass starts behind the last move, where the head stands still.
LEMMA StopsAtTheEnd ==
  ASSUME NEW q, NEW E, NEW N, QueueFits(q), SpeedsOf(q, E, N), NEW lazy \in BOOLEAN
  PROVE  PassInv(Stopped(lazy, q), q, E, N, Len(q) + 1)
<1>1. PICK n, p, J : n = Len(q) /\ p = Stopped(lazy, q) /\ J = [i \in DOMAIN q |-> Junction(0, 0, 0)]
  OBVIOUS
<1>2. n \in Nat /\ DOMAIN q = 1 .. n
  BY <1>1 DEF QueueFits
<1>3. J \in [1 .. n -> JunctionSpeeds]
  BY <1>1, <1>2 DEF Junction, JunctionSpeeds
<1>4. p = [next_end |-> 0, next_smoothed |-> 0, peak |-> 0, delayed |-> <<>>, update |-> lazy, count |-> n, junctions |-> J]
  BY <1>1 DEF Stopped
<1>5. p.next_end = 0 /\ p.next_smoothed = 0 /\ p.peak = 0 /\ p.delayed = <<>> /\ p.update = lazy /\ p.count = n /\ p.junctions = J
  BY <1>4
<1>6. p \in Passes(n)
  BY <1>2, <1>3, <1>4 DEF Passes
<1>7. E[n + 1] = 0 /\ N[n + 1] = 0
  BY <1>1 DEF SpeedsOf
<1>8. Len(p.delayed) = 0
  BY <1>5
<1>9. PICK f : f = n + 1 + Len(p.delayed)
  OBVIOUS
<1>10. f = n + 1 /\ f <= n + 1 /\ ~(f <= n) /\ (\A j \in n + 1 .. f - 1 : FALSE) /\ \A j \in n + 1 .. f : j = n + 1
  BY <1>2, <1>8, <1>9
<1>11. Delays(p, E, n + 1)
  <2>1. p.delayed \in Seq(DelayedMoves)
    BY <1>5
  <2>2. \A k \in 1 .. Len(p.delayed) : FALSE
    BY <1>8
  <2> QED
    BY <2>1, <2>2 DEF Delays
<1>12. Waits(p, q, E, N, n + 1, f)
  BY <1>1, <1>5, <1>6, <1>7, <1>10, <1>11 DEF Waits
<1>13. Meets(p, q, E, f, 0)
  <2>1. (\A j \in f .. n - 1 : FALSE) /\ ~(n < n)
    BY <1>2, <1>10
  <2>2. 0 = Lesser(0, 0)
    BY DEF Lesser
  <2>3. MeetsUpTo(J, E, f, n, 0, 0)
    BY <1>7, <1>10, <2>1, <2>2 DEF MeetsUpTo
  <2> QED
    BY <1>1, <1>5, <2>1, <2>3 DEF Meets
<1>14. PassInv(p, q, E, N, n + 1)
  BY <1>1, <1>5, <1>9, <1>12, <1>13 DEF PassInv
<1> QED
  BY <1>1, <1>14

\* The first move reaches the peak that settles where it begins.
LEMMA PeakReached ==
  ASSUME NEW q, NEW E, NEW N, QueueFits(q), SpeedsOf(q, E, N), \A i \in 1 .. Len(q) : SpeedsFit(q, E, N, i),
         NEW m \in 1 .. Len(q), NEW p, PassInv(p, q, E, N, m + 1), Speeding(q, N, m),
         p.delayed # <<>> \/ N[m + 1] < q[m].max_smoothed + q[m].smooth_delta
  PROVE  Visit(q[m], p, m).peak = PeakOf(q, N, m)
<1>1. p.next_end = E[m + 1] /\ p.next_smoothed = N[m + 1]
  BY DEF PassInv, Waits
<1>2. /\ N[m + 1] \in Nat
      /\ Start(q[m], p) = E[m] /\ Smoothed(q[m], p) = N[m]
      /\ ReachableSmoothed(q[m], p) = N[m + 1] + q[m].smooth_delta
      /\ N[m] = Lesser(q[m].max_smoothed, N[m + 1] + q[m].smooth_delta)
  BY <1>1, StartIs
<1>3. PICK x, y, sd, mm : /\ x = N[m] /\ y = N[m + 1] /\ sd = q[m].smooth_delta /\ mm = q[m].max_smoothed
                          /\ sd \in Nat /\ mm \in Nat
  BY MoveIs
<1>4. y \in Nat /\ mm < y + sd /\ x = mm
  BY <1>2, <1>3 DEF Speeding, Lesser
<1>5. Smoothed(q[m], p) < ReachableSmoothed(q[m], p)
  <2>1. x < y + sd
    BY <1>4
  <2> QED
    BY <1>2, <1>3, <2>1
<1>6. Accelerates(q[m], p)
  <2>1. y < mm + sd => x + sd > y
    BY <1>3, <1>4
  <2> QED
    BY <1>1, <1>2, <1>3, <2>1 DEF Accelerates
<1>7. PICK r : r = AtPeak(q[m], p, m)
  OBVIOUS
<1>8. r \in Passes(Len(q)) /\ r.peak = PeakOf(q, N, m)
  <2>1. AtPeakFits(r, q, E, N, m)
    BY <1>7, AtPeakIs
  <2> QED
    BY <2>1 DEF AtPeakFits
<1>9. Visit(q[m], p, m) = [Cruise(q[m], r, m) EXCEPT !.next_end = E[m], !.next_smoothed = N[m]]
  BY <1>2, <1>5, <1>6, <1>7 DEF Visit
<1>10. PICK new : Cruise(q[m], r, m) = IF r.update \/ m > r.count THEN r ELSE [r EXCEPT !.junctions[m] = new]
  BY DEF Cruise
<1>11. PICK s : s = Cruise(q[m], r, m) /\ s.peak = r.peak /\ "peak" \in DOMAIN s
  BY <1>8, <1>10 DEF Passes
<1> QED
  BY <1>8, <1>9, <1>11

\* The speeds a queue was settled by are the ones a later pass finds.
LEMMA SettledStays ==
  ASSUME NEW q, NEW E, NEW N, QueueFits(q), SpeedsOf(q, E, N), \A i \in 1 .. Len(q) : SpeedsFit(q, E, N, i),
         NEW v, NEW k \in 2 .. Len(q), NEW A \in [1 .. Len(q) + 1 -> Nat], NEW B \in [1 .. Len(q) + 1 -> Nat],
         Settles(q, v, k, A, B)
  PROVE  \A j \in 1 .. k : E[j] = A[j] /\ N[j] = B[j]
<1>1. PICK n : n = Len(q)
  OBVIOUS
<1>2. n \in Nat /\ k \in 2 .. n
  BY <1>1 DEF QueueFits
<1>3. /\ B[n + 1] = 0
      /\ \A j \in 1 .. n : B[j] <= q[j].max_smoothed /\ B[j] <= B[j + 1] + q[j].smooth_delta
      /\ A[k] = q[k].max_start /\ B[k] = q[k].max_start
      /\ \A j \in 1 .. k - 1 : /\ A[j] = Lesser(q[j].max_start, A[j + 1] + q[j].delta)
                                /\ B[j] = Lesser(q[j].max_smoothed, B[j + 1] + q[j].smooth_delta)
  BY <1>1, Zenon DEF Settles
<1>4. /\ \A j \in 1 .. n + 1 : E[j] \in Nat /\ N[j] \in Nat /\ A[j] \in Nat /\ B[j] \in Nat
      /\ N[n + 1] = 0
      /\ \A j \in 1 .. n : /\ E[j] = Lesser(q[j].max_start, E[j + 1] + q[j].delta)
                           /\ N[j] = Lesser(q[j].max_smoothed, N[j + 1] + q[j].smooth_delta)
  BY <1>1 DEF SpeedsOf
<1>5. \A j \in 1 .. n : SpeedsFit(q, E, N, j) /\ j \in 1 .. Len(q)
  BY <1>1
<1>6. \A j \in 1 .. n + 1 : B[j] <= N[j]
  <2> DEFINE S == {j \in 1 .. n + 1 : B[j] <= N[j]}
  <2>1. n + 1 \in S
    <3>1. n + 1 \in 1 .. n + 1
      BY <1>2
    <3>2. B[n + 1] = 0 /\ N[n + 1] = 0 /\ 0 <= 0
      BY <1>3, <1>4
    <3>3. B[n + 1] <= N[n + 1]
      BY <3>2
    <3> QED
      BY <3>1, <3>3
  <2>2. ASSUME NEW j \in 1 .. n, j + 1 \in S PROVE j \in S
    <3>1. j \in 1 .. n + 1 /\ j + 1 \in 1 .. n + 1
      BY <1>2
    <3>2. PICK x, y, b, c, mm, sd : /\ x = N[j] /\ y = N[j + 1] /\ b = B[j] /\ c = B[j + 1]
                                    /\ mm = q[j].max_smoothed /\ sd = q[j].smooth_delta
      OBVIOUS
    <3>3. x \in Nat /\ y \in Nat /\ b \in Nat /\ c \in Nat /\ x = Lesser(mm, y + sd) /\ b <= mm /\ b <= c + sd
      BY <1>3, <1>4, <3>1, <3>2
    <3>4. mm \in Nat /\ sd \in Nat
      BY <1>5, <3>2, MoveIs
    <3>5. c <= y
      BY <2>2, <3>2
    <3>6. b <= x
      BY <3>3, <3>4, <3>5 DEF Lesser
    <3> QED
      BY <3>1, <3>2, <3>6
  <2>3. 1 .. n + 1 \subseteq S
    <3> HIDE DEF S
    <3> QED
      BY <1>2, <2>1, <2>2, InductionFrom
  <2> QED
    BY <2>3
<1>7. E[k] = A[k] /\ N[k] = B[k]
  <2>1. k \in 1 .. n /\ k \in 1 .. n + 1
    BY <1>2
  <2>2. PICK x, y, a, b, ms : x = E[k] /\ y = N[k] /\ a = A[k] /\ b = B[k] /\ ms = q[k].max_start
    OBVIOUS
  <2>3. x \in Nat /\ y \in Nat /\ b \in Nat /\ a = ms /\ b = ms /\ b <= y
    BY <1>3, <1>4, <1>6, <2>1, <2>2
  <2>4. x <= ms /\ y <= x
    BY <1>5, <2>1, <2>2 DEF SpeedsFit
  <2>5. x = a /\ y = b
    BY <2>3, <2>4
  <2> QED
    BY <2>2, <2>5
<1>8. PICK h : h = k - 1
  OBVIOUS
<1>9. h \in Nat /\ h + 1 = k /\ \A j \in 1 .. h : j \in 1 .. k - 1 /\ j \in 1 .. n
  BY <1>2, <1>8
<1> DEFINE T == {j \in 1 .. k : E[j] = A[j] /\ N[j] = B[j]}
<1>10. h + 1 \in T
  BY <1>2, <1>7, <1>9
<1>11. ASSUME NEW j \in 1 .. h, j + 1 \in T PROVE j \in T
  <2>1. E[j + 1] = A[j + 1] /\ N[j + 1] = B[j + 1]
    BY <1>11
  <2>2. E[j] = A[j] /\ N[j] = B[j]
    BY <1>3, <1>4, <1>9, <2>1
  <2>3. j \in 1 .. k
    BY <1>9
  <2> QED
    BY <2>2, <2>3
<1>12. 1 .. k \subseteq T
  <2> HIDE DEF T
  <2>1. 1 .. h + 1 \subseteq T
    BY <1>9, <1>10, <1>11, InductionFrom
  <2> QED
    BY <1>9, <2>1
<1> QED
  BY <1>12

\* What a pass finds of a queue that is settled.
LEMMA PassIs ==
  ASSUME NEW q, QueueFits(q), q # <<>>, NEW lazy \in BOOLEAN, NEW v, Settled(q, v)
  PROVE  PassMeets(Pass(q, lazy), q, v)
<1>1. PICK n, p : n = Len(q) /\ p = Pass(q, lazy)
  OBVIOUS
<1>2. n \in Nat /\ 1 \in 1 .. n /\ n >= 1
  BY <1>1 DEF QueueFits
<1>3. PICK E, N : SpeedsOf(q, E, N)
  BY SpeedsExist
<1>4. \A i \in 1 .. Len(q) : SpeedsFit(q, E, N, i)
  BY <1>3, SpeedsAreFit
<1>5. PICK f : PassesFrom(f, q, lazy)
  BY <1>1, <1>2, PassIsDefined
<1>6. p = f[1] /\ f[n + 1] = Stopped(lazy, q) /\ \A i \in 1 .. n : f[i] = Visit(q[i], f[i + 1], i)
  BY <1>1, <1>5 DEF PassesFrom
<1> DEFINE S == {i \in Nat : PassInv(f[i], q, E, N, i)}
<1>7. n + 1 \in S
  <2>1. PassInv(Stopped(lazy, q), q, E, N, n + 1)
    BY <1>1, <1>3, StopsAtTheEnd
  <2>2. n + 1 \in Nat
    BY <1>2
  <2> QED
    BY <1>6, <2>1, <2>2
<1>8. ASSUME NEW i \in 1 .. n, i + 1 \in S PROVE i \in S
  <2>1. PICK r : r = f[i + 1]
    OBVIOUS
  <2>2. PassInv(r, q, E, N, i + 1) /\ i \in 1 .. Len(q) /\ f[i] = Visit(q[i], r, i)
    BY <1>1, <1>6, <1>8, <2>1
  <2>3. PassInv(Visit(q[i], r, i), q, E, N, i)
    <3> HIDE DEF S
    <3> QED
      BY <1>3, <1>4, <2>2, VisitKeeps
  <2> QED
    BY <2>2, <2>3
<1>9. 1 .. n + 1 \subseteq S
  <2> HIDE DEF S
  <2> QED
    BY <1>2, <1>7, <1>8, InductionFrom
<1>10. PassInv(p, q, E, N, 1)
  <2>1. 1 \in 1 .. n + 1
    BY <1>2
  <2> QED
    BY <1>6, <1>9, <2>1
<1>11. PICK r : r = f[2] /\ PassInv(r, q, E, N, 1 + 1) /\ p = Visit(q[1], r, 1)
  <2>1. 1 + 1 = 2 /\ 2 \in 1 .. n + 1
    BY <1>2
  <2> QED
    BY <1>2, <1>6, <1>9, <2>1
<1> HIDE DEF S
<1>12. /\ E[1] \in Nat /\ N[2] \in Nat /\ E[1] = Lesser(q[1].max_start, E[2] + q[1].delta) /\ E[2] \in Nat
  <2>1. 1 \in 1 .. n + 1 /\ 2 \in 1 .. n + 1 /\ 1 + 1 = 2
    BY <1>2
  <2>2. E[1] = Lesser(q[1].max_start, E[1 + 1] + q[1].delta)
    BY <1>1, <1>2, <1>3 DEF SpeedsOf
  <2> QED
    BY <1>1, <1>3, <2>1, <2>2 DEF SpeedsOf
<1>13. /\ q[1].delta \in Nat /\ q[1].smooth_delta \in Nat /\ 0 < q[1].smooth_delta /\ q[1].max_smoothed \in Nat
       /\ q[1].max_start \in Nat /\ q[1].max_smoothed <= q[1].max_start
  BY <1>1, <1>2, MoveIs
<1>14. p \in Passes(n) /\ p.peak \in Nat
  BY <1>1, <1>10 DEF PassInv, Waits, Passes
<1>15. Speeding(q, N, 1) /\ Lesser(E[1], p.peak) = v
  <2>1. CASE q[1].max_start = 0 /\ v = 0
    <3>1. Speeding(q, N, 1)
      <4>1. q[1].max_smoothed < N[2] + q[1].smooth_delta
        BY <1>12, <1>13, <2>1
      <4> QED
        BY <4>1 DEF Speeding
    <3>2. E[1] = 0
      BY <1>12, <1>13, <2>1 DEF Lesser
    <3> QED
      BY <1>14, <2>1, <3>1, <3>2 DEF Lesser
  <2>2. CASE \E k \in 2 .. Len(q) : \E A \in [1 .. Len(q) + 1 -> Nat] : \E B \in [1 .. Len(q) + 1 -> Nat] : Settles(q, v, k, A, B)
    <3>1. PICK k \in 2 .. Len(q) : \E A \in [1 .. Len(q) + 1 -> Nat] : \E B \in [1 .. Len(q) + 1 -> Nat] : Settles(q, v, k, A, B)
      BY <2>2
    <3>2. PICK A \in [1 .. Len(q) + 1 -> Nat] : \E B \in [1 .. Len(q) + 1 -> Nat] : Settles(q, v, k, A, B)
      BY <3>1
    <3>3. PICK B \in [1 .. Len(q) + 1 -> Nat] : Settles(q, v, k, A, B)
      BY <3>2
    <3>4. \A j \in 1 .. k : E[j] = A[j] /\ N[j] = B[j]
      BY <1>3, <1>4, <3>3, SettledStays
    <3>5. /\ Speeding(q, B, 1) /\ \A j \in 2 .. k - 1 : ~Speeding(q, B, j)
          /\ k = 2 => B[2] < q[1].max_smoothed + q[1].smooth_delta
          /\ v = Lesser(A[1], PeakOf(q, B, 1))
      BY <3>3 DEF Settles
    <3>6. k \in 2 .. n /\ 1 \in 1 .. k /\ 2 \in 1 .. k /\ 1 + 1 = 2
      BY <1>1, <1>2
    <3>7. E[1] = A[1] /\ N[1] = B[1] /\ N[1 + 1] = B[1 + 1] /\ N[2] = B[2]
      BY <3>4, <3>6
    <3>8. Speeding(q, N, 1)
      BY <3>5, <3>7 DEF Speeding
    <3>9. r.delayed # <<>> \/ N[1 + 1] < q[1].max_smoothed + q[1].smooth_delta
      <4>1. CASE k = 2
        BY <3>5, <3>6, <3>7, <4>1
      <4>2. CASE k # 2
        <5>1. 2 \in 2 .. k - 1 /\ 2 + 1 \in 1 .. k
          BY <3>6, <4>2
        <5>2. ~Speeding(q, N, 2)
          <6>1. N[2 + 1] = B[2 + 1]
            BY <3>4, <5>1
          <6> QED
            BY <3>5, <5>1, <6>1 DEF Speeding
        <5>3. ASSUME r.delayed = <<>> PROVE FALSE
          <6>1. 1 + 1 + Len(r.delayed) = 2
            BY <5>3
          <6>2. Waits(r, q, E, N, 1 + 1, 2)
            BY <1>11, <6>1 DEF PassInv
          <6>3. 2 <= Len(q)
            BY <1>1, <1>2, <3>6
          <6> QED
            BY <5>2, <6>2, <6>3 DEF Waits
        <5> QED
          BY <5>3
      <4> QED
        BY <4>1, <4>2
    <3>10. p.peak = PeakOf(q, N, 1)
      <4>1. 1 \in 1 .. Len(q)
        BY <1>1, <1>2
      <4>2. PICK m : m = 1
        OBVIOUS
      <4>3. /\ m \in 1 .. Len(q) /\ PassInv(r, q, E, N, m + 1) /\ Speeding(q, N, m)
            /\ r.delayed # <<>> \/ N[m + 1] < q[m].max_smoothed + q[m].smooth_delta
        BY <1>11, <3>8, <3>9, <4>1, <4>2
      <4>4. Visit(q[m], r, m).peak = PeakOf(q, N, m)
        BY <1>3, <1>4, <4>3, PeakReached
      <4> QED
        BY <1>11, <4>2, <4>4
    <3>11. PeakOf(q, N, 1) = PeakOf(q, B, 1)
      BY <3>7 DEF PeakOf
    <3> QED
      BY <3>5, <3>7, <3>8, <3>10, <3>11
  <2> QED
    BY <2>1, <2>2 DEF Settled
<1>16. Len(p.delayed) = 0
  <2>1. Len(p.delayed) \in Nat
    BY <1>14 DEF Passes
  <2>2. \A j \in 1 .. 1 + Len(p.delayed) - 1 : ~Speeding(q, N, j)
    BY <1>10 DEF PassInv, Waits
  <2>3. Len(p.delayed) > 0 => 1 \in 1 .. 1 + Len(p.delayed) - 1
    BY <2>1
  <2> QED
    BY <1>15, <2>1, <2>2, <2>3
<1>17. ASSUME ~p.update, p.count > 0
       PROVE  /\ p.junctions[1].start = v
              /\ \A j \in 1 .. p.count - 1 : p.junctions[j].end = p.junctions[j + 1].start
              /\ \E b \in Nat : /\ p.junctions[p.count].end = b
                                /\ p.count = Len(q) => b = 0
                                /\ p.count < Len(q) => Settled(SubSeq(q, p.count + 1, Len(q)), b)
  <2>1. 1 + Len(p.delayed) = 1
    BY <1>16
  <2>2. PICK b : Meets(p, q, E, 1, b)
    BY <1>10, <1>17, <2>1 DEF PassInv
  <2>3. p.count \in Nat
    BY <1>14 DEF Passes
  <2>4. 1 <= p.count
    BY <1>17, <2>3
  <2>5. /\ p.junctions[1].start = Lesser(E[1], p.peak) /\ p.junctions[p.count].end = b
        /\ \A j \in 1 .. p.count - 1 : p.junctions[j].end = p.junctions[j + 1].start
    BY <2>2, <2>4 DEF Meets, MeetsUpTo
  <2>6. /\ b \in Nat /\ (p.count = Len(q) => b = 0)
        /\ p.count < Len(q) => Settled(SubSeq(q, p.count + 1, Len(q)), b)
    BY <2>2 DEF Meets
  <2> QED
    BY <1>15, <2>5, <2>6
<1> QED
  BY <1>1, <1>14, <1>17 DEF PassMeets

LEMMA RestFits ==
  ASSUME NEW q, QueueFits(q), NEW c \in 0 .. Len(q)
  PROVE  QueueFits(SubSeq(q, c + 1, Len(q))) /\ (SubSeq(q, c + 1, Len(q)) = <<>> => c = Len(q))
<1>1. PICK n, Q, len : n = Len(q) /\ Q = SubSeq(q, c + 1, n) /\ len = n - c
  OBVIOUS
<1>2. n \in Nat /\ c \in 0 .. n /\ q \in Seq(QueuedMoves)
  BY <1>1 DEF QueueFits
<1>3. Q \in Seq(QueuedMoves) /\ Len(Q) = len /\ \A i \in 1 .. len : Q[i] = q[c + i]
  <2>1. \A i \in 1 .. len : c + 1 + i - 1 = c + i
    BY <1>1, <1>2
  <2>2. Q \in Seq(QueuedMoves) /\ Len(Q) = len /\ \A i \in 1 .. len : Q[i] = q[c + 1 + i - 1]
    BY <1>1, <1>2
  <2> QED
    BY <2>1, <2>2
<1>4. \A i \in 1 .. len : c + i \in 1 .. n
  BY <1>1, <1>2
<1>5. \A i \in 1 .. len : MoveFits(Q[i])
  BY <1>1, <1>3, <1>4 DEF QueueFits
<1>6. ASSUME NEW i \in 1 .. len - 1 PROVE Follows(Q[i + 1], Q[i])
  <2>1. PICK j : j = c + i
    OBVIOUS
  <2>2. j \in 1 .. n - 1 /\ j + 1 = c + (i + 1) /\ i \in 1 .. len /\ i + 1 \in 1 .. len
    BY <1>1, <1>2, <2>1
  <2>3. Follows(q[j + 1], q[j])
    BY <1>1, <2>2 DEF QueueFits
  <2> QED
    BY <1>3, <2>1, <2>2, <2>3
<1>7. Q = <<>> => c = n
  <2>1. Q = <<>> => len = 0
    BY <1>3
  <2> QED
    BY <1>1, <1>2, <2>1
<1> QED
  BY <1>1, <1>3, <1>5, <1>6, <1>7 DEF QueueFits

\* The move that is added may begin no faster than the one before it allows.
LEMMA JunctionFits ==
  ASSUME LookAheadAssumed, NEW m \in Moves, NEW corner \in Corners, NEW l, MoveFits(l)
  PROVE  MoveFits(calc_junction(m, l, corner)) /\ Follows(calc_junction(m, l, corner), l)
<1>1. /\ m \in QueuedMoves /\ 0 < m.smooth_delta /\ m.smooth_delta <= m.delta /\ corner \in Nat
      /\ m.cruise \in Nat /\ m.delta \in Nat /\ m.smooth_delta \in Nat
  BY DEF LookAheadAssumed, QueuedMoves
<1>2. /\ l.cruise \in Nat /\ l.max_start \in Nat /\ l.delta \in Nat /\ l.max_smoothed \in Nat /\ l.smooth_delta \in Nat
  BY DEF MoveFits, QueuedMoves
<1>3. PICK reach, smooth : /\ reach = l.max_start + l.delta /\ reach \in Nat
                           /\ smooth = l.max_smoothed + l.smooth_delta /\ smooth \in Nat
  BY <1>2
<1>4. PICK start : start = Lesser(corner, Lesser(m.cruise, Lesser(l.cruise, reach)))
  OBVIOUS
<1>5. start \in Nat /\ start <= m.cruise /\ start <= l.cruise /\ start <= reach
  BY <1>1, <1>2, <1>3, <1>4 DEF Lesser
<1>6. Least({corner, m.cruise, l.cruise, reach}) = start
  <2>1. PICK x, y : x = m.cruise /\ y = l.cruise /\ x \in Nat /\ y \in Nat
    BY <1>1, <1>2
  <2>2. corner \in Nat /\ reach \in Nat
    BY <1>1, <1>3
  <2>3. Least({corner, x, y, reach}) = Lesser(corner, Lesser(x, Lesser(y, reach)))
    BY <2>1, <2>2, LeastOfSome
  <2> QED
    BY <1>4, <2>1, <2>3
<1>7. PICK slow : slow = Lesser(start, smooth) /\ Least({start, smooth}) = slow
  BY <1>3, <1>5, LeastOfTwo
<1>8. slow \in Nat /\ slow <= start /\ slow <= smooth /\ (slow = start \/ slow = smooth)
  BY <1>3, <1>5, <1>7 DEF Lesser
<1>9. PICK a : a = [m EXCEPT !.max_start = start, !.max_smoothed = slow]
  OBVIOUS
<1>10. calc_junction(m, l, corner) = a
  BY <1>3, <1>6, <1>7, <1>9 DEF calc_junction
<1>11. /\ a.max_start = start /\ a.max_smoothed = slow /\ a.cruise = m.cruise
       /\ a.delta = m.delta /\ a.smooth_delta = m.smooth_delta
  BY <1>1, <1>9 DEF QueuedMoves
<1>12. a \in QueuedMoves
  BY <1>1, <1>5, <1>8, <1>9 DEF QueuedMoves
<1>13. MoveFits(a)
  BY <1>1, <1>5, <1>8, <1>11, <1>12 DEF MoveFits
<1>14. Follows(a, l)
  BY <1>3, <1>5, <1>8, <1>11 DEF Follows
<1> QED
  BY <1>10, <1>13, <1>14

LEMMA AppendFits ==
  ASSUME NEW q, QueueFits(q), NEW a, MoveFits(a), q # <<>> => Follows(a, q[Len(q)])
  PROVE  QueueFits(Append(q, a))
<1>1. PICK n, Q : n = Len(q) /\ Q = Append(q, a)
  OBVIOUS
<1>2. q \in Seq(QueuedMoves) /\ a \in QueuedMoves /\ n \in Nat
  BY <1>1 DEF QueueFits, MoveFits
<1>3. Q \in Seq(QueuedMoves) /\ Len(Q) = n + 1 /\ Q[n + 1] = a /\ \A i \in 1 .. n : Q[i] = q[i]
  BY <1>1, <1>2
<1>4. ASSUME NEW i \in 1 .. n + 1 PROVE MoveFits(Q[i])
  <2>1. CASE i = n + 1
    BY <1>3, <2>1
  <2>2. CASE i # n + 1
    <3>1. i \in 1 .. n
      BY <1>2, <2>2
    <3> QED
      BY <1>1, <1>3, <3>1 DEF QueueFits
  <2> QED
    BY <2>1, <2>2
<1>5. ASSUME NEW i \in 1 .. n + 1 - 1 PROVE Follows(Q[i + 1], Q[i])
  <2>1. i \in 1 .. n
    BY <1>2
  <2>2. CASE i = n
    <3>1. q # <<>>
      BY <1>1, <2>1, <2>2
    <3> QED
      BY <1>1, <1>3, <2>1, <2>2, <3>1
  <2>3. CASE i # n
    <3>1. i \in 1 .. n - 1 /\ i + 1 \in 1 .. n
      BY <1>2, <2>1, <2>3
    <3> QED
      BY <1>1, <1>3, <2>1, <3>1 DEF QueueFits
  <2> QED
    BY <2>2, <2>3
<1> QED
  BY <1>1, <1>3, <1>4, <1>5 DEF QueueFits

\* A queue that is settled stays so when a move is added.
LEMMA AppendSettled ==
  ASSUME NEW q, QueueFits(q), q # <<>>, NEW a, MoveFits(a), NEW v, Settled(q, v)
  PROVE  Settled(Append(q, a), v)
<1>1. PICK n, Q : n = Len(q) /\ Q = Append(q, a)
  OBVIOUS
<1>2. q \in Seq(QueuedMoves) /\ a \in QueuedMoves /\ n \in Nat /\ n >= 1
  BY <1>1 DEF QueueFits, MoveFits
<1>3. Q \in Seq(QueuedMoves) /\ Len(Q) = n + 1 /\ Q[n + 1] = a /\ \A i \in 1 .. n : Q[i] = q[i]
  BY <1>1, <1>2
<1>4. Q[1] = q[1] /\ 1 \in 1 .. n
  BY <1>2, <1>3
<1>5. CASE q[1].max_start = 0 /\ v = 0
  <2>1. Settled(Q, v)
    BY <1>4, <1>5 DEF Settled
  <2> QED
    BY <1>1, <2>1
<1>6. ASSUME NEW k \in 2 .. Len(q), NEW A \in [1 .. Len(q) + 1 -> Nat], NEW B \in [1 .. Len(q) + 1 -> Nat], Settles(q, v, k, A, B)
      PROVE  Settled(Append(q, a), v)
  <2>1. PICK e, s : /\ e = [j \in 1 .. n + 2 |-> IF j = n + 2 THEN 0 ELSE A[j]]
                    /\ s = [j \in 1 .. n + 2 |-> IF j = n + 2 THEN 0 ELSE B[j]]
    OBVIOUS
  <2>2. /\ k \in 2 .. n /\ A \in [1 .. n + 1 -> Nat] /\ B \in [1 .. n + 1 -> Nat] /\ B[n + 1] = 0
        /\ \A j \in 1 .. n : B[j] <= q[j].max_smoothed /\ B[j] <= B[j + 1] + q[j].smooth_delta
        /\ Speeding(q, B, k) /\ A[k] = q[k].max_start /\ B[k] = q[k].max_start /\ q[k].max_smoothed = q[k].max_start
        /\ \A j \in 1 .. k - 1 : /\ A[j] = Lesser(q[j].max_start, A[j + 1] + q[j].delta)
                                  /\ B[j] = Lesser(q[j].max_smoothed, B[j + 1] + q[j].smooth_delta)
        /\ Speeding(q, B, 1) /\ \A j \in 2 .. k - 1 : ~Speeding(q, B, j)
        /\ k = 2 => B[2] < q[1].max_smoothed + q[1].smooth_delta
        /\ v = Lesser(A[1], PeakOf(q, B, 1))
    BY <1>1, <1>6, Zenon DEF Settles
  <2>3. \A j \in 1 .. n + 1 : j \in 1 .. n + 2 /\ j # n + 2
    BY <1>2
  <2>4. n + 2 \in 1 .. n + 2 /\ n + 2 = (n + 1) + 1 /\ \A j \in 1 .. n : j \in 1 .. n + 1 /\ j + 1 \in 1 .. n + 1
    BY <1>2
  <2>5. \A j \in 1 .. n + 1 : e[j] = A[j] /\ s[j] = B[j]
    BY <2>1, <2>3
  <2>6. s[n + 2] = 0 /\ e \in [1 .. n + 2 -> Nat] /\ s \in [1 .. n + 2 -> Nat]
    <3>1. s[n + 2] = 0
      BY <2>1, <2>4
    <3>2. \A j \in 1 .. n + 2 : j # n + 2 => j \in 1 .. n + 1
      BY <1>2
    <3> QED
      BY <2>1, <2>2, <3>1, <3>2
  <2>7. \A j \in 1 .. n : /\ Q[j] = q[j] /\ e[j] = A[j] /\ s[j] = B[j] /\ e[j + 1] = A[j + 1] /\ s[j + 1] = B[j + 1]
                          /\ (Speeding(Q, s, j) <=> Speeding(q, B, j))
    BY <1>3, <2>4, <2>5 DEF Speeding
  <2>8. ASSUME NEW j \in 1 .. n + 1 PROVE s[j] <= Q[j].max_smoothed /\ s[j] <= s[j + 1] + Q[j].smooth_delta
    <3>1. CASE j = n + 1
      <4>1. s[j] = 0 /\ s[j + 1] = 0 /\ Q[j] = a
        BY <1>3, <2>2, <2>4, <2>5, <2>6, <3>1
      <4>2. a.max_smoothed \in Nat /\ a.smooth_delta \in Nat
        BY <1>2 DEF QueuedMoves
      <4> QED
        BY <4>1, <4>2
    <3>2. CASE j # n + 1
      <4>1. j \in 1 .. n
        BY <1>2, <3>2
      <4> QED
        BY <2>2, <2>7, <4>1
    <3> QED
      BY <3>1, <3>2
  <2>9. k \in 1 .. n /\ 1 \in 1 .. n /\ 1 + 1 = 2 /\ (\A j \in 1 .. k - 1 : j \in 1 .. n) /\ \A j \in 2 .. k - 1 : j \in 1 .. n
    <3>1. k \in 2 .. n
      BY <2>2
    <3> QED
      BY <1>2, <3>1
  <2>10. Speeding(Q, s, k) /\ e[k] = Q[k].max_start /\ s[k] = Q[k].max_start /\ Q[k].max_smoothed = Q[k].max_start
    BY <2>2, <2>7, <2>9
  <2>11. \A j \in 1 .. k - 1 : /\ e[j] = Lesser(Q[j].max_start, e[j + 1] + Q[j].delta)
                               /\ s[j] = Lesser(Q[j].max_smoothed, s[j + 1] + Q[j].smooth_delta)
    BY <2>2, <2>7, <2>9
  <2>12. Speeding(Q, s, 1) /\ \A j \in 2 .. k - 1 : ~Speeding(Q, s, j)
    BY <2>2, <2>7, <2>9
  <2>13. k = 2 => s[2] < Q[1].max_smoothed + Q[1].smooth_delta
    BY <2>2, <2>7, <2>9
  <2>14. v = Lesser(e[1], PeakOf(Q, s, 1))
    BY <2>2, <2>7, <2>9 DEF PeakOf
  <2>15. Len(Q) + 1 = n + 2 /\ Len(Q) = n + 1
    BY <1>2, <1>3
  <2>16. Settles(Q, v, k, e, s)
    BY <2>6, <2>8, <2>10, <2>11, <2>12, <2>13, <2>14, <2>15, Zenon DEF Settles
  <2>17. k \in 2 .. Len(Q) /\ e \in [1 .. Len(Q) + 1 -> Nat] /\ s \in [1 .. Len(Q) + 1 -> Nat]
    BY <1>2, <2>2, <2>6, <2>15
  <2>18. Settled(Q, v)
    BY <2>16, <2>17, Zenon DEF Settled
  <2> QED
    BY <1>1, <2>18
<1> QED
  BY <1>5, <1>6 DEF Settled

\* A flush hands on moves that meet, and leaves a queue that begins where they end.
LEMMA LazyFlushKeeps ==
  ASSUME NEW q, QueueFits(q), q # <<>>, NEW lazy \in BOOLEAN, flushed \in Seq(JunctionSpeeds),
         Settled(q, LastEnd), flushed # <<>> => flushed[1].start = entry,
         \A i \in 1 .. Len(flushed) - 1 : flushed[i].end = flushed[i + 1].start,
         flush(q, lazy)
  PROVE  LookAheadInv'
<1>1. PICK v : v = LastEnd
  OBVIOUS
<1>2. PICK p, n, c : p = Pass(q, lazy) /\ n = Len(q) /\ c = IF p.update THEN 0 ELSE p.count
  OBVIOUS
<1>3. PassMeets(p, q, v)
  BY <1>1, <1>2, PassIs
<1>4. CASE c = 0
  <2>1. moves' = q /\ flushed' = flushed /\ entry' = entry
    BY <1>2, <1>4 DEF flush
  <2>2. LastEnd' = LastEnd
    BY <2>1 DEF LastEnd
  <2> QED
    BY <2>1, <2>2 DEF LookAheadInv, JunctionsMeet
<1>5. CASE c # 0
  <2>1. moves' = SubSeq(q, c + 1, n) /\ flushed' = SubSeq(p.junctions, 1, c) /\ entry' = LastEnd
    BY <1>2, <1>5 DEF flush
  <2>2. ~p.update /\ p.count = c /\ n \in Nat /\ c \in 1 .. n /\ p.junctions \in [1 .. n -> JunctionSpeeds]
    BY <1>2, <1>3, <1>5 DEF PassMeets, Passes, QueueFits
  <2>3. PICK J : J = p.junctions
    OBVIOUS
  <2>4. /\ J[1].start = v /\ \A j \in 1 .. c - 1 : J[j].end = J[j + 1].start
        /\ \E b \in Nat : J[c].end = b /\ (c = n => b = 0) /\ (c < n => Settled(SubSeq(q, c + 1, n), b))
    BY <1>2, <1>3, <2>2, <2>3 DEF PassMeets
  <2>5. PICK b \in Nat : J[c].end = b /\ (c = n => b = 0) /\ (c < n => Settled(SubSeq(q, c + 1, n), b))
    BY <2>4
  <2>6. J \in Seq(JunctionSpeeds) /\ Len(J) = n
    BY <2>2, <2>3
  <2>7. PICK F : F = SubSeq(J, 1, c)
    OBVIOUS
  <2>8. F \in Seq(JunctionSpeeds) /\ Len(F) = c /\ \A i \in 1 .. c : F[i] = J[i]
    BY <2>2, <2>6, <2>7
  <2>9. flushed' = F
    BY <2>1, <2>3, <2>7
  <2>10. F # <<>> /\ 1 \in 1 .. c /\ c \in 1 .. c
    BY <2>2, <2>8
  <2>11. LastEnd' = b
    BY <2>5, <2>8, <2>9, <2>10 DEF LastEnd
  <2>12. flushed'[1].start = entry'
    BY <1>1, <2>1, <2>4, <2>8, <2>9, <2>10
  <2>13. \A i \in 1 .. Len(flushed') - 1 : flushed'[i].end = flushed'[i + 1].start
    <3>1. \A i \in 1 .. c - 1 : i \in 1 .. c /\ i + 1 \in 1 .. c
      BY <2>2
    <3>2. \A i \in 1 .. c - 1 : F[i].end = F[i + 1].start
      BY <2>4, <2>8, <3>1
    <3> QED
      BY <2>8, <2>9, <3>2
  <2>14. QueueFits(moves') /\ (moves' = <<>> => c = n)
    <3>1. c \in 0 .. Len(q)
      BY <1>2, <2>2
    <3> QED
      BY <1>2, <2>1, <3>1, RestFits
  <2>15. moves' # <<>> => Settled(moves', b)
    <3> SUFFICES ASSUME moves' # <<>> PROVE c < n
      BY <2>1, <2>5
    <3>1. SubSeq(q, c + 1, n) # <<>>
      BY <2>1
    <3>2. q \in Seq(QueuedMoves)
      BY DEF QueueFits
    <3>3. c # n
      <4> SUFFICES ASSUME c = n PROVE SubSeq(q, n + 1, n) = <<>>
        BY <3>1
      <4> QED
        BY <1>2, <2>2, <3>2
    <3> QED
      BY <2>2, <3>3
  <2>16. moves' = <<>> => LastEnd' = 0
    BY <2>5, <2>11, <2>14
  <2>17. JunctionsMeet'
    BY <2>12, <2>13, <2>16 DEF JunctionsMeet
  <2>18. flushed' \in Seq(JunctionSpeeds)
    BY <2>8, <2>9
  <2>19. moves' # <<>> => Settled(moves', LastEnd')
    BY <2>11, <2>15
  <2> QED
    BY <2>14, <2>17, <2>18, <2>19 DEF LookAheadInv
<1> QED
  BY <1>4, <1>5

LEMMA LookAheadStarts ==
  ASSUME LookAheadAssumed, InitLookAhead
  PROVE  LookAheadInv
<1>1. moves = <<>> /\ flushed = <<>> /\ LastEnd = 0 /\ Len(moves) = 0 /\ Len(flushed) = 0
  BY DEF InitLookAhead, LastEnd
<1>2. QueueFits(moves)
  <2>1. \A i \in 1 .. Len(moves) : FALSE
    BY <1>1
  <2>2. \A i \in 1 .. Len(moves) - 1 : FALSE
    BY <1>1
  <2>3. moves \in Seq(QueuedMoves)
    BY <1>1
  <2> QED
    BY <2>1, <2>2, <2>3 DEF QueueFits
<1>3. \A i \in 1 .. Len(flushed) - 1 : FALSE
  BY <1>1
<1>4. flushed \in Seq(JunctionSpeeds)
  BY <1>1
<1>5. JunctionsMeet
  BY <1>1, <1>3 DEF JunctionsMeet
<1> QED
  BY <1>1, <1>2, <1>4, <1>5 DEF LookAheadInv

LEMMA LookAheadKeeps ==
  ASSUME LookAheadAssumed, LookAheadInv, [NextLookAhead]_lookahead_vars
  PROVE  LookAheadInv'
<1>1. /\ QueueFits(moves) /\ flushed \in Seq(JunctionSpeeds) /\ (moves # <<>> => Settled(moves, LastEnd))
      /\ flushed # <<>> => flushed[1].start = entry
      /\ \A i \in 1 .. Len(flushed) - 1 : flushed[i].end = flushed[i + 1].start
      /\ moves = <<>> => LastEnd = 0
  BY DEF LookAheadInv, JunctionsMeet
<1>2. CASE UNCHANGED lookahead_vars
  <2>1. moves' = moves /\ flushed' = flushed /\ entry' = entry
    BY <1>2 DEF lookahead_vars
  <2>2. LastEnd' = LastEnd
    BY <2>1 DEF LastEnd
  <2> QED
    BY <2>1, <2>2 DEF LookAheadInv, JunctionsMeet
<1>3. CASE FlushAll
  <2>1. PICK q : q = moves
    OBVIOUS
  <2>2. q # <<>> /\ flush(q, FALSE)
    BY <1>3, <2>1 DEF FlushAll, flush
  <2>3. QueueFits(q) /\ Settled(q, LastEnd)
    BY <1>1, <2>1, <2>2
  <2>4. FALSE \in BOOLEAN
    OBVIOUS
  <2> QED
    BY <1>1, <2>2, <2>3, <2>4, LazyFlushKeeps
<1>4. ASSUME NEW m \in Moves, NEW corner \in Corners, add_move(m, corner) PROVE LookAheadInv'
  <2>1. PICK old, q, a : /\ old = moves /\ a = (IF old = <<>> THEN m ELSE calc_junction(m, old[Len(old)], corner))
                         /\ q = Append(old, a)
    OBVIOUS
  <2>2. \/ moves' = q /\ UNCHANGED <<flushed, entry>>
        \/ flush(q, TRUE)
    BY <1>4, <2>1 DEF add_move, flush
  <2>3. MoveFits(m) /\ m.max_start = 0
    BY DEF LookAheadAssumed, MoveFits, QueuedMoves
  <2>4. old \in Seq(QueuedMoves) /\ Len(old) \in Nat /\ QueueFits(old)
    BY <1>1, <2>1 DEF QueueFits
  <2>5. MoveFits(a) /\ (old # <<>> => Follows(a, old[Len(old)]))
    <3>1. CASE old = <<>>
      BY <2>1, <2>3, <3>1
    <3>2. CASE old # <<>>
      <4>1. PICK l : l = old[Len(old)]
        OBVIOUS
      <4>2. MoveFits(l)
        <5>1. Len(old) \in 1 .. Len(old)
          BY <2>4, <3>2
        <5> QED
          BY <2>4, <4>1, <5>1 DEF QueueFits
      <4>3. a = calc_junction(m, l, corner)
        BY <2>1, <3>2, <4>1
      <4> QED
        BY <4>1, <4>2, <4>3, JunctionFits
    <3> QED
      BY <3>1, <3>2
  <2>6. QueueFits(q)
    BY <2>1, <2>4, <2>5, AppendFits
  <2>7. a \in QueuedMoves
    BY <2>5 DEF MoveFits
  <2>8. q # <<>>
    BY <2>1, <2>4, <2>7
  <2>9. PICK v : v = LastEnd
    OBVIOUS
  <2>10. Settled(q, v)
    <3>1. CASE old = <<>>
      <4>1. v = 0 /\ a = m
        BY <1>1, <2>1, <2>9, <3>1
      <4>2. q[1] = m
        BY <2>1, <3>1, <4>1
      <4> QED
        BY <2>3, <4>1, <4>2 DEF Settled
    <3>2. CASE old # <<>>
      <4>1. Settled(old, v)
        BY <1>1, <2>1, <2>9, <3>2
      <4> QED
        BY <2>1, <2>4, <2>5, <3>2, <4>1, AppendSettled
    <3> QED
      BY <3>1, <3>2
  <2>11. CASE moves' = q /\ UNCHANGED <<flushed, entry>>
    <3>1. moves' = q /\ flushed' = flushed /\ entry' = entry
      BY <2>11
    <3>2. LastEnd' = LastEnd
      BY <3>1 DEF LastEnd
    <3>3. JunctionsMeet'
      BY <1>1, <2>8, <3>1 DEF JunctionsMeet
    <3>4. Settled(moves', LastEnd')
      BY <2>9, <2>10, <3>1, <3>2
    <3> QED
      BY <1>1, <2>6, <3>1, <3>3, <3>4 DEF LookAheadInv
  <2>12. CASE flush(q, TRUE)
    <3>1. TRUE \in BOOLEAN
      OBVIOUS
    <3>2. Settled(q, LastEnd)
      BY <2>9, <2>10
    <3> QED
      BY <1>1, <2>6, <2>8, <2>12, <3>1, <3>2, LazyFlushKeeps
  <2> QED
    BY <2>2, <2>11, <2>12
<1> QED
  BY <1>2, <1>3, <1>4 DEF NextLookAhead

\* Every move begins at the speed at which the one before it ends, whatever is flushed lazily.
THEOREM SpeedsAlwaysMeet ==
  ASSUME LookAheadAssumed
  PROVE  SpecLookAhead => []JunctionsMeet
<1>1. InitLookAhead => LookAheadInv
  BY LookAheadStarts
<1>2. LookAheadInv /\ [NextLookAhead]_lookahead_vars => LookAheadInv'
  BY LookAheadKeeps
<1>3. LookAheadInv => JunctionsMeet
  BY DEF LookAheadInv
<1> QED
  BY <1>1, <1>2, <1>3, PTL DEF SpecLookAhead

=============================================================================
