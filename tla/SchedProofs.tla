----------------------------- MODULE SchedProofs -----------------------------
(***************************************************************************)
(* The scheduler of the firmware, for every set of timers, every width of  *)
(* the clock, every period and every size of the receive buffer.           *)
(*                                                                         *)
(* First its halves.  The shape of the timer list: no node is linked       *)
(* twice, the guards stay in place, and insert_timer's unbounded loop      *)
(* always stops.  The safety of the task loop: its inductive invariant     *)
(* adds what the main thread may rely on where it stands, in particular    *)
(* that the flag it tests with interrupts enabled cannot go stale before   *)
(* it sleeps.                                                              *)
(*                                                                         *)
(* Then the whole.  Its callers are legal ones of the list, and its main   *)
(* thread is that of the loop (SInv); the list is in the order of time,    *)
(* the hardware is set for its first timer and no timer is too late        *)
(* (TimeInv); so each of its steps is one that module Alarms allows.       *)
(***************************************************************************)
EXTENDS Sched, TLAPS, SequenceTheorems, WellFoundedInduction

-----------------------------------------------------------------------------
(* The clock *)

\* uint32_t addition yields a time.
LEMMA PlusIsTime ==
  ASSUME NEW a \in Time, NEW d \in -Modulus .. Modulus
  PROVE  Plus(a, d) \in Time
  BY HalfRangeAssumption DEF HalfRangeAssumption, Time, Plus, Modulus

\* Every time is before p or before the time half the range after p: why two
\* guards half the range apart suffice, however far the clock has rolled.
LEMMA BeforeOneOfTwo ==
  ASSUME NEW w \in Time, NEW p \in Time
  PROVE  timer_is_before(w, p) \/ timer_is_before(w, Plus(p, HalfRange))
  BY HalfRangeAssumption DEF HalfRangeAssumption, Time, Plus, Modulus, timer_is_before, Diff

LEMMA BeforeHalfRangeLater ==
  ASSUME NEW p \in Time
  PROVE  timer_is_before(p, Plus(p, HalfRange))
  BY HalfRangeAssumption DEF HalfRangeAssumption, Time, Plus, Modulus, timer_is_before, Diff

-----------------------------------------------------------------------------
(* Sequences *)

\* A set of naturals that is not empty has a least element.
LEMMA LeastNatural ==
  ASSUME NEW T, T \subseteq Nat, T # {}
  PROVE  \E m \in T : \A n \in T : m <= n
<1> DEFINE R == OpToRel(<, Nat)
<1>1. IsWellFoundedOn(R, Nat)
  BY NatLessThanWellFounded
<1>2. \E x \in T : \A y \in T : <<y, x>> \notin R
  <2> HIDE DEF R
  <2> QED
    BY <1>1, WFMin
<1>3. \A x, y \in T : <<y, x>> \notin R => x <= y
  BY DEF OpToRel
<1>4. QED
  BY <1>2, <1>3

\* What InsertAt returns, element by element.
LEMMA InsertAtProperties ==
  ASSUME NEW q \in Seq(Node), NEW k \in 1 .. Len(q), NEW e \in Node
  PROVE  /\ InsertAt(q, k, e) \in Seq(Node)
         /\ Len(InsertAt(q, k, e)) = Len(q) + 1
         /\ \A i \in 1 .. Len(q) + 1 :
              InsertAt(q, k, e)[i] = IF i < k THEN q[i] ELSE IF i = k THEN e ELSE q[i - 1]
<1>1. SubSeq(q, 1, k - 1) \in Seq(Node) /\ SubSeq(q, k, Len(q)) \in Seq(Node) /\ <<e>> \in Seq(Node)
  OBVIOUS
<1>2. QED
  BY <1>1 DEF InsertAt

\* What RemoveAt returns, element by element.
LEMMA RemoveAtProperties ==
  ASSUME NEW q \in Seq(Node), NEW k \in 1 .. Len(q)
  PROVE  /\ RemoveAt(q, k) \in Seq(Node)
         /\ Len(RemoveAt(q, k)) = Len(q) - 1
         /\ \A i \in 1 .. Len(q) - 1 : RemoveAt(q, k)[i] = IF i < k THEN q[i] ELSE q[i + 1]
<1> DEFINE a == SubSeq(q, 1, k - 1)
           b == SubSeq(q, k + 1, Len(q))
<1>1. /\ a \in Seq(Node) /\ Len(a) = k - 1
      /\ \A i \in 1 .. k - 1 : a[i] = q[i]
  OBVIOUS
<1>2. /\ b \in Seq(Node) /\ Len(b) = Len(q) - k
      /\ \A i \in 1 .. Len(q) - k : b[i] = q[k + i]
  OBVIOUS
<1>3. RemoveAt(q, k) = a \o b
  BY DEF RemoveAt
<1> HIDE DEF a, b
<1>4. /\ a \o b \in Seq(Node) /\ Len(a \o b) = Len(a) + Len(b)
      /\ \A i \in 1 .. Len(a) + Len(b) : (a \o b)[i] = IF i <= Len(a) THEN a[i] ELSE b[i - Len(a)]
  BY <1>1, <1>2, ConcatProperties
<1>5. Len(a) + Len(b) = Len(q) - 1
  BY <1>1, <1>2
<1>6. \A i \in 1 .. Len(q) - 1 : (a \o b)[i] = IF i < k THEN q[i] ELSE q[i + 1]
  BY <1>1, <1>2, <1>4
<1>7. QED
  BY <1>3, <1>4, <1>5, <1>6

-----------------------------------------------------------------------------
(* The shape of a list: WellFormed's parts as predicates of a sequence, so   *)
(* that they can be stated of the part of the list that insert_timer gets.   *)

OnceEach(q) == \A i, j \in 1 .. Len(q) : q[i] = q[j] => i = j
EndsWithSentinel(q) == Len(q) >= 1 /\ q[Len(q)] = sentinel_timer
Placeholder(q) == \A i \in 2 .. Len(q) : q[i] # deleted_timer
Shape(q) == /\ OnceEach(q) /\ EndsWithSentinel(q) /\ Placeholder(q)
            /\ Contains(q, periodic_timer)
Guarded(wk) == wk[sentinel_timer] = Plus(wk[periodic_timer], HalfRange)

\* The three timers of the scheduler are no timers of devices.
LEMMA SchedNodesDiffer ==
  /\ periodic_timer \in Node /\ sentinel_timer \in Node /\ deleted_timer \in Node
  /\ Timers \subseteq Node
  /\ periodic_timer # sentinel_timer /\ periodic_timer # deleted_timer
  /\ sentinel_timer # deleted_timer
  /\ \A t \in Timers : t # periodic_timer /\ t # sentinel_timer /\ t # deleted_timer
<1>1. periodic_timer # sentinel_timer /\ periodic_timer # deleted_timer
      /\ sentinel_timer # deleted_timer
  BY DEF periodic_timer, sentinel_timer, deleted_timer
<1>2. QED
  BY <1>1, TimersAssumption DEF TimersAssumption, Node, SchedNodes

\* A list with both guards has at least two nodes.
LEMMA ShapeLength ==
  ASSUME NEW q \in Seq(Node), Shape(q)
  PROVE  Len(q) >= 2
<1>1. PICK i \in 1 .. Len(q) : q[i] = periodic_timer
  BY DEF Shape, Contains
<1>2. i # Len(q)
  BY <1>1, SchedNodesDiffer DEF Shape, EndsWithSentinel
<1>3. QED
  BY <1>1, <1>2

\* WellFormed is the shape of the list and the distance of the guards.
LEMMA WellFormedIsShape ==
  ASSUME timer_list \in Seq(Node)
  PROVE  WellFormed <=> Shape(timer_list) /\ Guarded(waketime)
<1>1. Shape(timer_list) => Len(timer_list) >= 2
  BY ShapeLength
<1>2. QED
  BY <1>1 DEF WellFormed, NoNodeTwice, SentinelIsLast, PlaceholderIsFirst, Listed,
       Shape, OnceEach, EndsWithSentinel, Contains, Placeholder, Guarded

\* Taking the first node off keeps the shape unless it is periodic_timer.
LEMMA TailShape ==
  ASSUME NEW q \in Seq(Node), Shape(q)
  PROVE  /\ Tail(q) \in Seq(Node) /\ Len(Tail(q)) = Len(q) - 1
         /\ \A i \in 1 .. Len(Tail(q)) : Tail(q)[i] = q[i + 1]
         /\ OnceEach(Tail(q)) /\ EndsWithSentinel(Tail(q))
         /\ ~Contains(Tail(q), deleted_timer) /\ ~Contains(Tail(q), Head(q))
         /\ Head(q) # periodic_timer => Shape(Tail(q))
<1>1. Len(q) >= 2
  BY ShapeLength
<1>2. /\ Tail(q) \in Seq(Node) /\ Len(Tail(q)) = Len(q) - 1
      /\ \A i \in 1 .. Len(Tail(q)) : Tail(q)[i] = q[i + 1]
      /\ Head(q) = q[1]
  BY <1>1
<1>3. OnceEach(Tail(q)) /\ ~Contains(Tail(q), Head(q))
  BY <1>1, <1>2 DEF Shape, OnceEach, Contains
<1>4. EndsWithSentinel(Tail(q))
  BY <1>1, <1>2 DEF Shape, EndsWithSentinel
<1>5. ~Contains(Tail(q), deleted_timer)
  BY <1>1, <1>2 DEF Shape, Placeholder, Contains
<1>6. ASSUME Head(q) # periodic_timer PROVE Contains(Tail(q), periodic_timer)
  <2>1. PICK i \in 1 .. Len(q) : q[i] = periodic_timer
    BY DEF Shape, Contains
  <2>2. i # 1
    BY <1>2, <1>6, <2>1
  <2>3. i - 1 \in 1 .. Len(Tail(q)) /\ Tail(q)[i - 1] = periodic_timer
    BY <1>2, <2>1, <2>2
  <2>4. QED
    BY <2>3 DEF Contains
<1>7. Placeholder(Tail(q))
  BY <1>2, <1>5 DEF Placeholder, Contains
<1>8. QED
  BY <1>2, <1>3, <1>4, <1>5, <1>6, <1>7 DEF Shape

\* A node that is not on the list may come before it.
LEMMA PrependShape ==
  ASSUME NEW q \in Seq(Node), OnceEach(q), EndsWithSentinel(q),
         Contains(q, periodic_timer), ~Contains(q, deleted_timer),
         NEW n \in Node, ~Contains(q, n)
  PROVE  /\ <<n>> \o q \in Seq(Node) /\ Shape(<<n>> \o q)
         /\ \A m : Contains(<<n>> \o q, m) => m = n \/ Contains(q, m)
<1> DEFINE r == <<n>> \o q
<1>1. <<n>> \in Seq(Node)
  OBVIOUS
<1>2. /\ r \in Seq(Node) /\ Len(r) = Len(q) + 1
      /\ r[1] = n
      /\ \A i \in 2 .. Len(r) : i - 1 \in 1 .. Len(q) /\ r[i] = q[i - 1]
  BY <1>1
<1> HIDE DEF r
<1>3. \A i \in 2 .. Len(r) : r[i] # n /\ r[i] # deleted_timer
  BY <1>2 DEF Contains
<1>4. OnceEach(r)
  <2> SUFFICES ASSUME NEW i \in 1 .. Len(r), NEW j \in 1 .. Len(r), r[i] = r[j] PROVE i = j
    BY DEF OnceEach
  <2>1. CASE i = 1 \/ j = 1
    BY <1>2, <1>3, <2>1
  <2>2. CASE i # 1 /\ j # 1
    <3>1. q[i - 1] = q[j - 1] /\ i - 1 \in 1 .. Len(q) /\ j - 1 \in 1 .. Len(q)
      BY <1>2, <2>2
    <3>2. QED
      BY <3>1 DEF OnceEach
  <2>3. QED
    BY <2>1, <2>2
<1>5. EndsWithSentinel(r) /\ Placeholder(r)
  BY <1>2, <1>3 DEF EndsWithSentinel, Placeholder
<1>6. Contains(r, periodic_timer)
  <2>1. PICK i \in 1 .. Len(q) : q[i] = periodic_timer
    BY DEF Contains
  <2>2. i + 1 \in 1 .. Len(r) /\ r[i + 1] = periodic_timer
    BY <1>2, <2>1
  <2>3. QED
    BY <2>2 DEF Contains
<1>7. ASSUME NEW m, Contains(r, m) PROVE m = n \/ Contains(q, m)
  <2>1. PICK i \in 1 .. Len(r) : r[i] = m
    BY <1>7 DEF Contains
  <2>2. CASE i = 1
    BY <1>2, <2>1, <2>2
  <2>3. CASE i # 1
    BY <1>2, <2>1, <2>3 DEF Contains
  <2>4. QED
    BY <2>2, <2>3
<1>8. QED
  BY <1>2, <1>4, <1>5, <1>6, <1>7 DEF Shape, r

\* A list in which t is put between two nodes keeps its shape; it holds
\* periodic_timer if it did before or if t is that timer.
LEMMA InsertShape ==
  ASSUME NEW q \in Seq(Node), OnceEach(q), EndsWithSentinel(q), Placeholder(q),
         NEW t \in Node, ~Contains(q, t), t # deleted_timer,
         Contains(q, periodic_timer) \/ t = periodic_timer,
         NEW k \in 2 .. Len(q)
  PROVE  InsertAt(q, k, t) \in Seq(Node) /\ Shape(InsertAt(q, k, t))
<1> DEFINE r == InsertAt(q, k, t)
           old(i) == IF i < k THEN i ELSE i - 1
<1>0. k \in 1 .. Len(q)
  OBVIOUS
<1>1. /\ r \in Seq(Node) /\ Len(r) = Len(q) + 1
      /\ \A i \in 1 .. Len(r) : r[i] = IF i < k THEN q[i] ELSE IF i = k THEN t ELSE q[i - 1]
  <2>1. /\ r \in Seq(Node) /\ Len(r) = Len(q) + 1
        /\ \A i \in 1 .. Len(q) + 1 :
             r[i] = IF i < k THEN q[i] ELSE IF i = k THEN t ELSE q[i - 1]
    <3>1. r \in Seq(Node) /\ Len(r) = Len(q) + 1
      BY <1>0, InsertAtProperties
    <3>2. \A i \in 1 .. Len(q) + 1 :
            r[i] = IF i < k THEN q[i] ELSE IF i = k THEN t ELSE q[i - 1]
      BY <1>0, InsertAtProperties
    <3>3. QED
      BY <3>1, <3>2
  <2> HIDE DEF r
  <2>2. QED
    BY <2>1
<1> HIDE DEF r
<1>2. \A i \in 1 .. Len(r) : i # k => old(i) \in 1 .. Len(q) /\ r[i] = q[old(i)]
  BY <1>1
<1>3. r[k] = t /\ \A i \in 1 .. Len(r) : i # k => r[i] # t
  <2>1. k \in 1 .. Len(r)
    BY <1>0, <1>1
  <2>2. r[k] = t
    BY <1>1, <2>1
  <2>3. \A j \in 1 .. Len(q) : q[j] # t
    BY DEF Contains
  <2> HIDE DEF old
  <2>4. QED
    BY <1>2, <2>2, <2>3
<1>4. OnceEach(r)
  <2> SUFFICES ASSUME NEW i \in 1 .. Len(r), NEW j \in 1 .. Len(r), r[i] = r[j] PROVE i = j
    BY DEF OnceEach
  <2>1. CASE i = k \/ j = k
    BY <1>3, <2>1
  <2>2. CASE i # k /\ j # k
    <3>1. old(i) \in 1 .. Len(q) /\ old(j) \in 1 .. Len(q) /\ q[old(i)] = q[old(j)]
      BY <1>2, <2>2
    <3>2. old(i) = old(j)
      BY <3>1 DEF OnceEach
    <3>3. QED
      BY <3>2, <2>2
  <2>3. QED
    BY <2>1, <2>2
<1>5. EndsWithSentinel(r)
  BY <1>1 DEF EndsWithSentinel
<1>6. Placeholder(r)
  <2> SUFFICES ASSUME NEW i \in 2 .. Len(r) PROVE r[i] # deleted_timer
    BY DEF Placeholder
  <2>1. i \in 1 .. Len(r)
    OBVIOUS
  <2>2. CASE i = k
    BY <1>3, <2>2
  <2>3. CASE i # k
    <3>1. r[i] = q[old(i)]
      BY <1>2, <2>1, <2>3
    <3>2. old(i) \in 2 .. Len(q)
      BY <1>1, <2>1, <2>3
    <3>3. QED
      BY <3>1, <3>2 DEF Placeholder
  <2>4. QED
    BY <2>2, <2>3
<1>7. Contains(r, periodic_timer)
  <2>1. CASE t = periodic_timer
    <3>1. k \in 1 .. Len(r)
      BY <1>1
    <3>2. QED
      BY <3>1, <1>3, <2>1 DEF Contains
  <2>2. CASE Contains(q, periodic_timer)
    <3>1. PICK i \in 1 .. Len(q) : q[i] = periodic_timer
      BY <2>2 DEF Contains
    <3>2. CASE i < k
      <4>1. i \in 1 .. Len(r) /\ r[i] = periodic_timer
        BY <1>1, <3>1, <3>2
      <4>2. QED
        BY <4>1 DEF Contains
    <3>3. CASE i >= k
      <4>1. i + 1 \in 1 .. Len(r) /\ r[i + 1] = periodic_timer
        BY <1>1, <3>1, <3>3
      <4>2. QED
        BY <4>1 DEF Contains
    <3>4. QED
      BY <3>2, <3>3
  <2>3. QED
    BY <2>1, <2>2
<1>8. QED
  BY <1>1, <1>4, <1>5, <1>6, <1>7 DEF Shape, r

\* Unlinking a device's timer that is not first keeps the shape.
LEMMA RemoveShape ==
  ASSUME NEW q \in Seq(Node), Shape(q),
         NEW k \in 2 .. Len(q), q[k] \in Timers
  PROVE  RemoveAt(q, k) \in Seq(Node) /\ Shape(RemoveAt(q, k))
<1> DEFINE r == RemoveAt(q, k)
           old(i) == IF i < k THEN i ELSE i + 1
<1>0. k \in 1 .. Len(q)
  OBVIOUS
<1>1. /\ r \in Seq(Node) /\ Len(r) = Len(q) - 1
      /\ \A i \in 1 .. Len(r) : old(i) \in 1 .. Len(q) /\ r[i] = q[old(i)]
  <2>1. /\ r \in Seq(Node) /\ Len(r) = Len(q) - 1
        /\ \A i \in 1 .. Len(q) - 1 : r[i] = IF i < k THEN q[i] ELSE q[i + 1]
    BY <1>0, RemoveAtProperties
  <2> HIDE DEF r
  <2>2. QED
    BY <1>0, <2>1
<1> HIDE DEF r
<1>2. k # Len(q)
  BY SchedNodesDiffer DEF Shape, EndsWithSentinel
<1>3. OnceEach(r)
  <2> SUFFICES ASSUME NEW i \in 1 .. Len(r), NEW j \in 1 .. Len(r), r[i] = r[j] PROVE i = j
    BY DEF OnceEach
  <2>1. old(i) = old(j)
    BY <1>1 DEF Shape, OnceEach
  <2>2. QED
    BY <2>1
<1>4. EndsWithSentinel(r)
  BY <1>1, <1>2 DEF Shape, EndsWithSentinel
<1>5. Placeholder(r)
  BY <1>1 DEF Shape, Placeholder
<1>6. Contains(r, periodic_timer)
  <2>1. PICK i \in 1 .. Len(q) : q[i] = periodic_timer
    BY DEF Shape, Contains
  <2>2. i # k
    BY <2>1, SchedNodesDiffer
  <2>3. CASE i < k
    <3>1. i \in 1 .. Len(r) /\ r[i] = periodic_timer
      BY <1>1, <2>1, <2>3
    <3>2. QED
      BY <3>1 DEF Contains
  <2>4. CASE i > k
    <3>1. i - 1 \in 1 .. Len(r) /\ r[i - 1] = periodic_timer
      BY <1>1, <2>1, <2>4
    <3>2. QED
      BY <3>1 DEF Contains
  <2>5. QED
    BY <2>2, <2>3, <2>4
<1>7. QED
  BY <1>1, <1>3, <1>4, <1>5, <1>6 DEF Shape, r

-----------------------------------------------------------------------------
(* insert_timer *)

\* The loop stops if there is a node it can stop at.
LEMMA InsertPosExists ==
  ASSUME NEW q \in Seq(Node), NEW wk \in [Node -> Time], NEW w \in Time,
         NEW k \in 2 .. Len(q), timer_is_before(w, wk[q[k]])
  PROVE  /\ InsertPos(q, wk, w) \in 2 .. Len(q)
         /\ IsInsertPos(q, wk, w, InsertPos(q, wk, w))
<1> DEFINE T == {j \in 2 .. Len(q) : timer_is_before(w, wk[q[j]])}
<1>1. T \subseteq Nat /\ k \in T
  OBVIOUS
<1>2. PICK m \in T : \A n \in T : m <= n
  <2> HIDE DEF T
  <2> QED
    BY <1>1, LeastNatural
<1>3. m \in 2 .. Len(q) /\ IsInsertPos(q, wk, w, m)
  <2>1. \A j \in 2 .. (m - 1) : ~timer_is_before(w, wk[q[j]])
    BY <1>2
  <2>2. QED
    BY <1>2, <2>1 DEF IsInsertPos
<1>4. QED
  BY <1>3 DEF InsertPos

\* Between them the guards give every timer that does not come first such a
\* node.
LEMMA GuardsStopInsert ==
  ASSUME NEW q \in Seq(Node), Shape(q),
         NEW wk \in [Node -> Time], Guarded(wk),
         NEW w \in Time, ~timer_is_before(w, wk[Head(q)])
  PROVE  \E k \in 2 .. Len(q) : timer_is_before(w, wk[q[k]])
<1>1. Len(q) >= 2 /\ Head(q) = q[1]
  BY ShapeLength
<1>2. PICK p \in 1 .. Len(q) : q[p] = periodic_timer
  BY DEF Shape, Contains
<1>3. wk[periodic_timer] \in Time
  BY SchedNodesDiffer
<1>4. timer_is_before(w, wk[periodic_timer]) \/ timer_is_before(w, wk[sentinel_timer])
  BY <1>3, BeforeOneOfTwo DEF Guarded
<1>5. CASE timer_is_before(w, wk[periodic_timer])
  <2>1. p \in 2 .. Len(q)
    BY <1>1, <1>2, <1>5
  <2>2. QED
    BY <1>2, <1>5, <2>1
<1>6. CASE timer_is_before(w, wk[sentinel_timer])
  BY <1>1, <1>6 DEF Shape, EndsWithSentinel
<1>7. QED
  BY <1>4, <1>5, <1>6

\* insert_timer of a node that is not linked and does not come first.
LEMMA InsertTimerShape ==
  ASSUME NEW q \in Seq(Node), OnceEach(q), EndsWithSentinel(q), Placeholder(q),
         NEW wk \in [Node -> Time],
         NEW t \in Node, ~Contains(q, t), t # deleted_timer,
         Contains(q, periodic_timer) \/ t = periodic_timer,
         NEW k \in 2 .. Len(q), timer_is_before(wk[t], wk[q[k]])
  PROVE  insert_timer(q, wk, t) \in Seq(Node) /\ Shape(insert_timer(q, wk, t))
<1>1. wk[t] \in Time
  OBVIOUS
<1>2. InsertPos(q, wk, wk[t]) \in 2 .. Len(q)
  BY <1>1, InsertPosExists
<1>3. QED
  BY <1>2, InsertShape DEF insert_timer

-----------------------------------------------------------------------------
(* The inductive invariant *)

IInv == TypeOK /\ Shape(timer_list) /\ Guarded(waketime)

\* The static initializers of the three timers satisfy it.
LEMMA InitIInv == Init => IInv
<1> SUFFICES ASSUME Init PROVE IInv
  OBVIOUS
<1>1. timer_list \in Seq(Node) /\ Len(timer_list) = 2
      /\ timer_list[1] = periodic_timer /\ timer_list[2] = sentinel_timer
  BY SchedNodesDiffer DEF Init
<1>2. 0 \in Time /\ HalfRange \in Time /\ Plus(0, HalfRange) = HalfRange
  BY HalfRangeAssumption DEF HalfRangeAssumption, Time, Modulus, Plus
<1>3. waketime \in [Node -> Time] /\ Guarded(waketime)
  BY <1>2, SchedNodesDiffer DEF Init, Guarded
<1>4. OnceEach(timer_list) /\ EndsWithSentinel(timer_list)
  BY <1>1, SchedNodesDiffer DEF OnceEach, EndsWithSentinel
<1>5. Placeholder(timer_list) /\ Contains(timer_list, periodic_timer)
  BY <1>1, SchedNodesDiffer DEF Placeholder, Contains
<1>6. QED
  BY <1>1, <1>3, <1>4, <1>5 DEF IInv, TypeOK, Shape

\* Changing the waketime of a node other than the guards leaves their distance.
LEMMA WokenGuarded ==
  ASSUME IInv, NEW t \in Node, t # periodic_timer, t # sentinel_timer, NEW w \in Time
  PROVE  Woken(t, w) \in [Node -> Time] /\ Guarded(Woken(t, w)) /\ Woken(t, w)[t] = w
  BY SchedNodesDiffer DEF IInv, TypeOK, Woken, Guarded

\* periodic_event moves both guards.
LEMMA PeriodicGuarded ==
  ASSUME IInv
  PROVE  /\ PeriodicWaketimes \in [Node -> Time] /\ Guarded(PeriodicWaketimes)
         /\ timer_is_before(PeriodicWaketimes[periodic_timer], PeriodicWaketimes[sentinel_timer])
<1> DEFINE p == Plus(waketime[periodic_timer], Period)
<1>1. waketime[periodic_timer] \in Time
  BY SchedNodesDiffer DEF IInv, TypeOK
<1>2. Period \in -Modulus .. Modulus /\ HalfRange \in -Modulus .. Modulus
  BY HalfRangeAssumption, PeriodAssumption DEF HalfRangeAssumption, PeriodAssumption, Modulus
<1>3. p \in Time
  BY <1>1, <1>2, PlusIsTime
<1> HIDE DEF p
<1>4. Plus(p, HalfRange) \in Time /\ timer_is_before(p, Plus(p, HalfRange))
  BY <1>2, <1>3, PlusIsTime, BeforeHalfRangeLater
<1>5. PeriodicWaketimes = [waketime EXCEPT ![periodic_timer] = p,
                                           ![sentinel_timer] = Plus(p, HalfRange)]
  BY DEF PeriodicWaketimes, p
<1>6. QED
  BY <1>3, <1>4, <1>5, SchedNodesDiffer DEF IInv, TypeOK, Guarded

\* Every legal call leaves the list in shape.
LEMMA NextIInv == IInv /\ [Next]_listVars => IInv'
<1> SUFFICES ASSUME IInv, [Next]_listVars PROVE IInv'
  OBVIOUS
<1> USE DEF IInv, TypeOK
<1>1. Len(timer_list) >= 2 /\ Head(timer_list) = timer_list[1] /\ Head(timer_list) \in Node
  BY ShapeLength
<1>2. CASE Set
  <2>1. PICK t \in Timers, w \in Time : SetWaketime(t, w)
    BY <1>2 DEF Set
  <2>2. QED
    BY <2>1, WokenGuarded, SchedNodesDiffer DEF SetWaketime
<1>3. CASE Add
  <2>1. PICK t \in Timers : ~Listed(t) /\ sched_add_timer(t)
    BY <1>3 DEF Add
  <2>2. /\ t \in Node /\ ~Contains(timer_list, t)
        /\ t # deleted_timer /\ t # sentinel_timer /\ t # periodic_timer
    BY <2>1, SchedNodesDiffer DEF Listed
  <2>3. CASE AddFirst(t)
    <3> DEFINE rest == IF Head(timer_list) = deleted_timer THEN Tail(timer_list) ELSE timer_list
    <3>1. /\ rest \in Seq(Node) /\ OnceEach(rest) /\ EndsWithSentinel(rest)
          /\ Contains(rest, periodic_timer)
          /\ ~Contains(rest, deleted_timer) /\ ~Contains(rest, t)
      <4>1. CASE Head(timer_list) = deleted_timer
        <5>1. Shape(rest) /\ rest \in Seq(Node) /\ ~Contains(rest, deleted_timer)
          BY <4>1, TailShape, SchedNodesDiffer
        <5>2. \A i \in 1 .. Len(rest) : i + 1 \in 1 .. Len(timer_list) /\ rest[i] = timer_list[i + 1]
          BY <4>1, <1>1
        <5>3. ~Contains(rest, t)
          BY <5>2, <2>2 DEF Contains
        <5>4. QED
          BY <5>1, <5>3 DEF Shape
      <4>2. CASE Head(timer_list) # deleted_timer
        <5>1. ~Contains(timer_list, deleted_timer)
          BY <4>2, <1>1 DEF Shape, Placeholder, Contains
        <5>2. QED
          BY <4>2, <5>1, <2>2 DEF Shape
      <4>3. QED
        BY <4>1, <4>2
    <3> HIDE DEF rest
    <3>2. /\ <<t>> \o rest \in Seq(Node) /\ Shape(<<t>> \o rest)
          /\ ~Contains(<<t>> \o rest, deleted_timer)
      BY <2>2, <3>1, PrependShape
    <3>3. /\ <<deleted_timer>> \o (<<t>> \o rest) \in Seq(Node)
          /\ Shape(<<deleted_timer>> \o (<<t>> \o rest))
      BY <3>2, PrependShape, SchedNodesDiffer DEF Shape
    <3>4. timer_list' = <<deleted_timer>> \o (<<t>> \o rest)
      <4>1. timer_list' = <<deleted_timer, t>> \o rest
        BY <2>3 DEF AddFirst, rest
      <4>2. <<deleted_timer, t>> = <<deleted_timer>> \o <<t>>
        OBVIOUS
      <4>3. <<deleted_timer>> \in Seq(Node) /\ <<t>> \in Seq(Node)
        BY <2>2, SchedNodesDiffer
      <4>4. QED
        BY <4>1, <4>2, <4>3, <3>1, ConcatAssociative
    <3>5. waketime' \in [Node -> Time] /\ Guarded(waketime)'
      BY <2>2, <2>3, WokenGuarded, SchedNodesDiffer DEF AddFirst, Guarded
    <3>6. QED
      BY <3>3, <3>4, <3>5
  <2>4. CASE AddLater(t)
    <3>1. waketime[t] \in Time /\ ~timer_is_before(waketime[t], waketime[Head(timer_list)])
      BY <2>2, <2>4 DEF AddLater, BecomesFirst
    <3>2. PICK k \in 2 .. Len(timer_list) : timer_is_before(waketime[t], waketime[timer_list[k]])
      BY <3>1, GuardsStopInsert
    <3>3. timer_list' \in Seq(Node) /\ Shape(timer_list')
      BY <2>2, <2>4, <3>2, InsertTimerShape DEF AddLater, Shape
    <3>4. QED
      BY <2>4, <3>3 DEF AddLater, Guarded
  <2>5. QED
    BY <2>1, <2>3, <2>4 DEF sched_add_timer
<1>4. CASE Del
  <2>1. PICK t \in Timers : sched_del_timer(t)
    BY <1>4 DEF Del
  <2>2. t \in Node /\ t # deleted_timer /\ t # sentinel_timer /\ t # periodic_timer
    BY <2>1, SchedNodesDiffer
  <2>3. CASE DelFirst(t)
    <3>1. Head(timer_list) = t
      BY <2>3 DEF DelFirst
    <3>2. Tail(timer_list) \in Seq(Node) /\ Shape(Tail(timer_list)) /\ ~Contains(Tail(timer_list), deleted_timer)
      BY <2>2, <3>1, TailShape
    <3>3. timer_list' \in Seq(Node) /\ Shape(timer_list')
      BY <2>3, <3>2, PrependShape, SchedNodesDiffer DEF DelFirst, Shape
    <3>4. waketime' \in [Node -> Time] /\ Guarded(waketime)'
      BY <2>2, <2>3, WokenGuarded, SchedNodesDiffer DEF DelFirst, Guarded
    <3>5. QED
      BY <3>3, <3>4
  <2>4. CASE DelLater(t) /\ Listed(t)
    <3> DEFINE k == CHOOSE i \in 1 .. Len(timer_list) : timer_list[i] = t
    <3>1. k \in 1 .. Len(timer_list) /\ timer_list[k] = t
      BY <2>4 DEF Listed, Contains
    <3>2. timer_list' = RemoveAt(timer_list, k) /\ waketime' = waketime /\ Head(timer_list) # t
      BY <2>4 DEF DelLater
    <3> HIDE DEF k
    <3>3. k \in 2 .. Len(timer_list)
      BY <1>1, <3>1, <3>2
    <3>4. timer_list' \in Seq(Node) /\ Shape(timer_list')
      BY <3>1, <3>2, <3>3, RemoveShape
    <3>5. QED
      BY <3>2, <3>4 DEF Guarded
  <2>5. CASE DelLater(t) /\ ~Listed(t)
    BY <2>5 DEF DelLater, Guarded
  <2>6. QED
    BY <2>1, <2>3, <2>4, <2>5 DEF sched_del_timer
<1>5. CASE UserDone \/ deleted_event
  <2>1. Head(timer_list) # periodic_timer /\ timer_list' = Tail(timer_list) /\ waketime' = waketime
    BY <1>5, SchedNodesDiffer DEF UserDone, deleted_event, DispatchDone
  <2>2. timer_list' \in Seq(Node) /\ Shape(timer_list')
    BY <2>1, TailShape
  <2>3. QED
    BY <2>1, <2>2 DEF Guarded
<1>6. CASE UserReschedule
  <2> DEFINE t == Head(timer_list)
  <2>1. PICK w \in Time : t \in Timers /\ DispatchReschedule(Woken(t, w))
    BY <1>6 DEF UserReschedule
  <2> DEFINE wk == Woken(t, w)
  <2>2. t \in Node /\ t # deleted_timer /\ t # sentinel_timer /\ t # periodic_timer
    BY <2>1, SchedNodesDiffer
  <2>3. wk \in [Node -> Time] /\ Guarded(wk) /\ wk[t] \in Time
    BY <2>2, WokenGuarded
  <2>4. /\ waketime' = wk
        /\ timer_list' = IF timer_is_before(wk[t], wk[timer_list[2]])
                         THEN timer_list ELSE insert_timer(Tail(timer_list), wk, t)
    BY <2>1 DEF DispatchReschedule
  <2>5. /\ Tail(timer_list) \in Seq(Node) /\ Shape(Tail(timer_list))
        /\ ~Contains(Tail(timer_list), t)
    BY <2>2, TailShape
  <2> HIDE DEF t, wk
  <2>6. CASE timer_is_before(wk[t], wk[timer_list[2]])
    BY <2>3, <2>4, <2>6 DEF Guarded
  <2>7. CASE ~timer_is_before(wk[t], wk[timer_list[2]])
    <3>1. Head(Tail(timer_list)) = timer_list[2]
      BY <1>1
    <3>2. PICK k \in 2 .. Len(Tail(timer_list)) : timer_is_before(wk[t], wk[Tail(timer_list)[k]])
      BY <2>3, <2>5, <2>7, <3>1, GuardsStopInsert
    <3>3. timer_list' \in Seq(Node) /\ Shape(timer_list')
      BY <2>2, <2>3, <2>4, <2>5, <2>7, <3>2, InsertTimerShape DEF Shape
    <3>4. QED
      BY <2>3, <2>4, <3>3 DEF Guarded
  <2>8. QED
    BY <2>6, <2>7
<1>7. CASE periodic_event
  <2> DEFINE wk == PeriodicWaketimes
             q == Tail(timer_list)
  <2>1. /\ Head(timer_list) = periodic_timer
        /\ waketime' = wk
        /\ timer_list' = IF timer_is_before(wk[periodic_timer], wk[timer_list[2]])
                         THEN timer_list ELSE insert_timer(q, wk, periodic_timer)
    BY <1>7 DEF periodic_event, DispatchReschedule
  <2>2. /\ wk \in [Node -> Time] /\ Guarded(wk)
        /\ timer_is_before(wk[periodic_timer], wk[sentinel_timer])
    BY PeriodicGuarded
  <2>3. /\ q \in Seq(Node) /\ Len(q) = Len(timer_list) - 1 /\ q[1] = timer_list[2]
        /\ OnceEach(q) /\ EndsWithSentinel(q)
        /\ ~Contains(q, deleted_timer) /\ ~Contains(q, periodic_timer)
    BY <1>1, <2>1, TailShape
  <2> HIDE DEF wk, q
  <2>4. CASE timer_is_before(wk[periodic_timer], wk[timer_list[2]])
    BY <2>1, <2>2, <2>4 DEF Guarded
  <2>5. CASE ~timer_is_before(wk[periodic_timer], wk[timer_list[2]])
    <3>1. Len(q) \in 2 .. Len(q) /\ timer_is_before(wk[periodic_timer], wk[q[Len(q)]])
      BY <1>1, <2>2, <2>3, <2>5 DEF EndsWithSentinel
    <3>2. Placeholder(q)
      BY <2>3 DEF Placeholder, Contains
    <3>3. timer_list' \in Seq(Node) /\ Shape(timer_list')
      BY <2>1, <2>2, <2>3, <2>5, <3>1, <3>2, SchedNodesDiffer, InsertTimerShape
    <3>4. QED
      BY <2>1, <2>2, <3>3 DEF Guarded
  <2>6. QED
    BY <2>4, <2>5
<1>8. CASE sched_timer_reset
  <2>1. /\ timer_list' \in Seq(Node) /\ Len(timer_list') = 3
        /\ timer_list'[1] = deleted_timer /\ timer_list'[2] = periodic_timer
        /\ timer_list'[3] = sentinel_timer
    BY <1>8, SchedNodesDiffer DEF sched_timer_reset
  <2>2. OnceEach(timer_list') /\ EndsWithSentinel(timer_list')
    BY <2>1, SchedNodesDiffer DEF OnceEach, EndsWithSentinel
  <2>3. Placeholder(timer_list') /\ Contains(timer_list', periodic_timer)
    BY <2>1, SchedNodesDiffer DEF Placeholder, Contains
  <2>4. waketime' \in [Node -> Time] /\ Guarded(waketime')
    BY <1>8, WokenGuarded, SchedNodesDiffer DEF sched_timer_reset
  <2>5. QED
    BY <2>1, <2>2, <2>3, <2>4 DEF Shape
<1>9. CASE UNCHANGED listVars
  BY <1>9 DEF listVars, Guarded
<1>10. QED
  BY <1>2, <1>3, <1>4, <1>5, <1>6, <1>7, <1>8, <1>9 DEF Next

LEMMA SpecIInv == Spec => []IInv
  BY InitIInv, NextIInv, PTL DEF Spec

\* Every waketime stays within the width of the counter, and the list holds
\* timers only.
THEOREM TimerListTypeCorrect == Spec => []TypeOK
  BY SpecIInv, PTL DEF IInv

\* sched_add_timer, sched_del_timer, sched_timer_dispatch and
\* sched_timer_reset, in any legal order, never link a node twice, never lose a
\* guard and keep the guards half the range apart.
THEOREM TimerListWellFormed == Spec => []WellFormed
<1>1. IInv => WellFormed
  BY WellFormedIsShape DEF IInv, TypeOK
<1>2. QED
  BY <1>1, SpecIInv, PTL

\* insert_timer's loop always finds a node to stop at, for every waketime the
\* clock can hold.
THEOREM InsertAlwaysStops == Spec => []InsertStops
<1>1. IInv => InsertStops
  <2> SUFFICES ASSUME IInv, NEW w \in Time, ~timer_is_before(w, waketime[Head(timer_list)])
               PROVE  \E k \in 2 .. Len(timer_list) : IsInsertPos(timer_list, waketime, w, k)
    BY DEF InsertStops
  <2> USE DEF IInv, TypeOK
  <2>1. PICK k \in 2 .. Len(timer_list) : timer_is_before(w, waketime[timer_list[k]])
    BY GuardsStopInsert
  <2>2. QED
    BY <2>1, InsertPosExists
<1>2. QED
  BY <1>1, SpecIInv, PTL

-----------------------------------------------------------------------------
(* The task loop *)

\* No message is removed that has not arrived.
MessageAtHand == main \in {"command", "clean"} => rx > 0

\* Outside a pass over the tasks, and unless a shutdown cut the last one
\* short, work has a wakeup that is still to be seen.
WorkIsAnnounced ==
  main \in {"top", "disable", "recheck", "sleep"} /\ HasWork => tasks_status = TS_REQUESTED \/ cut

\* During a pass BeginPass has consumed that wakeup; but a task that the pass
\* has left behind is woken by a wakeup of its own.
LeftBehindIsAnnounced ==
  main \in {"console", "command", "clean"} /\ wake => tasks_status = TS_REQUESTED

\* cut is true from a longjmp to the next pass.
CutUntilPass == /\ main \in {"shutdown", "endfuncs"} => cut
                /\ main \in {"analog", "console", "command", "clean"} => ~cut

TasksIInv == /\ TypeOKTasks /\ MessageAtHand /\ ShutdownIsAtomic
        /\ WorkIsAnnounced /\ LeftBehindIsAnnounced /\ CutUntilPass

LEMMA MaxRxIsNat == MaxRx \in Nat
  BY MaxRxAssumption

\* The static initializers satisfy the inductive invariant.
LEMMA InitTasksIInv == InitTasks => TasksIInv
<1> SUFFICES ASSUME InitTasks PROVE TasksIInv
  OBVIOUS
<1> USE DEF InitTasks, TS_IDLE, TS_REQUESTED, TS_RUNNING
<1>1. TypeOKTasks
  <2>1. main \in Places /\ tasks_status \in {TS_IDLE, TS_REQUESTED, TS_RUNNING}
    BY DEF Places
  <2>2. rx \in 0 .. MaxRx /\ shutdown_status \in 0 .. 2
    BY MaxRxIsNat
  <2>3. wake \in BOOLEAN /\ cut \in BOOLEAN
    OBVIOUS
  <2>4. QED
    BY <2>1, <2>2, <2>3 DEF TypeOKTasks
<1>2. MessageAtHand /\ ShutdownIsAtomic /\ CutUntilPass
  BY DEF MessageAtHand, ShutdownIsAtomic, CutUntilPass
<1>3. WorkIsAnnounced /\ LeftBehindIsAnnounced
  BY DEF WorkIsAnnounced, LeftBehindIsAnnounced
<1>4. QED
  BY <1>1, <1>2, <1>3 DEF TasksIInv

\* No interrupt handler and no step of the main thread breaks it.
LEMMA NextTasksIInv == TasksIInv /\ [NextTasks]_taskVars => TasksIInv'
<1> SUFFICES ASSUME TasksIInv, [NextTasks]_taskVars PROVE TasksIInv'
  OBVIOUS
<1> USE MaxRxIsNat DEF TasksIInv, TypeOKTasks, MessageAtHand, ShutdownIsAtomic,
     WorkIsAnnounced, LeftBehindIsAnnounced, CutUntilPass, HasWork, Places,
     TS_IDLE, TS_REQUESTED, TS_RUNNING, taskVars, flagVars
<1>1. CASE Irq
  <2>1. CASE WakeTasks
    BY <1>1, <2>1 DEF Irq, InterruptsOff, WakeTasks, sched_wake_tasks
  <2>2. CASE WakeTask
    BY <1>1, <2>2 DEF Irq, InterruptsOff, WakeTask, sched_wake_task, sched_wake_tasks
  <2>3. CASE Receive
    BY <1>1, <2>3 DEF Irq, InterruptsOff, Receive, sched_wake_tasks
  <2>4. CASE IrqShutdown
    BY <1>1, <2>4 DEF Irq, InterruptsOff, IrqShutdown, sched_shutdown
  <2>5. QED
    BY <1>1, <2>1, <2>2, <2>3, <2>4 DEF Irq
<1>2. CASE RunTasks
  <2>1. CASE Top \/ Disable
    BY <2>1 DEF Top, Disable
  <2>2. CASE Recheck
    BY <2>2 DEF Recheck
  <2>3. CASE Awake
    BY <2>3 DEF Awake
  <2>4. CASE BeginPass
    BY <2>4 DEF BeginPass
  <2>5. CASE CheckWake
    BY <2>5 DEF CheckWake
  <2>6. CASE NoMessage
    BY <2>6 DEF NoMessage
  <2>7. CASE RunMessage \/ RejectMessage
    BY <2>7 DEF RunMessage, RejectMessage
  <2>8. CASE CommandDone \/ CommandClear
    BY <2>8 DEF CommandDone, CommandClear
  <2>9. CASE CommandStop
    BY <2>9 DEF CommandStop, sched_shutdown
  <2>10. CASE Clean
    BY <2>10 DEF Clean
  <2>11. CASE BeginShutdown \/ EndShutdown
    BY <2>11 DEF BeginShutdown, EndShutdown
  <2>12. QED
    BY <1>2, <2>1, <2>2, <2>3, <2>4, <2>5, <2>6, <2>7, <2>8, <2>9, <2>10, <2>11 DEF RunTasks
<1>3. CASE UNCHANGED taskVars
  BY <1>3
<1>4. QED
  BY <1>1, <1>2, <1>3 DEF NextTasks

LEMMA SafeTasksIInv == SafeTasks => []TasksIInv
  BY InitTasksIInv, NextTasksIInv, PTL DEF SafeTasks

\* Every variable of the task loop keeps its type; rx does not go below zero.
THEOREM TasksTypeCorrect == SafeTasks => []TypeOKTasks
  BY SafeTasksIInv, PTL DEF TasksIInv

\* run_tasks loses no wakeup: if the processor sleeps although a task has
\* work, the loop around irq_wait is about to end, or a shutdown has cut the
\* last pass short.
THEOREM TasksLoseNoWakeup == SafeTasks => []NoLostWakeup
<1>1. TasksIInv => NoLostWakeup
  BY DEF TasksIInv, WorkIsAnnounced, NoLostWakeup
<1>2. QED
  BY <1>1, SafeTasksIInv, PTL

\* run_shutdown is not interrupted, neither by another shutdown nor by
\* command_clear_shutdown.
THEOREM ShutdownRunsWhole == SafeTasks => []ShutdownIsAtomic
  BY SafeTasksIInv, PTL DEF TasksIInv
-----------------------------------------------------------------------------
(* What is on the list: each operation of the list, seen by a node that is   *)
(* asked for.                                                                *)

\* Taking the first node off.
LEMMA TailMembers ==
  ASSUME NEW q \in Seq(Node), Shape(q), NEW n
  PROVE  Contains(Tail(q), n) <=> Contains(q, n) /\ n # Head(q)
<1>1. /\ Len(q) >= 2 /\ Head(q) = q[1]
      /\ Len(Tail(q)) = Len(q) - 1 /\ \A i \in 1 .. Len(Tail(q)) : Tail(q)[i] = q[i + 1]
      /\ ~Contains(Tail(q), Head(q))
  BY ShapeLength, TailShape
<1>2. ASSUME Contains(Tail(q), n) PROVE Contains(q, n) /\ n # Head(q)
  <2>1. PICK i \in 1 .. Len(Tail(q)) : Tail(q)[i] = n
    BY <1>2 DEF Contains
  <2>2. i + 1 \in 1 .. Len(q) /\ q[i + 1] = n
    BY <1>1, <2>1
  <2>3. QED
    BY <1>1, <1>2, <2>2 DEF Contains
<1>3. ASSUME Contains(q, n), n # Head(q) PROVE Contains(Tail(q), n)
  <2>1. PICK i \in 1 .. Len(q) : q[i] = n
    BY <1>3 DEF Contains
  <2>2. i # 1
    BY <1>1, <1>3, <2>1
  <2>3. i - 1 \in 1 .. Len(Tail(q)) /\ Tail(q)[i - 1] = n
    BY <1>1, <2>1, <2>2
  <2>4. QED
    BY <2>3 DEF Contains
<1>4. QED
  BY <1>2, <1>3

\* Putting a node before the list.
LEMMA PrependMembers ==
  ASSUME NEW q \in Seq(Node), NEW e \in Node, NEW n
  PROVE  Contains(<<e>> \o q, n) <=> n = e \/ Contains(q, n)
<1> DEFINE r == <<e>> \o q
<1>1. /\ Len(r) = Len(q) + 1 /\ r[1] = e
      /\ \A i \in 2 .. Len(r) : i - 1 \in 1 .. Len(q) /\ r[i] = q[i - 1]
      /\ \A i \in 1 .. Len(q) : i + 1 \in 1 .. Len(r) /\ r[i + 1] = q[i]
      /\ 1 \in 1 .. Len(r)
  <2>1. <<e>> \in Seq(Node) /\ Len(q) \in Nat
    OBVIOUS
  <2>2. QED
    BY <2>1
<1> HIDE DEF r
<1>2. ASSUME Contains(r, n) PROVE n = e \/ Contains(q, n)
  <2>1. PICK i \in 1 .. Len(r) : r[i] = n
    BY <1>2 DEF Contains
  <2>2. QED
    BY <1>1, <2>1 DEF Contains
<1>3. ASSUME n = e PROVE Contains(r, n)
  BY <1>1, <1>3 DEF Contains
<1>4. ASSUME Contains(q, n) PROVE Contains(r, n)
  <2>1. PICK i \in 1 .. Len(q) : q[i] = n
    BY <1>4 DEF Contains
  <2>2. QED
    BY <1>1, <2>1 DEF Contains
<1>5. QED
  BY <1>2, <1>3, <1>4 DEF r

\* Linking a node between two others.
LEMMA InsertMembers ==
  ASSUME NEW q \in Seq(Node), NEW k \in 1 .. Len(q), NEW e \in Node, NEW n
  PROVE  Contains(InsertAt(q, k, e), n) <=> n = e \/ Contains(q, n)
<1> DEFINE r == InsertAt(q, k, e)
<1>1. Len(r) = Len(q) + 1 /\ Len(q) \in Nat
  BY InsertAtProperties
<1>2. \A i \in 1 .. Len(q) + 1 : r[i] = IF i < k THEN q[i] ELSE IF i = k THEN e ELSE q[i - 1]
  BY InsertAtProperties
<1> HIDE DEF r
<1>3. ASSUME Contains(r, n) PROVE n = e \/ Contains(q, n)
  <2>1. PICK i \in 1 .. Len(r) : r[i] = n
    BY <1>3 DEF Contains
  <2>2. CASE i = k
    BY <1>1, <1>2, <2>1, <2>2
  <2>3. CASE i < k
    <3>1. i \in 1 .. Len(q) /\ q[i] = n
      BY <1>1, <1>2, <2>1, <2>3
    <3>2. QED
      BY <3>1 DEF Contains
  <2>4. CASE i > k
    <3>1. i - 1 \in 1 .. Len(q) /\ q[i - 1] = n
      BY <1>1, <1>2, <2>1, <2>4
    <3>2. QED
      BY <3>1 DEF Contains
  <2>5. QED
    BY <1>1, <2>1, <2>2, <2>3, <2>4
<1>4. ASSUME n = e PROVE Contains(r, n)
  <2>1. k \in 1 .. Len(r) /\ r[k] = n
    BY <1>1, <1>2, <1>4
  <2>2. QED
    BY <2>1 DEF Contains
<1>5. ASSUME Contains(q, n) PROVE Contains(r, n)
  <2>1. PICK i \in 1 .. Len(q) : q[i] = n
    BY <1>5 DEF Contains
  <2>2. CASE i < k
    <3>1. i \in 1 .. Len(r) /\ r[i] = n
      BY <1>1, <1>2, <2>1, <2>2
    <3>2. QED
      BY <3>1 DEF Contains
  <2>3. CASE i >= k
    <3>1. i + 1 \in 1 .. Len(r) /\ r[i + 1] = n
      BY <1>1, <1>2, <2>1, <2>3
    <3>2. QED
      BY <3>1 DEF Contains
  <2>4. QED
    BY <2>1, <2>2, <2>3
<1>6. QED
  BY <1>3, <1>4, <1>5 DEF r

\* Unlinking a node.
LEMMA RemoveMembers ==
  ASSUME NEW q \in Seq(Node), OnceEach(q), NEW k \in 1 .. Len(q), NEW n
  PROVE  Contains(RemoveAt(q, k), n) <=> Contains(q, n) /\ n # q[k]
<1> DEFINE r == RemoveAt(q, k)
<1>1. Len(r) = Len(q) - 1 /\ Len(q) \in Nat
  BY RemoveAtProperties
<1>2. \A i \in 1 .. Len(q) - 1 : r[i] = IF i < k THEN q[i] ELSE q[i + 1]
  BY RemoveAtProperties
<1> HIDE DEF r
<1>3. ASSUME Contains(r, n) PROVE Contains(q, n) /\ n # q[k]
  <2>1. PICK i \in 1 .. Len(r) : r[i] = n
    BY <1>3 DEF Contains
  <2>2. PICK j \in 1 .. Len(q) : q[j] = n /\ j # k
    <3>1. CASE i < k
      BY <1>1, <1>2, <2>1, <3>1
    <3>2. CASE i >= k
      <4>1. i + 1 \in 1 .. Len(q) /\ q[i + 1] = n /\ i + 1 # k
        BY <1>1, <1>2, <2>1, <3>2
      <4>2. QED
        BY <4>1
    <3>3. QED
      BY <2>1, <3>1, <3>2
  <2>3. QED
    BY <2>2 DEF Contains, OnceEach
<1>4. ASSUME Contains(q, n), n # q[k] PROVE Contains(r, n)
  <2>1. PICK i \in 1 .. Len(q) : q[i] = n
    BY <1>4 DEF Contains
  <2>2. CASE i < k
    <3>1. i \in 1 .. Len(r) /\ r[i] = n
      BY <1>1, <1>2, <2>1, <2>2
    <3>2. QED
      BY <3>1 DEF Contains
  <2>3. CASE i > k
    <3>1. i - 1 \in 1 .. Len(r) /\ r[i - 1] = n
      BY <1>1, <1>2, <2>1, <2>3
    <3>2. QED
      BY <3>1 DEF Contains
  <2>4. QED
    BY <1>4, <2>1, <2>2, <2>3
<1>5. QED
  BY <1>3, <1>4 DEF r

\* Adding a timer links it, and perhaps the placeholder.
LEMMA AddMembers ==
  ASSUME IInv, NEW t \in Timers, ~Listed(t), sched_add_timer(t), NEW u \in Timers
  PROVE  Listed(u)' <=> u = t \/ Listed(u)
<1> USE DEF IInv, TypeOK
<1>0. /\ t \in Node /\ u \in Node /\ t # deleted_timer /\ u # deleted_timer /\ deleted_timer \in Node
      /\ Head(timer_list) = timer_list[1] /\ Len(timer_list) >= 2
  BY SchedNodesDiffer, ShapeLength
<1>1. CASE AddFirst(t)
  <2> DEFINE rest == IF Head(timer_list) = deleted_timer THEN Tail(timer_list) ELSE timer_list
  <2>1. rest \in Seq(Node) /\ (Contains(rest, u) <=> Listed(u))
    BY <1>0, TailMembers, TailShape DEF Listed
  <2>2. timer_list' = <<deleted_timer, t>> \o rest
    BY <1>1 DEF AddFirst
  <2> HIDE DEF rest
  <2>3. /\ <<t>> \in Seq(Node) /\ <<deleted_timer>> \in Seq(Node)
        /\ <<deleted_timer, t>> = <<deleted_timer>> \o <<t>>
    BY <1>0
  <2>4. timer_list' = <<deleted_timer>> \o (<<t>> \o rest) /\ <<t>> \o rest \in Seq(Node)
    BY <2>1, <2>2, <2>3, ConcatAssociative
  <2>5. Contains(<<t>> \o rest, u) <=> u = t \/ Contains(rest, u)
    BY <1>0, <2>1, PrependMembers
  <2>6. Contains(<<deleted_timer>> \o (<<t>> \o rest), u) <=> Contains(<<t>> \o rest, u)
    BY <1>0, <2>4, PrependMembers
  <2>7. QED
    BY <2>1, <2>4, <2>5, <2>6 DEF Listed
<1>2. CASE AddLater(t)
  <2>1. waketime[t] \in Time /\ ~timer_is_before(waketime[t], waketime[Head(timer_list)])
    BY <1>0, <1>2 DEF AddLater, BecomesFirst
  <2>2. PICK k \in 2 .. Len(timer_list) : timer_is_before(waketime[t], waketime[timer_list[k]])
    BY <2>1, GuardsStopInsert
  <2>3. InsertPos(timer_list, waketime, waketime[t]) \in 2 .. Len(timer_list)
    BY <2>1, <2>2, InsertPosExists
  <2>4. timer_list' = InsertAt(timer_list, InsertPos(timer_list, waketime, waketime[t]), t)
    BY <1>2 DEF AddLater, insert_timer
  <2>5. QED
    BY <1>0, <2>3, <2>4, InsertMembers DEF Listed
<1>3. QED
  BY <1>1, <1>2 DEF sched_add_timer

\* Removing a timer takes just that one off.
LEMMA DelMembers ==
  ASSUME IInv, NEW t \in Timers, sched_del_timer(t), NEW u \in Timers
  PROVE  Listed(u)' <=> u # t /\ Listed(u)
<1> USE DEF IInv, TypeOK
<1>0. /\ t \in Node /\ u \in Node /\ t # deleted_timer /\ u # deleted_timer /\ deleted_timer \in Node
      /\ Head(timer_list) = timer_list[1] /\ Len(timer_list) >= 2
  BY SchedNodesDiffer, ShapeLength
<1>1. CASE DelFirst(t)
  <2>1. Head(timer_list) = t /\ timer_list' = <<deleted_timer>> \o Tail(timer_list)
    BY <1>1 DEF DelFirst
  <2>2. Tail(timer_list) \in Seq(Node) /\ (Contains(Tail(timer_list), u) <=> u # t /\ Listed(u))
    BY <2>1, TailMembers, TailShape DEF Listed
  <2>3. Contains(timer_list', u) <=> Contains(Tail(timer_list), u)
    BY <1>0, <2>1, <2>2, PrependMembers
  <2>4. QED
    BY <2>2, <2>3 DEF Listed
<1>2. CASE DelLater(t) /\ Listed(t)
  <2> DEFINE k == CHOOSE i \in 1 .. Len(timer_list) : timer_list[i] = t
  <2>1. k \in 1 .. Len(timer_list) /\ timer_list[k] = t
    BY <1>2 DEF Listed, Contains
  <2>2. timer_list' = RemoveAt(timer_list, k)
    BY <1>2 DEF DelLater
  <2> HIDE DEF k
  <2>3. QED
    BY <2>1, <2>2, RemoveMembers DEF Listed, Shape
<1>3. CASE DelLater(t) /\ ~Listed(t)
  BY <1>3 DEF DelLater, Listed
<1>4. QED
  BY <1>1, <1>2, <1>3 DEF sched_del_timer

\* A timer whose callback moves its waketime on stays on the list, and so do
\* all others.
LEMMA RescheduleMembers ==
  ASSUME IInv, NEW wk \in [Node -> Time], Guarded(wk), DispatchReschedule(wk),
         First \in Timers \cup {periodic_timer},
         First = periodic_timer => timer_is_before(wk[periodic_timer], wk[sentinel_timer]),
         NEW u \in Node
  PROVE  Listed(u)' <=> Listed(u)
<1> USE DEF IInv, TypeOK
<1> DEFINE q == Tail(timer_list)
<1>0. /\ First \in Node /\ First # deleted_timer /\ u \in Node
      /\ First = timer_list[1] /\ Len(timer_list) >= 2 /\ Contains(timer_list, First)
  <2>1. First = timer_list[1] /\ Len(timer_list) >= 2 /\ 1 \in 1 .. Len(timer_list)
    BY ShapeLength DEF First
  <2>2. QED
    BY <2>1, SchedNodesDiffer DEF Contains
<1>1. /\ q \in Seq(Node) /\ Len(q) = Len(timer_list) - 1 /\ q[1] = timer_list[2]
      /\ EndsWithSentinel(q) /\ (First # periodic_timer => Shape(q))
      /\ (Contains(q, u) <=> Listed(u) /\ u # First)
  BY <1>0, TailShape, TailMembers DEF Listed, First
<1>2. timer_list' = IF timer_is_before(wk[First], wk[timer_list[2]])
                    THEN timer_list ELSE insert_timer(q, wk, First)
  BY DEF DispatchReschedule, First
<1> HIDE DEF q
<1>3. CASE timer_is_before(wk[First], wk[timer_list[2]])
  BY <1>2, <1>3 DEF Listed
<1>4. CASE ~timer_is_before(wk[First], wk[timer_list[2]])
  <2>1. PICK k \in 2 .. Len(q) : timer_is_before(wk[First], wk[q[k]])
    <3>1. CASE First = periodic_timer
      <4>1. Len(q) \in 1 .. Len(q) /\ timer_is_before(wk[First], wk[q[Len(q)]])
        BY <1>0, <1>1, <3>1, SchedNodesDiffer DEF EndsWithSentinel
      <4>2. Len(q) # 1
        BY <1>1, <1>4, <4>1
      <4>3. QED
        BY <1>1, <4>1, <4>2
    <3>2. CASE First # periodic_timer
      <4>1. wk[First] \in Time /\ Head(q) = q[1]
        BY <1>0, <1>1
      <4>2. QED
        BY <1>1, <1>4, <3>2, <4>1, GuardsStopInsert
    <3>3. QED
      BY <3>1, <3>2
  <2>2. InsertPos(q, wk, wk[First]) \in 1 .. Len(q)
    <3>1. wk[First] \in Time
      BY <1>0
    <3>2. InsertPos(q, wk, wk[First]) \in 2 .. Len(q)
      BY <1>1, <2>1, <3>1, InsertPosExists
    <3>3. QED
      BY <3>2
  <2>3. timer_list' = InsertAt(q, InsertPos(q, wk, wk[First]), First)
    BY <1>2, <1>4 DEF insert_timer
  <2>4. Contains(timer_list', u) <=> u = First \/ Contains(q, u)
    BY <1>0, <1>1, <2>2, <2>3, InsertMembers
  <2>5. QED
    BY <1>0, <1>1, <2>4 DEF Listed
<1>5. QED
  BY <1>3, <1>4

-----------------------------------------------------------------------------
(* The scheduler as a whole: its callers are legal, so that what is proved   *)
(* of the timer list and of the task loop holds of it too.                   *)

TimesOK == now \in Time /\ next_wake \in Time /\ timer_repeat_until \in Time

CallerOK == /\ isr \in {"off", "dispatch", "check", "wait"}
            /\ op \in {"none", "set", "add"} /\ cmd \in Timers \cup {NoTimer}
            /\ todo \subseteq Timers

\* A timer is moved by one caller at a time, and only once it is off the list;
\* the end functions have still to visit timers that nobody has added.
CallerHoldsTimer ==
  /\ op # "none" => cmd \in Timers /\ ~Listed(cmd)
  /\ op = "none" => cmd = NoTimer
  /\ op = "set" => main = "command"
  /\ op = "add" => main \in {"command", "endfuncs"}
  /\ main = "endfuncs" => \A t \in todo : ~Listed(t) /\ t # cmd

\* The handler does not run while the main thread has interrupts disabled.
HandlerIsLetIn == isr # "off" => ~InterruptsOff

SInv == /\ IInv /\ TasksIInv
        /\ TimesOK /\ CallerOK /\ CallerHoldsTimer /\ HandlerIsLetIn

LEMMA DelayIsShort ==
  ASSUME NEW d \in CommandDelays \cup EventDelays \cup {Period}
  PROVE  d \in Nat /\ d < HalfRange /\ d \in -Modulus .. Modulus
  BY DelaysAssumption, TicksAssumption, HalfRangeAssumption
     DEF DelaysAssumption, TicksAssumption, HalfRangeAssumption, Modulus

\* The main thread and the interrupts, as the task loop sees them, take its
\* steps.
LEMMA StepOfTasks ==
  ASSUME HandlerIsLetIn, [NextSched]_vars
  PROVE  [NextTasks]_taskVars
<1> USE DEF HandlerIsLetIn
<1>1. CASE Tick
  BY <1>1 DEF Tick
<1>2. CASE ReceiveIrq
  BY <1>2 DEF ReceiveIrq, NextTasks, Irq
<1>3. CASE Interrupt
  <2>1. CASE Enter \/ CheckReturn \/ CheckDefer \/ CheckRepeat \/ WaitDone
    BY <2>1 DEF Enter, CheckReturn, CheckDefer, CheckRepeat, WaitDone
  <2>2. CASE DispatchUser
    BY <2>2 DEF DispatchUser, NextTasks, Irq
  <2>3. CASE DispatchFatal
    BY <2>3 DEF DispatchFatal, NextTasks, Irq
  <2>4. CASE DispatchOwn
    BY <2>4 DEF DispatchOwn, NextTasks, Irq
  <2>5. CASE CheckPast
    BY <2>5 DEF CheckPast, NextTasks, Irq
  <2>6. QED
    BY <1>3, <2>1, <2>2, <2>3, <2>4, <2>5 DEF Interrupt
<1>4. CASE MainThread
  <2>1. CASE LoopStep
    BY <2>1 DEF LoopStep, NextTasks, RunTasks
  <2>2. CASE CommandDel \/ CommandSet \/ EndFunc
    BY <2>2 DEF CommandDel, CommandSet, EndFunc
  <2>3. CASE CommandLeave
    BY <2>3 DEF CommandLeave, NextTasks, RunTasks
  <2>4. CASE AddTimer
    BY <2>4 DEF AddTimer, NextTasks, RunTasks
  <2>5. CASE AddTooClose
    BY <2>5 DEF AddTooClose, NextTasks, RunTasks
  <2>6. CASE ResetTimers
    BY <2>6 DEF ResetTimers, NextTasks, RunTasks
  <2>7. CASE RestartLoop
    BY <2>7 DEF RestartLoop, NextTasks, RunTasks
  <2>8. QED
    BY <1>4, <2>1, <2>2, <2>3, <2>4, <2>5, <2>6, <2>7 DEF MainThread
<1>5. CASE UNCHANGED vars
  BY <1>5 DEF vars
<1>6. QED
  BY <1>1, <1>2, <1>3, <1>4, <1>5 DEF NextSched

\* Handlers, commands and end functions, as the timer list sees them, are
\* legal callers.
LEMMA StepOfList ==
  ASSUME SInv, [NextSched]_vars
  PROVE  [Next]_listVars
<1>0. now \in Time /\ waketime \in [Node -> Time] /\ Timers \subseteq Node
  BY SchedNodesDiffer DEF SInv, TimesOK, IInv, TypeOK
<1>1. CASE Tick \/ ReceiveIrq
  BY <1>1 DEF Tick, ReceiveIrq
<1>2. CASE Interrupt
  <2>1. CASE Enter \/ DispatchFatal \/ CheckReturn \/ CheckPast \/ CheckDefer \/ CheckRepeat \/ WaitDone
    BY <2>1 DEF Enter, DispatchFatal, CheckReturn, CheckPast, CheckDefer, CheckRepeat, WaitDone
  <2>2. CASE DispatchUser
    <3>1. CASE DispatchDone
      BY <2>2, <3>1 DEF DispatchUser, Next, UserDone, First
    <3>2. CASE \E d \in EventDelays : DispatchReschedule(Woken(First, Plus(waketime[First], d)))
      <4>1. PICK d \in EventDelays : DispatchReschedule(Woken(First, Plus(waketime[First], d)))
        BY <3>2
      <4>2. First \in Timers /\ waketime[First] \in Time
        BY <1>0, <2>2 DEF DispatchUser
      <4>3. Plus(waketime[First], d) \in Time
        BY <4>2, DelayIsShort, PlusIsTime
      <4>4. UserReschedule
        BY <4>1, <4>2, <4>3 DEF UserReschedule, First
      <4>5. QED
        BY <4>4 DEF Next
    <3>3. QED
      BY <2>2, <3>1, <3>2 DEF DispatchUser
  <2>3. CASE DispatchOwn
    BY <2>3 DEF DispatchOwn, Next
  <2>4. QED
    BY <1>2, <2>1, <2>2, <2>3 DEF Interrupt
<1>3. CASE MainThread
  <2>1. CASE LoopStep \/ CommandLeave \/ AddTooClose \/ RestartLoop
    BY <2>1 DEF LoopStep, CommandLeave, AddTooClose, RestartLoop
  <2>2. CASE CommandDel
    BY <2>2 DEF CommandDel, Next, Del
  <2>3. CASE CommandSet
    <3>1. PICK d \in CommandDelays : SetWaketime(cmd, Plus(now, d))
      BY <2>3 DEF CommandSet
    <3>2. cmd \in Timers /\ ~Listed(cmd) /\ Plus(now, d) \in Time
      BY <1>0, <2>3, DelayIsShort, PlusIsTime DEF CommandSet, SInv, CallerHoldsTimer
    <3>3. QED
      BY <3>1, <3>2 DEF Next, Set
  <2>4. CASE AddTimer
    BY <2>4 DEF AddTimer, Next, Add, sched_add_timer, SInv, CallerHoldsTimer
  <2>5. CASE ResetTimers
    BY <2>5 DEF ResetTimers, Next
  <2>6. CASE EndFunc
    <3>1. PICK t \in todo : \/ \E d \in CommandDelays : SetWaketime(t, Plus(now, d))
                            \/ UNCHANGED listVars
      BY <2>6 DEF EndFunc
    <3>2. t \in Timers /\ ~Listed(t)
      BY <2>6 DEF EndFunc, SInv, CallerOK, CallerHoldsTimer
    <3>3. \A d \in CommandDelays : Plus(now, d) \in Time
      BY <1>0, DelayIsShort, PlusIsTime
    <3>4. QED
      BY <3>1, <3>2, <3>3 DEF Next, Set
  <2>7. QED
    BY <1>3, <2>1, <2>2, <2>3, <2>4, <2>5, <2>6 DEF MainThread
<1>4. CASE UNCHANGED vars
  BY <1>4 DEF vars
<1>5. QED
  BY <1>1, <1>2, <1>3, <1>4 DEF NextSched

LEMMA InitSInv == InitSched => SInv
<1> SUFFICES ASSUME InitSched PROVE SInv
  OBVIOUS
<1>1. IInv /\ TasksIInv
  BY InitIInv, InitTasksIInv DEF InitSched
<1>2. TimesOK
  BY HalfRangeAssumption DEF InitSched, TimesOK, Time, Modulus, HalfRangeAssumption
<1>3. CallerOK /\ CallerHoldsTimer /\ HandlerIsLetIn
  BY DEF InitSched, InitTasks, CallerOK, CallerHoldsTimer, HandlerIsLetIn
<1>4. QED
  BY <1>1, <1>2, <1>3 DEF SInv

LEMMA NextTimesOK ==
  ASSUME SInv, [NextSched]_vars
  PROVE  TimesOK'
<1> USE DEF TimesOK
<1>0. TimesOK /\ IInv
  BY DEF SInv
<1>1. /\ Repeat \in -Modulus .. Modulus /\ IdleRepeat \in -Modulus .. Modulus
      /\ Defer \in -Modulus .. Modulus /\ 1 \in -Modulus .. Modulus
  BY TicksAssumption, HalfRangeAssumption DEF TicksAssumption, HalfRangeAssumption, Modulus
<1>2. waketime[First] \in Time
  <2>1. First \in Node
    BY <1>0, ShapeLength DEF IInv, TypeOK, First
  <2>2. QED
    BY <1>0, <2>1 DEF IInv, TypeOK
<1>3. CASE Tick
  BY <1>0, <1>1, <1>3, PlusIsTime DEF Tick
<1>4. CASE ReceiveIrq
  BY <1>0, <1>4 DEF ReceiveIrq, clockVars
<1>5. CASE Interrupt
  <2>1. CASE Enter \/ DispatchUser \/ DispatchFatal \/ DispatchOwn \/ CheckPast \/ WaitDone
    BY <1>0, <2>1 DEF Enter, DispatchUser, DispatchFatal, DispatchOwn, CheckPast, WaitDone, clockVars
  <2>2. CASE CheckReturn
    BY <1>0, <1>2, <2>2 DEF CheckReturn
  <2>3. CASE CheckDefer
    BY <1>0, <1>1, <2>3, PlusIsTime DEF CheckDefer
  <2>4. CASE CheckRepeat
    BY <1>0, <1>1, <2>4, PlusIsTime DEF CheckRepeat
  <2>5. QED
    BY <1>5, <2>1, <2>2, <2>3, <2>4 DEF Interrupt
<1>6. CASE MainThread
  <2>1. CASE LoopStep \/ CommandDel \/ CommandSet \/ CommandLeave \/ AddTooClose \/ EndFunc \/ RestartLoop
    BY <1>0, <2>1 DEF LoopStep, CommandDel, CommandSet, CommandLeave, AddTooClose, EndFunc,
       RestartLoop, clockVars
  <2>2. CASE AddTimer \/ ResetTimers
    BY <1>0, <2>2 DEF AddTimer, ResetTimers
  <2>3. QED
    BY <1>6, <2>1, <2>2 DEF MainThread
<1>7. CASE UNCHANGED vars
  BY <1>0, <1>7 DEF vars, clockVars
<1>8. QED
  BY <1>3, <1>4, <1>5, <1>6, <1>7 DEF NextSched

\* What dispatches do to the list, seen by the timer of a device.
LEMMA DoneMembers ==
  ASSUME IInv, DispatchDone, NEW u \in Timers
  PROVE  Listed(u)' <=> Listed(u) /\ u # First
  BY TailMembers DEF IInv, TypeOK, DispatchDone, Listed, First

LEMMA UserRescheduleMembers ==
  ASSUME IInv, First \in Timers, NEW d \in EventDelays,
         DispatchReschedule(Woken(First, Plus(waketime[First], d))), NEW u \in Timers
  PROVE  Listed(u)' <=> Listed(u)
<1>1. First \in Node /\ First # periodic_timer /\ First # sentinel_timer /\ waketime[First] \in Time
  BY SchedNodesDiffer DEF IInv, TypeOK
<1>2. Plus(waketime[First], d) \in Time
  BY <1>1, DelayIsShort, PlusIsTime
<1>3. /\ Woken(First, Plus(waketime[First], d)) \in [Node -> Time]
      /\ Guarded(Woken(First, Plus(waketime[First], d)))
  BY <1>1, <1>2, WokenGuarded
<1>4. PICK wk \in [Node -> Time] : wk = Woken(First, Plus(waketime[First], d))
  BY <1>3
<1>5. Guarded(wk) /\ DispatchReschedule(wk)
  BY <1>3, <1>4
<1>6. First \in Timers \cup {periodic_timer}
  OBVIOUS
<1>7. QED
  BY <1>1, <1>5, <1>6, RescheduleMembers, SchedNodesDiffer

LEMMA OwnMembers ==
  ASSUME IInv, periodic_event \/ deleted_event, NEW u \in Timers
  PROVE  Listed(u)' <=> Listed(u)
<1>1. CASE periodic_event
  <2>1. First = periodic_timer /\ DispatchReschedule(PeriodicWaketimes)
    BY <1>1 DEF periodic_event, First
  <2>2. QED
    BY <2>1, PeriodicGuarded, RescheduleMembers, SchedNodesDiffer
<1>2. CASE deleted_event
  BY <1>2, DoneMembers, SchedNodesDiffer DEF deleted_event, First
<1>3. QED
  BY <1>1, <1>2

LEMMA ResetMembers ==
  ASSUME sched_timer_reset, NEW u \in Timers
  PROVE  ~Listed(u)'
<1>1. /\ Len(timer_list') = 3 /\ timer_list'[1] = deleted_timer
      /\ timer_list'[2] = periodic_timer /\ timer_list'[3] = sentinel_timer
  BY DEF sched_timer_reset
<1>2. \A i \in 1 .. 3 : timer_list'[i] # u
  BY <1>1, SchedNodesDiffer
<1>3. QED
  BY <1>1, <1>2 DEF Listed, Contains

LEMMA NextCaller ==
  ASSUME SInv, [NextSched]_vars
  PROVE  CallerOK' /\ CallerHoldsTimer' /\ HandlerIsLetIn'
<1>0. IInv /\ CallerOK /\ CallerHoldsTimer /\ HandlerIsLetIn
  BY DEF SInv
<1>1. CASE Tick
  BY <1>0, <1>1 DEF Tick, CallerOK, CallerHoldsTimer, HandlerIsLetIn, listVars, taskVars, callVars,
     Listed, InterruptsOff
<1>2. CASE ReceiveIrq
  BY <1>0, <1>2 DEF ReceiveIrq, Receive, CallerOK, CallerHoldsTimer, HandlerIsLetIn, listVars, callVars,
     Listed, InterruptsOff
<1>3. CASE Interrupt
  <2>1. CASE Enter \/ CheckReturn \/ CheckDefer \/ CheckRepeat \/ WaitDone
    <3>1. UNCHANGED <<listVars, taskVars, callVars>>
      BY <2>1 DEF Enter, CheckReturn, CheckDefer, CheckRepeat, WaitDone
    <3>2. /\ isr' \in {"off", "dispatch", "check", "wait"}
          /\ isr' # "off" => ~InterruptsOff
      BY <1>0, <2>1 DEF Enter, CheckReturn, CheckDefer, CheckRepeat, WaitDone, HandlerIsLetIn
    <3>3. QED
      BY <1>0, <3>1, <3>2 DEF CallerOK, CallerHoldsTimer, HandlerIsLetIn, listVars, taskVars, callVars,
         Listed, InterruptsOff
  <2>2. CASE DispatchFatal \/ CheckPast
    <3>1. /\ isr' = "off" /\ op' = "none" /\ cmd' = NoTimer /\ todo' = todo
          /\ main' = "shutdown"
      BY <2>2 DEF DispatchFatal, CheckPast, IrqShutdown, sched_shutdown
    <3>2. QED
      BY <1>0, <3>1 DEF CallerOK, CallerHoldsTimer, HandlerIsLetIn
  <2>3. CASE DispatchUser \/ DispatchOwn
    <3>1. \A u \in Timers : Listed(u)' => Listed(u)
      <4>1. CASE DispatchUser
        BY <1>0, <4>1, DoneMembers, UserRescheduleMembers DEF DispatchUser
      <4>2. CASE DispatchOwn
        BY <1>0, <4>2, OwnMembers DEF DispatchOwn
      <4>3. QED
        BY <2>3, <4>1, <4>2
    <3>2. UNCHANGED <<main, op, cmd, todo>> /\ isr' = "check" /\ isr = "dispatch"
      BY <2>3 DEF DispatchUser, DispatchOwn, WakeTask, WakeTasks, taskVars, callVars
    <3>3. CallerOK' /\ HandlerIsLetIn'
      BY <1>0, <3>2 DEF CallerOK, HandlerIsLetIn, InterruptsOff
    <3>4. CallerHoldsTimer'
      <4>1. op' # "none" => cmd' \in Timers /\ ~Listed(cmd)'
        BY <1>0, <3>1, <3>2 DEF CallerHoldsTimer
      <4>2. main' = "endfuncs" => \A t \in todo' : ~Listed(t)' /\ t # cmd'
        BY <1>0, <3>1, <3>2 DEF CallerHoldsTimer, CallerOK
      <4>3. QED
        BY <1>0, <3>2, <4>1, <4>2 DEF CallerHoldsTimer
    <3>5. QED
      BY <3>3, <3>4
  <2>4. QED
    BY <1>3, <2>1, <2>2, <2>3 DEF Interrupt
<1>4. CASE MainThread
  <2>0. isr = "off" /\ isr' = "off"
    BY <1>4 DEF MainThread, LoopStep, CommandDel, CommandSet, CommandLeave, AddTimer, AddTooClose,
       ResetTimers, EndFunc, RestartLoop, MainRuns
  <2>1. HandlerIsLetIn'
    BY <2>0 DEF HandlerIsLetIn
  <2>2. CASE LoopStep
    <3>1. UNCHANGED <<listVars, callVars>> /\ op = "none" /\ (main' = "endfuncs" => main = "endfuncs")
      BY <2>2 DEF LoopStep, Top, Disable, Recheck, Awake, BeginPass, CheckWake, NoMessage, RunMessage,
         RejectMessage, CommandDone, CommandClear, CommandStop, Clean, sched_shutdown
    <3>2. QED
      BY <1>0, <2>0, <2>1, <3>1 DEF CallerOK, CallerHoldsTimer, listVars, callVars, Listed
  <2>3. CASE CommandDel
    <3>1. PICK t \in Timers : sched_del_timer(t) /\ cmd' = t
      BY <2>3 DEF CommandDel
    <3>2. ~Listed(t)'
      BY <1>0, <3>1, DelMembers
    <3>3. op' = "set" /\ main = "command" /\ main' = main /\ todo' = todo
      BY <2>3 DEF CommandDel, taskVars
    <3>4. ~Listed(cmd)'
      BY <3>1, <3>2 DEF Listed
    <3>5. QED
      BY <1>0, <2>0, <2>1, <3>1, <3>3, <3>4 DEF CallerOK, CallerHoldsTimer
  <2>4. CASE CommandSet
    <3>1. /\ op = "set" /\ op' = "add" /\ main' = main /\ todo' = todo /\ cmd' = cmd
          /\ timer_list' = timer_list
      BY <2>4 DEF CommandSet, SetWaketime, taskVars
    <3>2. QED
      BY <1>0, <2>0, <2>1, <3>1 DEF CallerOK, CallerHoldsTimer, Listed
  <2>5. CASE CommandLeave
    <3>1. main' = "clean" /\ op' = "none" /\ cmd' = NoTimer /\ todo' = todo
      BY <2>5 DEF CommandLeave, CommandDone
    <3>2. QED
      BY <1>0, <2>0, <2>1, <3>1 DEF CallerOK, CallerHoldsTimer
  <2>6. CASE AddTimer
    <3>1. op = "add" /\ op' = "none" /\ cmd' = NoTimer /\ todo' = todo /\ sched_add_timer(cmd)
      BY <2>6 DEF AddTimer, sched_add_timer
    <3>2. main' = "endfuncs" => main = "endfuncs"
      BY <2>6 DEF AddTimer, CommandDone
    <3>3. cmd \in Timers /\ ~Listed(cmd)
      BY <1>0, <3>1 DEF CallerHoldsTimer
    <3>4. \A u \in Timers : Listed(u)' <=> u = cmd \/ Listed(u)
      BY <1>0, <3>1, <3>3, AddMembers
    <3>5. main' = "endfuncs" => \A t \in todo' : ~Listed(t)' /\ t # cmd'
      BY <1>0, <3>1, <3>2, <3>4, NoTimerAssumption DEF CallerOK, CallerHoldsTimer, NoTimerAssumption
    <3>6. QED
      BY <1>0, <2>0, <2>1, <3>1, <3>5 DEF CallerOK, CallerHoldsTimer
  <2>7. CASE AddTooClose
    <3>1. main' = "shutdown" /\ op' = "none" /\ cmd' = NoTimer /\ todo' = todo
      BY <2>7 DEF AddTooClose, CommandStop, sched_shutdown
    <3>2. QED
      BY <1>0, <2>0, <2>1, <3>1 DEF CallerOK, CallerHoldsTimer
  <2>8. CASE ResetTimers
    <3>1. \A u \in Timers : ~Listed(u)'
      BY <2>8, ResetMembers DEF ResetTimers
    <3>2. /\ main = "shutdown" /\ main' = "endfuncs" /\ todo' = Timers /\ op' = op /\ cmd' = cmd
      BY <2>8 DEF ResetTimers, BeginShutdown
    <3>3. op = "none"
      BY <1>0, <3>2 DEF CallerOK, CallerHoldsTimer
    <3>4. cmd = NoTimer
      BY <1>0, <3>3 DEF CallerHoldsTimer
    <3>5. QED
      BY <1>0, <2>0, <2>1, <3>1, <3>2, <3>3, <3>4, NoTimerAssumption
         DEF CallerOK, CallerHoldsTimer, NoTimerAssumption
  <2>9. CASE EndFunc
    <3>1. PICK t \in todo :
            /\ todo' = todo \ {t}
            /\ \/ /\ \E d \in CommandDelays : SetWaketime(t, Plus(now, d))
                  /\ op' = "add" /\ cmd' = t
               \/ UNCHANGED <<listVars, op, cmd>>
      BY <2>9 DEF EndFunc
    <3>2. op = "none" /\ main = "endfuncs" /\ main' = main /\ timer_list' = timer_list
      BY <2>9 DEF EndFunc, SetWaketime, taskVars, listVars
    <3>3. QED
      BY <1>0, <2>0, <2>1, <3>1, <3>2 DEF CallerOK, CallerHoldsTimer, Listed
  <2>10. CASE RestartLoop
    <3>1. main' = "top" /\ UNCHANGED <<listVars, callVars>> /\ op = "none"
      BY <2>10 DEF RestartLoop, EndShutdown
    <3>2. QED
      BY <1>0, <2>0, <2>1, <3>1 DEF CallerOK, CallerHoldsTimer, listVars, callVars, Listed
  <2>11. QED
    BY <1>4, <2>2, <2>3, <2>4, <2>5, <2>6, <2>7, <2>8, <2>9, <2>10 DEF MainThread
<1>5. CASE UNCHANGED vars
  BY <1>0, <1>5 DEF vars, CallerOK, CallerHoldsTimer, HandlerIsLetIn, listVars, taskVars, callVars,
     Listed, InterruptsOff
<1>6. QED
  BY <1>1, <1>2, <1>3, <1>4, <1>5 DEF NextSched

LEMMA SafeSchedSInv == SafeSched => []SInv
<1>1. SInv /\ [NextSched]_vars => SInv'
  <2> SUFFICES ASSUME SInv, [NextSched]_vars PROVE SInv'
    OBVIOUS
  <2>1. IInv'
    BY StepOfList, NextIInv DEF SInv
  <2>2. TasksIInv'
    BY StepOfTasks, NextTasksIInv DEF SInv
  <2>3. QED
    BY <2>1, <2>2, NextTimesOK, NextCaller DEF SInv
<1>2. QED
  BY <1>1, InitSInv, PTL DEF SafeSched

\* Whatever interrupt or shutdown comes in between, commands, handlers and end
\* functions change or add a timer only while it is off the list.
THEOREM CallersAreLegal == SafeSched => ImplementsTimerList
<1>1. InitSched => Init
  BY DEF InitSched
<1>2. SInv /\ [NextSched]_vars => [Next]_listVars
  BY StepOfList
<1>3. QED
  BY <1>1, <1>2, SafeSchedSInv, PTL DEF SafeSched, ImplementsTimerList, Spec

\* The main thread that the timer interrupt preempts is that of run_tasks, and
\* the interrupt handlers do no more to it than Irq says.
THEOREM LoopIsTasks == SafeSched => ImplementsTaskLoop
<1>1. InitSched => InitTasks
  BY DEF InitSched
<1>2. SInv /\ [NextSched]_vars => [NextTasks]_taskVars
  BY StepOfTasks DEF SInv
<1>3. QED
  BY <1>1, <1>2, SafeSchedSInv, PTL DEF SafeSched, ImplementsTaskLoop, SafeTasks

\* Every variable of the scheduler keeps its type: no time leaves the width of
\* the counter, and what sched_add_timer's caller holds is a timer or none.
THEOREM SchedTypeCorrect == SafeSched => []TypeOKSched
<1>1. SInv => TypeOKSched
  BY DEF SInv, IInv, TasksIInv, TimesOK, CallerOK, TypeOKSched
<1>2. QED
  BY <1>1, SafeSchedSInv, PTL

\* In the whole scheduler too no node is linked twice and no guard is lost,
THEOREM SchedStaysWellFormed == SafeSched => []WellFormed
  BY CallersAreLegal, TimerListWellFormed, PTL DEF ImplementsTimerList

\* ... insert_timer's loop stops,
THEOREM SchedInsertStops == SafeSched => []InsertStops
  BY CallersAreLegal, InsertAlwaysStops, PTL DEF ImplementsTimerList

\* ... run_tasks loses no wakeup,
THEOREM SchedLosesNoWakeup == SafeSched => []NoLostWakeup
  BY LoopIsTasks, TasksLoseNoWakeup, PTL DEF ImplementsTaskLoop

\* ... and a shutdown runs whole.
THEOREM SchedShutdownRunsWhole == SafeSched => []ShutdownIsAtomic
  BY LoopIsTasks, ShutdownRunsWhole, PTL DEF ImplementsTaskLoop

-----------------------------------------------------------------------------
(* Differences of times, as long as they are less than half the range.       *)

LEMMA DiffRange ==
  ASSUME NEW a \in Time, NEW b \in Time
  PROVE  Diff(a, b) \in -HalfRange .. (HalfRange - 1)
  BY HalfRangeAssumption DEF HalfRangeAssumption, Time, Modulus, Diff

LEMMA DiffSwap ==
  ASSUME NEW a \in Time, NEW b \in Time, Diff(a, b) # -HalfRange
  PROVE  Diff(b, a) = -Diff(a, b)
  BY HalfRangeAssumption DEF HalfRangeAssumption, Time, Modulus, Diff

LEMMA DiffPlus ==
  ASSUME NEW a \in Time, NEW b \in Time, NEW d \in -Modulus .. Modulus,
         Diff(a, b) + d \in -HalfRange .. (HalfRange - 1)
  PROVE  Diff(Plus(a, d), b) = Diff(a, b) + d
  BY HalfRangeAssumption DEF HalfRangeAssumption, Time, Modulus, Diff, Plus

\* A time that is d later than another one.
LEMMA DiffOfSum ==
  ASSUME NEW a \in Time, NEW d \in 0 .. (HalfRange - 1)
  PROVE  Diff(Plus(a, d), a) = d
  BY HalfRangeAssumption DEF HalfRangeAssumption, Time, Modulus, Diff, Plus

\* One tick of the clock.
LEMMA DiffTick ==
  ASSUME NEW a \in Time, NEW b \in Time, Diff(a, b) # -HalfRange
  PROVE  Diff(a, Plus(b, 1)) = Diff(a, b) - 1
  BY HalfRangeAssumption DEF HalfRangeAssumption, Time, Modulus, Diff, Plus

LEMMA DiffOfDiffs ==
  ASSUME NEW a \in Time, NEW b \in Time, NEW c \in Time,
         Diff(a, c) - Diff(b, c) \in -HalfRange .. (HalfRange - 1)
  PROVE  Diff(a, b) = Diff(a, c) - Diff(b, c)
  BY HalfRangeAssumption DEF HalfRangeAssumption, Time, Modulus, Diff

-----------------------------------------------------------------------------
(* The order of a list: f gives the ticks left for each node.  The sentinel, *)
(* the last node, is half the range away and has no place in the order.      *)

Sorted(q, f) == \A i, j \in 1 .. Len(q) - 1 : i < j => f[q[i]] <= f[q[j]]

\* Only the nodes before the sentinel matter.
LEMMA SortedSame ==
  ASSUME NEW q \in Seq(Node), OnceEach(q), EndsWithSentinel(q), NEW f, NEW g, Sorted(q, f),
         \A n \in Node \ {sentinel_timer} : Contains(q, n) => g[n] = f[n]
  PROVE  Sorted(q, g)
<1>1. ASSUME NEW i \in 1 .. Len(q) - 1 PROVE g[q[i]] = f[q[i]]
  <2>1. i \in 1 .. Len(q) /\ Len(q) \in 1 .. Len(q) /\ i # Len(q)
    OBVIOUS
  <2>2. q[i] \in Node \ {sentinel_timer} /\ Contains(q, q[i])
    BY <2>1 DEF OnceEach, EndsWithSentinel, Contains
  <2>3. QED
    BY <2>2
<1>2. QED
  BY <1>1 DEF Sorted

\* Time goes on for all of them.
LEMMA SortedShift ==
  ASSUME NEW q \in Seq(Node), OnceEach(q), EndsWithSentinel(q),
         NEW f \in [Node -> Int], NEW g, Sorted(q, f),
         \A n \in Node \ {sentinel_timer} : Contains(q, n) => g[n] = f[n] - 1
  PROVE  Sorted(q, g)
<1>1. ASSUME NEW i \in 1 .. Len(q) - 1 PROVE g[q[i]] = f[q[i]] - 1 /\ f[q[i]] \in Int
  <2>1. i \in 1 .. Len(q) /\ Len(q) \in 1 .. Len(q) /\ i # Len(q)
    OBVIOUS
  <2>2. q[i] \in Node \ {sentinel_timer} /\ Contains(q, q[i])
    BY <2>1 DEF OnceEach, EndsWithSentinel, Contains
  <2>3. QED
    BY <2>2
<1>2. QED
  BY <1>1 DEF Sorted

\* The first node is the one that runs first.
LEMMA FirstRunsFirst ==
  ASSUME NEW q \in Seq(Node), OnceEach(q), EndsWithSentinel(q), NEW f \in [Node -> Int], Sorted(q, f),
         NEW n \in Node, n # sentinel_timer, Contains(q, n)
  PROVE  f[Head(q)] <= f[n]
<1>1. PICK i \in 1 .. Len(q) : q[i] = n
  BY DEF Contains
<1>2. i # Len(q) /\ Head(q) = q[1] /\ Len(q) >= 1
  BY <1>1 DEF EndsWithSentinel
<1>3. CASE i = 1
  <2>1. f[n] \in Int
    OBVIOUS
  <2>2. QED
    BY <1>1, <1>2, <1>3, <2>1
<1>4. CASE i # 1
  BY <1>1, <1>2, <1>4 DEF Sorted
<1>5. QED
  BY <1>3, <1>4

LEMMA SortedTail ==
  ASSUME NEW q \in Seq(Node), Shape(q), NEW f, Sorted(q, f)
  PROVE  Sorted(Tail(q), f)
<1>1. /\ Len(q) >= 2 /\ Len(Tail(q)) = Len(q) - 1
      /\ \A i \in 1 .. Len(Tail(q)) : Tail(q)[i] = q[i + 1]
  BY ShapeLength, TailShape
<1>2. SUFFICES ASSUME NEW i \in 1 .. Len(Tail(q)) - 1, NEW j \in 1 .. Len(Tail(q)) - 1, i < j
               PROVE  f[Tail(q)[i]] <= f[Tail(q)[j]]
  BY DEF Sorted
<1>3. i + 1 \in 1 .. Len(q) - 1 /\ j + 1 \in 1 .. Len(q) - 1 /\ i + 1 < j + 1
  BY <1>1, <1>2
<1>4. Tail(q)[i] = q[i + 1] /\ Tail(q)[j] = q[j + 1]
  BY <1>1
<1>5. QED
  BY <1>3, <1>4 DEF Sorted

LEMMA SortedPrepend ==
  ASSUME NEW q \in Seq(Node), OnceEach(q), EndsWithSentinel(q), NEW f, Sorted(q, f), NEW e \in Node,
         \A n \in Node \ {sentinel_timer} : Contains(q, n) => f[e] <= f[n]
  PROVE  Sorted(<<e>> \o q, f)
<1> DEFINE r == <<e>> \o q
<1>1. /\ Len(r) = Len(q) + 1 /\ r[1] = e
      /\ \A i \in 2 .. Len(r) : i - 1 \in 1 .. Len(q) /\ r[i] = q[i - 1]
  <2>1. <<e>> \in Seq(Node) /\ Len(q) \in Nat
    OBVIOUS
  <2>2. QED
    BY <2>1
<1> HIDE DEF r
<1>2. SUFFICES ASSUME NEW i \in 1 .. Len(r) - 1, NEW j \in 1 .. Len(r) - 1, i < j
               PROVE  f[r[i]] <= f[r[j]]
  BY DEF Sorted, r
<1>3. j \in 2 .. Len(r) /\ j - 1 \in 1 .. Len(q) - 1 /\ r[j] = q[j - 1]
  BY <1>1, <1>2
<1>4. CASE i = 1
  <2>1. j - 1 \in 1 .. Len(q) /\ Len(q) \in 1 .. Len(q) /\ j - 1 # Len(q)
    BY <1>3
  <2>2. q[j - 1] \in Node \ {sentinel_timer} /\ Contains(q, q[j - 1])
    BY <2>1 DEF OnceEach, EndsWithSentinel, Contains
  <2>3. QED
    BY <1>1, <1>3, <1>4, <2>2
<1>5. CASE i # 1
  <2>1. i \in 2 .. Len(r) /\ i - 1 \in 1 .. Len(q) - 1 /\ r[i] = q[i - 1] /\ i - 1 < j - 1
    BY <1>1, <1>2, <1>5
  <2>2. QED
    BY <1>3, <2>1 DEF Sorted
<1>6. QED
  BY <1>4, <1>5

LEMMA SortedInsert ==
  ASSUME NEW q \in Seq(Node), NEW f \in [Node -> Int], Sorted(q, f),
         NEW e \in Node, NEW k \in 2 .. Len(q),
         \A j \in 1 .. k - 1 : f[q[j]] <= f[e],
         k < Len(q) => f[e] <= f[q[k]]
  PROVE  Sorted(InsertAt(q, k, e), f)
<1> DEFINE r == InsertAt(q, k, e)
<1>0. k \in 1 .. Len(q) /\ Len(q) \in Nat
  OBVIOUS
<1>1. Len(r) = Len(q) + 1
  BY <1>0, InsertAtProperties
<1>2. \A i \in 1 .. Len(q) + 1 : r[i] = IF i < k THEN q[i] ELSE IF i = k THEN e ELSE q[i - 1]
  BY <1>0, InsertAtProperties
<1> HIDE DEF r
<1>3. SUFFICES ASSUME NEW i \in 1 .. Len(r) - 1, NEW j \in 1 .. Len(r) - 1, i < j
               PROVE  f[r[i]] <= f[r[j]]
  BY DEF Sorted, r
<1>4. f[e] \in Int /\ \A m \in 1 .. Len(q) : f[q[m]] \in Int
  OBVIOUS
<1>5. /\ i < k => i \in 1 .. Len(q) - 1 /\ r[i] = q[i]
      /\ j < k => j \in 1 .. Len(q) - 1 /\ r[j] = q[j]
      /\ i = k => r[i] = e
      /\ j = k => r[j] = e
      /\ i > k => i - 1 \in 1 .. Len(q) - 1 /\ r[i] = q[i - 1]
      /\ j > k => j - 1 \in 1 .. Len(q) - 1 /\ r[j] = q[j - 1]
  <2>1. i \in 1 .. Len(q) + 1 /\ j \in 1 .. Len(q) + 1 /\ i <= Len(q) /\ j <= Len(q) /\ i < Len(q)
    BY <1>0, <1>1, <1>3
  <2>2. /\ r[i] = IF i < k THEN q[i] ELSE IF i = k THEN e ELSE q[i - 1]
        /\ r[j] = IF j < k THEN q[j] ELSE IF j = k THEN e ELSE q[j - 1]
    BY <1>2, <2>1
  <2>3. QED
    BY <1>0, <2>1, <2>2
<1>6. CASE j < k
  BY <1>0, <1>3, <1>5, <1>6 DEF Sorted
<1>7. CASE j = k
  BY <1>0, <1>3, <1>5, <1>7
<1>8. CASE j > k
  <2>1. k < Len(q) /\ k \in 1 .. Len(q) - 1 /\ j - 1 \in 1 .. Len(q) - 1
    BY <1>0, <1>1, <1>8
  <2>2. f[q[k]] <= f[q[j - 1]]
    <3>1. CASE k = j - 1
      BY <1>0, <1>4, <3>1
    <3>2. CASE k < j - 1
      BY <2>1, <3>2 DEF Sorted
    <3>3. QED
      BY <1>0, <1>8, <2>1, <3>1, <3>2
  <2>3. f[e] <= f[q[j - 1]]
    <3>1. f[q[k]] \in Int /\ f[q[j - 1]] \in Int
      BY <1>0, <1>4, <2>1
    <3>2. QED
      BY <1>4, <2>1, <2>2, <3>1
  <2>4. CASE i < k
    <3>1. i \in 1 .. Len(q) - 1 /\ r[i] = q[i] /\ r[j] = q[j - 1] /\ i < j - 1
      BY <1>0, <1>5, <1>8, <2>4
    <3>2. QED
      BY <2>1, <3>1 DEF Sorted
  <2>5. CASE i = k
    BY <1>5, <1>8, <2>3, <2>5
  <2>6. CASE i > k
    <3>1. i - 1 \in 1 .. Len(q) - 1 /\ r[i] = q[i - 1] /\ r[j] = q[j - 1] /\ i - 1 < j - 1
      BY <1>3, <1>5, <1>8, <2>6
    <3>2. QED
      BY <2>1, <3>1 DEF Sorted
  <2>7. QED
    BY <1>0, <2>4, <2>5, <2>6
<1>9. QED
  BY <1>0, <1>6, <1>7, <1>8

LEMMA SortedRemove ==
  ASSUME NEW q \in Seq(Node), NEW f, Sorted(q, f), NEW k \in 1 .. Len(q)
  PROVE  Sorted(RemoveAt(q, k), f)
<1> DEFINE r == RemoveAt(q, k)
<1>1. Len(r) = Len(q) - 1 /\ Len(q) \in Nat
  BY RemoveAtProperties
<1>2. \A i \in 1 .. Len(q) - 1 : r[i] = IF i < k THEN q[i] ELSE q[i + 1]
  BY RemoveAtProperties
<1> HIDE DEF r
<1>3. SUFFICES ASSUME NEW i \in 1 .. Len(r) - 1, NEW j \in 1 .. Len(r) - 1, i < j
               PROVE  f[r[i]] <= f[r[j]]
  BY DEF Sorted, r
<1>4. PICK a \in 1 .. Len(q) - 1 : r[i] = q[a] /\ a = IF i < k THEN i ELSE i + 1
  BY <1>1, <1>2
<1>5. PICK b \in 1 .. Len(q) - 1 : r[j] = q[b] /\ b = IF j < k THEN j ELSE j + 1
  BY <1>1, <1>2
<1>6. a < b
  BY <1>3, <1>4, <1>5
<1>7. QED
  BY <1>4, <1>5, <1>6 DEF Sorted

-----------------------------------------------------------------------------
(* The list is in the order in which its timers run, and no time on it is so *)
(* far off that the comparison would take it for one on the other side.      *)

Slack == MaxLatency + MinTry
MostLate == Slack + Defer
Window == -MostLate .. (HalfRange - 1 - MostLate)

\* The ticks left for each node, at time t
Lefts(wk, t) == [n \in Node |-> Diff(wk[n], t)]

Within(q, f) == \A n \in Node \ {sentinel_timer} : Contains(q, n) => f[n] \in Window
InOrder(q, f) == Sorted(q, f) /\ Within(q, f)

LEMMA BoundsAreNatural ==
  /\ HalfRange \in Nat /\ HalfRange > 0
  /\ MaxLatency \in Nat /\ MinTry \in Nat /\ Defer \in Nat /\ Repeat \in Nat /\ IdleRepeat \in Nat
  /\ MinTry <= Defer /\ Defer <= Repeat /\ Repeat < HalfRange /\ IdleRepeat < HalfRange
  /\ Slack \in Nat /\ MostLate \in Nat /\ MostLate < HalfRange
  /\ Slack = MaxLatency + MinTry /\ MostLate = Slack + Defer
  /\ \A d \in CommandDelays \cup EventDelays \cup {Period} : d \in Nat /\ MostLate + d < HalfRange
<1>1. /\ HalfRange \in Nat /\ HalfRange > 0
      /\ MaxLatency \in Nat /\ MinTry \in Nat /\ Defer \in Nat /\ Repeat \in Nat /\ IdleRepeat \in Nat
      /\ MinTry <= Defer /\ Defer <= Repeat /\ Repeat < HalfRange /\ IdleRepeat < HalfRange
  BY HalfRangeAssumption, TicksAssumption, DelaysAssumption
     DEF HalfRangeAssumption, TicksAssumption, DelaysAssumption
<1>2. \A d \in CommandDelays \cup EventDelays \cup {Period} : d \in Nat /\ MostLate + d < HalfRange
  BY <1>1, DelaysAssumption DEF DelaysAssumption, MostLate, Slack
<1>3. Period \in Nat /\ MostLate + Period < HalfRange
  BY <1>2
<1>4. QED
  BY <1>1, <1>2, <1>3 DEF Slack, MostLate

LEMMA LeftsType ==
  ASSUME NEW wk \in [Node -> Time], NEW t \in Time
  PROVE  /\ Lefts(wk, t) \in [Node -> Int]
         /\ \A n \in Node : Lefts(wk, t)[n] = Diff(wk[n], t)
  BY DiffRange DEF Lefts

\* Within the window the comparison that rolls over is the plain one.
LEMMA BeforeIsLess ==
  ASSUME NEW wk \in [Node -> Time], NEW t \in Time, NEW m \in Node, NEW n \in Node,
         Lefts(wk, t)[m] \in Window, Lefts(wk, t)[n] \in Window
  PROVE  /\ timer_is_before(wk[m], wk[n]) <=> Lefts(wk, t)[m] < Lefts(wk, t)[n]
         /\ Diff(wk[m], wk[n]) = Lefts(wk, t)[m] - Lefts(wk, t)[n]
<1>1. wk[m] \in Time /\ wk[n] \in Time
  OBVIOUS
<1>2. Lefts(wk, t)[m] = Diff(wk[m], t) /\ Lefts(wk, t)[n] = Diff(wk[n], t)
  BY LeftsType
<1>3. PICK a \in Int, b \in Int : a = Diff(wk[m], t) /\ b = Diff(wk[n], t)
  BY <1>1, DiffRange
<1>4. a \in Window /\ b \in Window
  BY <1>2, <1>3
<1>5. a - b \in -HalfRange .. (HalfRange - 1)
  BY <1>4, BoundsAreNatural DEF Window
<1>6. Diff(wk[m], wk[n]) = a - b
  BY <1>1, <1>3, <1>5, DiffOfDiffs
<1>7. QED
  BY <1>2, <1>3, <1>6 DEF timer_is_before

LEMMA FirstFacts ==
  ASSUME IInv
  PROVE  /\ First = timer_list[1] /\ Len(timer_list) >= 2 /\ First = Head(timer_list)
         /\ First \in Node /\ First # sentinel_timer /\ Listed(First)
         /\ waketime[First] \in Time
<1> USE DEF IInv, TypeOK
<1>1. First = timer_list[1] /\ Len(timer_list) >= 2 /\ First = Head(timer_list)
  BY ShapeLength DEF First
<1>2. 1 \in 1 .. Len(timer_list) /\ Len(timer_list) \in 1 .. Len(timer_list)
  BY <1>1
<1>3. First # sentinel_timer
  BY <1>1, <1>2 DEF Shape, OnceEach, EndsWithSentinel
<1>4. Listed(First)
  BY <1>1, <1>2 DEF Listed, Contains
<1>5. QED
  BY <1>1, <1>2, <1>3, <1>4

\* insert_timer keeps the order.
LEMMA InsertInOrder ==
  ASSUME NEW q \in Seq(Node), OnceEach(q), EndsWithSentinel(q),
         NEW wk \in [Node -> Time], NEW t \in Time, InOrder(q, Lefts(wk, t)),
         NEW e \in Node, e # sentinel_timer, Lefts(wk, t)[e] \in Window,
         ~timer_is_before(wk[e], wk[Head(q)]),
         NEW k \in 2 .. Len(q), IsInsertPos(q, wk, wk[e], k)
  PROVE  InOrder(InsertAt(q, k, e), Lefts(wk, t))
<1> DEFINE f == Lefts(wk, t)
<1>1. f \in [Node -> Int] /\ Len(q) >= 2 /\ Head(q) = q[1]
  BY LeftsType
<1>2. ASSUME NEW i \in 1 .. Len(q), i < Len(q)
      PROVE  /\ q[i] \in Node /\ f[q[i]] \in Window
             /\ timer_is_before(wk[e], wk[q[i]]) <=> f[e] < f[q[i]]
  <2>1. q[i] \in Node \ {sentinel_timer} /\ Contains(q, q[i])
    BY <1>2 DEF OnceEach, EndsWithSentinel, Contains
  <2>2. f[q[i]] \in Window
    BY <2>1 DEF InOrder, Within
  <2>3. QED
    BY <2>1, <2>2, BeforeIsLess
<1>3. ASSUME NEW j \in 1 .. k - 1 PROVE f[q[j]] <= f[e]
  <2>1. j \in 1 .. Len(q) /\ j < Len(q)
    OBVIOUS
  <2>2. ~timer_is_before(wk[e], wk[q[j]])
    <3>1. CASE j = 1
      BY <1>1, <3>1
    <3>2. CASE j # 1
      <4>1. j \in 2 .. k - 1
        BY <3>2
      <4>2. QED
        BY <4>1 DEF IsInsertPos
    <3>3. QED
      BY <3>1, <3>2
  <2>3. f[q[j]] \in Int /\ f[e] \in Int
    BY <1>1, <1>2, <2>1
  <2>4. ~(f[e] < f[q[j]])
    BY <1>2, <2>1, <2>2
  <2>5. QED
    BY <2>3, <2>4
<1>4. k < Len(q) => f[e] <= f[q[k]]
  <2>1. timer_is_before(wk[e], wk[q[k]])
    BY DEF IsInsertPos
  <2>2. k \in 1 .. Len(q)
    OBVIOUS
  <2>3. k < Len(q) => f[e] < f[q[k]] /\ f[e] \in Int /\ f[q[k]] \in Int
    BY <1>1, <1>2, <2>1, <2>2
  <2>4. QED
    BY <2>3
<1>5. Sorted(InsertAt(q, k, e), f)
  BY <1>1, <1>3, <1>4, SortedInsert DEF InOrder
<1>6. Within(InsertAt(q, k, e), f)
  <2>1. k \in 1 .. Len(q)
    OBVIOUS
  <2>2. \A n : Contains(InsertAt(q, k, e), n) => n = e \/ Contains(q, n)
    BY <2>1, InsertMembers
  <2>3. QED
    BY <2>2 DEF Within, InOrder
<1>7. QED
  BY <1>5, <1>6 DEF InOrder

\* Nodes whose times matter keep them.
LEMMA SameInOrder ==
  ASSUME NEW q \in Seq(Node), OnceEach(q), EndsWithSentinel(q), NEW f, NEW g, InOrder(q, f),
         \A n \in Node \ {sentinel_timer} : Contains(q, n) => g[n] = f[n]
  PROVE  InOrder(q, g)
<1>1. Sorted(q, g)
  BY SortedSame DEF InOrder
<1>2. Within(q, g)
  BY DEF InOrder, Within
<1>3. QED
  BY <1>1, <1>2 DEF InOrder

LEMMA TailInOrder ==
  ASSUME NEW q \in Seq(Node), Shape(q), NEW f, InOrder(q, f)
  PROVE  InOrder(Tail(q), f)
<1>1. Sorted(Tail(q), f)
  BY SortedTail DEF InOrder
<1>2. Within(Tail(q), f)
  BY TailMembers DEF InOrder, Within
<1>3. QED
  BY <1>1, <1>2 DEF InOrder

LEMMA PrependInOrder ==
  ASSUME NEW q \in Seq(Node), OnceEach(q), EndsWithSentinel(q), NEW f, InOrder(q, f),
         NEW e \in Node, f[e] \in Window,
         \A n \in Node \ {sentinel_timer} : Contains(q, n) => f[e] <= f[n]
  PROVE  InOrder(<<e>> \o q, f)
<1>1. Sorted(<<e>> \o q, f)
  BY SortedPrepend DEF InOrder
<1>2. \A n : Contains(<<e>> \o q, n) => n = e \/ Contains(q, n)
  BY PrependMembers
<1>3. Within(<<e>> \o q, f)
  BY <1>2 DEF InOrder, Within
<1>4. QED
  BY <1>1, <1>3 DEF InOrder

\* A callback that moves its own waketime on leaves the list in order.
LEMMA RescheduleInOrder ==
  ASSUME IInv, NEW t \in Time, InOrder(timer_list, Lefts(waketime, t)),
         NEW wk \in [Node -> Time], Guarded(wk), DispatchReschedule(wk),
         First \in Timers \cup {periodic_timer},
         First = periodic_timer => timer_is_before(wk[periodic_timer], wk[sentinel_timer]),
         \A n \in Node \ {sentinel_timer, First} : wk[n] = waketime[n],
         Lefts(wk, t)[First] \in Window
  PROVE  InOrder(timer_list', Lefts(wk, t))
<1> USE DEF IInv, TypeOK
<1> DEFINE q == Tail(timer_list)
           f == Lefts(waketime, t)
           g == Lefts(wk, t)
<1>0. /\ First = timer_list[1] /\ Len(timer_list) >= 2 /\ First = Head(timer_list)
      /\ First \in Node /\ First # sentinel_timer
  BY FirstFacts
<1>1. /\ q \in Seq(Node) /\ Len(q) = Len(timer_list) - 1 /\ q[1] = timer_list[2] /\ Head(q) = q[1]
      /\ \A i \in 1 .. Len(q) : q[i] = timer_list[i + 1]
      /\ OnceEach(q) /\ EndsWithSentinel(q) /\ (First # periodic_timer => Shape(q))
      /\ ~Contains(q, First)
  BY <1>0, TailShape
<1>2. f \in [Node -> Int] /\ g \in [Node -> Int] /\ g[First] \in Window
      /\ \A n \in Node \ {sentinel_timer, First} : g[n] = f[n]
  <2>1. f \in [Node -> Int] /\ g \in [Node -> Int]
    BY LeftsType
  <2>2. \A n \in Node : f[n] = Diff(waketime[n], t) /\ g[n] = Diff(wk[n], t)
    BY LeftsType
  <2>3. QED
    BY <2>1, <2>2
<1>3. InOrder(q, g)
  <2>1. InOrder(q, f)
    BY TailInOrder
  <2>2. \A n \in Node \ {sentinel_timer} : Contains(q, n) => g[n] = f[n]
    BY <1>1, <1>2
  <2> HIDE DEF q, f, g
  <2>3. QED
    BY <1>1, <2>1, <2>2, SameInOrder
<1>4. timer_list' = IF timer_is_before(wk[First], wk[timer_list[2]])
                    THEN timer_list ELSE insert_timer(q, wk, First)
  BY <1>0 DEF DispatchReschedule
<1>5. CASE timer_is_before(wk[First], wk[timer_list[2]])
  <2>1. timer_list' = <<First>> \o q
    BY <1>0, <1>4, <1>5
  <2>2. \A m \in Node : timer_is_before(wk[First], wk[m]) /\ g[m] \in Window => g[First] < g[m]
    BY <1>0, <1>2, BeforeIsLess
  <2>3. timer_is_before(wk[First], wk[q[1]])
    BY <1>1, <1>5
  <2> HIDE DEF q, f, g
  <2>4. ASSUME NEW n \in Node \ {sentinel_timer}, Contains(q, n) PROVE g[First] <= g[n]
    <3>1. g[q[1]] <= g[n]
      BY <1>1, <1>2, <1>3, <2>4, FirstRunsFirst DEF InOrder
    <3>2. q[1] \in Node /\ q[1] # sentinel_timer /\ Contains(q, q[1])
      <4>1. PICK i \in 1 .. Len(q) : q[i] = n
        BY <2>4 DEF Contains
      <4>2. i # Len(q) /\ Len(q) \in Nat
        BY <1>1, <4>1 DEF EndsWithSentinel
      <4>3. PICK l \in Nat : l = Len(q)
        BY <4>2
      <4>4. i \in 1 .. l /\ i # l
        BY <4>1, <4>2, <4>3
      <4>5. 1 \in 1 .. l /\ l \in 1 .. l /\ 1 # l
        BY <4>4
      <4>6. QED
        BY <1>1, <4>3, <4>5 DEF OnceEach, EndsWithSentinel, Contains
    <3>3. g[q[1]] \in Window
      BY <1>3, <3>2 DEF InOrder, Within
    <3>4. g[First] < g[q[1]]
      BY <2>2, <2>3, <3>2, <3>3
    <3>5. g[First] \in Int /\ g[q[1]] \in Int /\ g[n] \in Int
      BY <1>0, <1>2, <3>2
    <3>6. QED
      BY <3>1, <3>4, <3>5
  <2>5. InOrder(<<First>> \o q, g)
    BY <1>0, <1>1, <1>2, <1>3, <2>4, PrependInOrder
  <2>6. QED
    BY <2>1, <2>5 DEF g
<1>6. CASE ~timer_is_before(wk[First], wk[timer_list[2]])
  <2>0. wk[First] \in Time
    BY <1>0
  <2>1. PICK k \in 2 .. Len(q) : timer_is_before(wk[First], wk[q[k]])
    <3>1. CASE First = periodic_timer
      <4>1. Len(q) \in 1 .. Len(q) /\ timer_is_before(wk[First], wk[q[Len(q)]])
        BY <1>0, <1>1, <3>1 DEF EndsWithSentinel
      <4>2. Len(q) # 1 /\ Len(q) \in Nat
        BY <1>1, <1>6, <4>1
      <4>3. Len(q) >= 2
        BY <1>0, <1>1, <4>1, <4>2
      <4>4. Len(q) \in 2 .. Len(q)
        BY <4>2, <4>3
      <4>5. QED
        BY <4>1, <4>4
    <3>2. CASE First # periodic_timer
      BY <1>1, <1>6, <2>0, <3>2, GuardsStopInsert
    <3>3. QED
      BY <3>1, <3>2
  <2> DEFINE p == InsertPos(q, wk, wk[First])
  <2>2. p \in 2 .. Len(q) /\ IsInsertPos(q, wk, wk[First], p)
    BY <1>1, <2>0, <2>1, InsertPosExists
  <2>3. timer_list' = InsertAt(q, p, First)
    BY <1>4, <1>6 DEF insert_timer
  <2> HIDE DEF p, q
  <2>4. ~timer_is_before(wk[First], wk[Head(q)])
    BY <1>1, <1>6
  <2>5. InOrder(InsertAt(q, p, First), g)
    BY <1>0, <1>1, <1>3, <2>2, <2>4, InsertInOrder
  <2>6. QED
    BY <2>3, <2>5
<1>7. QED
  BY <1>5, <1>6

\* sched_add_timer of a timer that is not too late.
LEMMA AddInOrder ==
  ASSUME IInv, NEW t \in Time, InOrder(timer_list, Lefts(waketime, t)),
         NEW u \in Timers, ~Listed(u), Lefts(waketime, t)[u] \in Window, sched_add_timer(u),
         waketime' \in [Node -> Time]
  PROVE  InOrder(timer_list', Lefts(waketime', t))
<1> USE DEF IInv, TypeOK
<1> DEFINE f == Lefts(waketime, t)
           g == Lefts(waketime', t)
<1>0. /\ First = timer_list[1] /\ Len(timer_list) >= 2 /\ First = Head(timer_list)
      /\ First \in Node /\ First # sentinel_timer /\ Listed(First)
  BY FirstFacts
<1>1. /\ u \in Node /\ u # deleted_timer /\ u # sentinel_timer /\ deleted_timer \in Node
      /\ deleted_timer # sentinel_timer
  BY SchedNodesDiffer
<1>2. /\ f \in [Node -> Int] /\ g \in [Node -> Int]
      /\ \A n \in Node : f[n] = Diff(waketime[n], t) /\ g[n] = Diff(waketime'[n], t)
  BY LeftsType
<1>3. CASE AddFirst(u)
  <2> DEFINE rest == IF First = deleted_timer THEN Tail(timer_list) ELSE timer_list
  <2>1. /\ timer_list' = <<deleted_timer, u>> \o rest
        /\ waketime' = Woken(deleted_timer, waketime[u])
        /\ timer_is_before(waketime[u], waketime[First])
    BY <1>0, <1>3 DEF AddFirst, BecomesFirst, First
  <2>2. /\ rest \in Seq(Node) /\ OnceEach(rest) /\ EndsWithSentinel(rest)
        /\ ~Contains(rest, deleted_timer) /\ ~Contains(rest, u)
        /\ InOrder(rest, f)
        /\ \A n : Contains(rest, n) => Listed(n)
    <3>1. CASE First = deleted_timer
      BY <1>0, <3>1, TailShape, TailInOrder, TailMembers DEF Listed
    <3>2. CASE First # deleted_timer
      <4>1. ~Contains(timer_list, deleted_timer)
        BY <1>0, <3>2 DEF Shape, Placeholder, Contains
      <4>2. QED
        BY <3>2, <4>1 DEF Shape, Listed
    <3>3. QED
      BY <3>1, <3>2
  <2>3. /\ g[deleted_timer] = f[u] /\ g[u] = f[u]
        /\ \A n \in Node : n # deleted_timer => g[n] = f[n]
    BY <1>1, <1>2, <2>1 DEF Woken
  <2>4. f[First] \in Window /\ f[u] \in Window
    BY <1>0 DEF InOrder, Within, Listed
  <2>5. f[u] < f[First]
    BY <1>0, <1>1, <2>1, <2>4, BeforeIsLess
  <2>6. \A n \in Node \ {sentinel_timer} : Listed(n) => f[First] <= f[n]
    <3>1. Sorted(timer_list, f)
      BY DEF InOrder
    <3> HIDE DEF f
    <3>2. QED
      BY <1>0, <1>2, <3>1, FirstRunsFirst DEF Shape, Listed
  <2> HIDE DEF rest, f, g
  <2>7. \A n \in Node \ {sentinel_timer} : Contains(rest, n) => g[u] <= g[n] /\ g[n] = f[n]
    <3> SUFFICES ASSUME NEW n \in Node \ {sentinel_timer}, Contains(rest, n)
                 PROVE  g[u] <= g[n] /\ g[n] = f[n]
      OBVIOUS
    <3>1. f[First] <= f[n] /\ n # deleted_timer
      BY <2>2, <2>6
    <3>2. f[u] \in Int /\ f[First] \in Int /\ f[n] \in Int
      BY <1>0, <1>1, <1>2
    <3>3. QED
      BY <2>3, <2>5, <3>1, <3>2
  <2>8. InOrder(rest, g)
    BY <2>2, <2>7, SameInOrder
  <2>9. <<u>> \o rest \in Seq(Node) /\ InOrder(<<u>> \o rest, g)
    <3>1. <<u>> \in Seq(Node)
      BY <1>1
    <3>2. QED
      BY <1>1, <2>2, <2>3, <2>4, <2>7, <2>8, <3>1, PrependInOrder
  <2>10. OnceEach(<<u>> \o rest) /\ EndsWithSentinel(<<u>> \o rest)
    <3>1. Contains(rest, periodic_timer)
      BY <1>0, TailMembers, SchedNodesDiffer DEF rest, Shape
    <3>2. QED
      BY <1>1, <2>2, <3>1, PrependShape DEF Shape
  <2>11. \A n \in Node \ {sentinel_timer} : Contains(<<u>> \o rest, n) => g[deleted_timer] <= g[n]
    <3>1. \A n : Contains(<<u>> \o rest, n) => n = u \/ Contains(rest, n)
      BY <1>1, <2>2, PrependMembers
    <3>2. g[u] <= g[u]
      BY <1>1, <1>2
    <3>3. QED
      BY <2>3, <2>7, <3>1, <3>2
  <2>12. InOrder(<<deleted_timer>> \o (<<u>> \o rest), g)
    BY <1>1, <2>3, <2>4, <2>9, <2>10, <2>11, PrependInOrder
  <2>13. timer_list' = <<deleted_timer>> \o (<<u>> \o rest)
    <3>1. /\ <<u>> \in Seq(Node) /\ <<deleted_timer>> \in Seq(Node)
          /\ <<deleted_timer, u>> = <<deleted_timer>> \o <<u>>
      BY <1>1
    <3>2. QED
      BY <2>1, <2>2, <3>1, ConcatAssociative
  <2>14. QED
    BY <2>12, <2>13 DEF g
<1>4. CASE AddLater(u)
  <2>1. /\ waketime[u] \in Time /\ ~timer_is_before(waketime[u], waketime[Head(timer_list)])
        /\ waketime' = waketime
    BY <1>1, <1>4 DEF AddLater, BecomesFirst
  <2>2. PICK k \in 2 .. Len(timer_list) : timer_is_before(waketime[u], waketime[timer_list[k]])
    BY <2>1, GuardsStopInsert
  <2> DEFINE p == InsertPos(timer_list, waketime, waketime[u])
  <2>3. p \in 2 .. Len(timer_list) /\ IsInsertPos(timer_list, waketime, waketime[u], p)
    BY <2>1, <2>2, InsertPosExists
  <2>4. timer_list' = InsertAt(timer_list, p, u)
    BY <1>4 DEF AddLater, insert_timer
  <2> HIDE DEF p
  <2>5. OnceEach(timer_list) /\ EndsWithSentinel(timer_list)
    BY DEF Shape
  <2>6. QED
    BY <1>1, <2>1, <2>3, <2>4, <2>5, InsertInOrder
<1>5. QED
  BY <1>3, <1>4 DEF sched_add_timer

\* sched_del_timer, of the first node and of any other.
LEMMA DelInOrder ==
  ASSUME IInv, NEW t \in Time, InOrder(timer_list, Lefts(waketime, t)),
         NEW u \in Timers, sched_del_timer(u), waketime' \in [Node -> Time]
  PROVE  InOrder(timer_list', Lefts(waketime', t))
<1> USE DEF IInv, TypeOK
<1> DEFINE f == Lefts(waketime, t)
           g == Lefts(waketime', t)
<1>0. /\ First = timer_list[1] /\ Len(timer_list) >= 2 /\ First = Head(timer_list)
      /\ First \in Node /\ First # sentinel_timer /\ Listed(First)
  BY FirstFacts
<1>1. /\ u \in Node /\ u # deleted_timer /\ u # sentinel_timer /\ u # periodic_timer
      /\ deleted_timer \in Node /\ deleted_timer # sentinel_timer
  BY SchedNodesDiffer
<1>2. /\ f \in [Node -> Int] /\ g \in [Node -> Int]
      /\ \A n \in Node : f[n] = Diff(waketime[n], t) /\ g[n] = Diff(waketime'[n], t)
  BY LeftsType
<1>3. CASE DelFirst(u)
  <2> DEFINE q == Tail(timer_list)
  <2>1. timer_list' = <<deleted_timer>> \o q /\ waketime' = Woken(deleted_timer, waketime[u]) /\ First = u
    BY <1>3 DEF DelFirst, First
  <2>2. /\ q \in Seq(Node) /\ OnceEach(q) /\ EndsWithSentinel(q) /\ ~Contains(q, deleted_timer)
        /\ InOrder(q, f) /\ \A n : Contains(q, n) => Listed(n)
    BY <1>0, TailShape, TailInOrder, TailMembers DEF Listed
  <2>3. /\ g[deleted_timer] = f[First]
        /\ \A n \in Node : n # deleted_timer => g[n] = f[n]
    BY <1>1, <1>2, <2>1 DEF Woken
  <2>4. f[First] \in Window
    BY <1>0 DEF InOrder, Within, Listed
  <2>5. \A n \in Node \ {sentinel_timer} : Listed(n) => f[First] <= f[n]
    <3>1. Sorted(timer_list, f)
      BY DEF InOrder
    <3> HIDE DEF f
    <3>2. QED
      BY <1>0, <1>2, <3>1, FirstRunsFirst DEF Shape, Listed
  <2> HIDE DEF q, f, g
  <2>6. \A n \in Node \ {sentinel_timer} : Contains(q, n) => g[n] = f[n] /\ g[deleted_timer] <= g[n]
    BY <2>2, <2>3, <2>5
  <2>7. InOrder(q, g)
    BY <2>2, <2>6, SameInOrder
  <2>8. InOrder(<<deleted_timer>> \o q, g)
    BY <1>1, <2>2, <2>3, <2>4, <2>6, <2>7, PrependInOrder
  <2>9. QED
    BY <2>1, <2>8 DEF g
<1>4. CASE DelLater(u) /\ Listed(u)
  <2> DEFINE k == CHOOSE i \in 1 .. Len(timer_list) : timer_list[i] = u
  <2>1. k \in 1 .. Len(timer_list) /\ timer_list[k] = u
    BY <1>4 DEF Listed, Contains
  <2>2. timer_list' = RemoveAt(timer_list, k) /\ waketime' = waketime
    BY <1>4 DEF DelLater
  <2> HIDE DEF k
  <2>3. Sorted(RemoveAt(timer_list, k), f)
    BY <2>1, SortedRemove DEF InOrder
  <2>4. \A n : Contains(RemoveAt(timer_list, k), n) => Contains(timer_list, n)
    BY <2>1, RemoveMembers DEF Shape
  <2>5. QED
    BY <2>2, <2>3, <2>4 DEF InOrder, Within
<1>5. CASE DelLater(u) /\ ~Listed(u)
  BY <1>5 DEF DelLater
<1>6. QED
  BY <1>3, <1>4, <1>5 DEF sched_del_timer

\* sched_timer_reset leaves the timers of the scheduler only.
LEMMA ResetInOrder ==
  ASSUME IInv, NEW t \in Time, InOrder(timer_list, Lefts(waketime, t)),
         sched_timer_reset, waketime' \in [Node -> Time]
  PROVE  InOrder(timer_list', Lefts(waketime', t))
<1> USE DEF IInv, TypeOK
<1> DEFINE f == Lefts(waketime, t)
           g == Lefts(waketime', t)
<1>1. /\ Len(timer_list') = 3 /\ timer_list'[1] = deleted_timer
      /\ timer_list'[2] = periodic_timer /\ timer_list'[3] = sentinel_timer
      /\ waketime' = Woken(deleted_timer, waketime[periodic_timer])
  BY DEF sched_timer_reset
<1>2. /\ f \in [Node -> Int] /\ g \in [Node -> Int]
      /\ \A n \in Node : f[n] = Diff(waketime[n], t) /\ g[n] = Diff(waketime'[n], t)
  BY LeftsType
<1>3. f[periodic_timer] \in Window
  BY SchedNodesDiffer DEF InOrder, Within, Shape
<1>4. g[deleted_timer] = f[periodic_timer] /\ g[periodic_timer] = f[periodic_timer]
  <2>1. waketime'[deleted_timer] = waketime[periodic_timer] /\ waketime'[periodic_timer] = waketime[periodic_timer]
    BY <1>1, SchedNodesDiffer DEF Woken
  <2> HIDE DEF f, g
  <2>2. QED
    BY <1>2, <2>1, SchedNodesDiffer
<1> HIDE DEF f, g
<1>5. f[periodic_timer] \in Int
  BY <1>2, SchedNodesDiffer
<1>6. Sorted(timer_list', g)
  BY <1>1, <1>4, <1>5 DEF Sorted
<1>7. Within(timer_list', g)
  BY <1>1, <1>3, <1>4 DEF Within, Contains
<1>8. QED
  BY <1>6, <1>7 DEF InOrder, g

-----------------------------------------------------------------------------
(* Which node is first, and what it says, after each operation.              *)

LEMMA HeadAfterAdd ==
  ASSUME IInv, NEW t \in Timers
  PROVE  /\ AddFirst(t) => First' = deleted_timer /\ waketime'[deleted_timer] = waketime[t]
         /\ AddLater(t) => First' = First /\ waketime' = waketime
<1> USE DEF IInv, TypeOK
<1>0. t \in Node /\ deleted_timer \in Node
  BY SchedNodesDiffer
<1>1. ASSUME AddFirst(t) PROVE First' = deleted_timer /\ waketime'[deleted_timer] = waketime[t]
  <2> DEFINE rest == IF Head(timer_list) = deleted_timer THEN Tail(timer_list) ELSE timer_list
  <2>1. timer_list' = <<deleted_timer, t>> \o rest /\ waketime' = Woken(deleted_timer, waketime[t])
    BY <1>1 DEF AddFirst
  <2>2. rest \in Seq(Node) /\ <<deleted_timer, t>> \in Seq(Node)
    BY <1>0, FirstFacts
  <2> HIDE DEF rest
  <2>3. (<<deleted_timer, t>> \o rest)[1] = deleted_timer
    BY <2>2
  <2>4. First' = deleted_timer
    BY <2>1, <2>2, <2>3 DEF First
  <2>5. QED
    BY <1>0, <2>1, <2>4 DEF Woken
<1>2. ASSUME AddLater(t) PROVE First' = First /\ waketime' = waketime
  <2>1. /\ waketime[t] \in Time /\ ~timer_is_before(waketime[t], waketime[Head(timer_list)])
        /\ waketime' = waketime
    BY <1>0, <1>2 DEF AddLater, BecomesFirst
  <2>2. PICK k \in 2 .. Len(timer_list) : timer_is_before(waketime[t], waketime[timer_list[k]])
    BY <2>1, GuardsStopInsert
  <2>3. PICK p \in 2 .. Len(timer_list) : p = InsertPos(timer_list, waketime, waketime[t])
    BY <2>1, <2>2, InsertPosExists
  <2>4. timer_list' = InsertAt(timer_list, p, t)
    BY <1>2, <2>3 DEF AddLater, insert_timer
  <2>5. p \in 1 .. Len(timer_list) /\ 1 \in 1 .. Len(timer_list) + 1 /\ 1 < p
    BY <2>3
  <2>6. InsertAt(timer_list, p, t)[1] = timer_list[1]
    <3>1. \A i \in 1 .. Len(timer_list) + 1 :
            InsertAt(timer_list, p, t)[i]
              = IF i < p THEN timer_list[i] ELSE IF i = p THEN t ELSE timer_list[i - 1]
      BY <1>0, <2>5, InsertAtProperties
    <3>2. QED
      BY <2>5, <3>1
  <2>7. InsertAt(timer_list, p, t) \in Seq(Node) /\ Len(InsertAt(timer_list, p, t)) = Len(timer_list) + 1
    BY <1>0, <2>5, InsertAtProperties
  <2>8. First' = timer_list[1]
    BY <2>4, <2>6, <2>7 DEF First
  <2>9. QED
    BY <2>1, <2>8, FirstFacts
<1>3. QED
  BY <1>1, <1>2

LEMMA HeadAfterDel ==
  ASSUME IInv, NEW t \in Timers, sched_del_timer(t)
  PROVE  First' \in {First, deleted_timer} /\ waketime'[First'] = waketime[First]
<1> USE DEF IInv, TypeOK
<1>0. t \in Node /\ deleted_timer \in Node
  BY SchedNodesDiffer
<1>1. CASE DelFirst(t)
  <2>1. Tail(timer_list) \in Seq(Node) /\ <<deleted_timer>> \in Seq(Node)
    BY <1>0, FirstFacts
  <2>2. (<<deleted_timer>> \o Tail(timer_list))[1] = deleted_timer
    BY <2>1
  <2>3. First' = deleted_timer
    BY <1>1, <2>1, <2>2 DEF DelFirst, First
  <2>4. QED
    BY <1>0, <1>1, <2>3 DEF DelFirst, Woken, First
<1>2. CASE DelLater(t) /\ Listed(t)
  <2>1. PICK k \in 1 .. Len(timer_list) :
          timer_list[k] = t /\ timer_list' = RemoveAt(timer_list, k) /\ waketime' = waketime
    BY <1>2 DEF DelLater, Listed, Contains
  <2>2. k # 1 /\ First = timer_list[1] /\ Len(timer_list) >= 2
    BY <1>2, <2>1, FirstFacts DEF DelLater
  <2>3. 1 \in 1 .. Len(timer_list) - 1 /\ 1 < k
    BY <2>1, <2>2
  <2>4. \A i \in 1 .. Len(timer_list) - 1 :
          RemoveAt(timer_list, k)[i] = IF i < k THEN timer_list[i] ELSE timer_list[i + 1]
    BY <2>1, RemoveAtProperties
  <2>5. RemoveAt(timer_list, k)[1] = timer_list[1]
    BY <2>3, <2>4
  <2>6. RemoveAt(timer_list, k) \in Seq(Node) /\ Len(RemoveAt(timer_list, k)) = Len(timer_list) - 1
    BY <2>1, RemoveAtProperties
  <2>7. First' = First
    BY <2>1, <2>2, <2>5, <2>6 DEF First
  <2>8. QED
    BY <2>1, <2>7
<1>3. CASE DelLater(t) /\ ~Listed(t)
  BY <1>3 DEF DelLater, First
<1>4. QED
  BY <1>1, <1>2, <1>3 DEF sched_del_timer

LEMMA HeadAfterReset ==
  ASSUME IInv, sched_timer_reset
  PROVE  First' = deleted_timer /\ waketime'[First'] = waketime[periodic_timer]
<1>1. First' = deleted_timer
  BY DEF sched_timer_reset, First
<1>2. QED
  BY <1>1, SchedNodesDiffer DEF sched_timer_reset, Woken, IInv, TypeOK

-----------------------------------------------------------------------------
(* The time invariant                                                        *)

Left(n) == Diff(waketime[n], now)
LeftToWake == Rel(next_wake)
LeftToRepeat == Rel(timer_repeat_until)

\* A command adds its timer before it is later than timers may get.
CallerInTime == op = "add" => Left(cmd) >= -Slack /\ Left(cmd) < HalfRange - MostLate

\* The hardware is the main thread's alarm clock while the handler is not
\* active and the timers have not been given up by a shutdown.
Idle == isr = "off" /\ main # "shutdown"

\* The handler has put the first timer off, though it is or will soon be due.
Deferred == /\ LeftToWake <= Defer /\ LeftToWake - Left(First) <= MostLate
            /\ LeftToRepeat >= LeftToWake

\* It is set for the first timer, or for a deferred one, and never for a time
\* before that of a device's timer.
HardwareIsSet ==
  Idle => /\ LeftToWake >= -MaxLatency
          /\ First = deleted_timer \/ Left(First) <= LeftToWake
          /\ LeftToWake > 0 => Left(First) >= LeftToWake \/ Deferred

\* Only a deferred timer gets later than Slack, and it is not deferred again
\* while timer_repeat_until says so.
FirstIsNotTooLate == Left(First) >= -Slack \/ LeftToRepeat >= 0

DispatchIsDue == isr = "dispatch" => First = deleted_timer \/ Left(First) <= 0

ListInOrder == InOrder(timer_list, Lefts(waketime, now))

TimeInv == /\ ListInOrder /\ CallerInTime /\ HardwareIsSet /\ FirstIsNotTooLate /\ DispatchIsDue

LEMMA TimeTypes ==
  ASSUME SInv, ListInOrder
  PROVE  /\ LeftToWake \in -HalfRange .. (HalfRange - 1)
         /\ LeftToRepeat \in -HalfRange .. (HalfRange - 1)
         /\ Left(First) \in Window
         /\ \A n \in Node : Left(n) \in -HalfRange .. (HalfRange - 1) /\ Left(n) = Lefts(waketime, now)[n]
<1>1. now \in Time /\ next_wake \in Time /\ timer_repeat_until \in Time /\ IInv
  BY DEF SInv, TimesOK
<1>2. waketime \in [Node -> Time]
  BY <1>1 DEF IInv, TypeOK
<1>3. LeftToWake \in -HalfRange .. (HalfRange - 1) /\ LeftToRepeat \in -HalfRange .. (HalfRange - 1)
  BY <1>1, DiffRange DEF LeftToWake, LeftToRepeat, Rel
<1>4. \A n \in Node : Left(n) \in -HalfRange .. (HalfRange - 1) /\ Left(n) = Lefts(waketime, now)[n]
  <2>1. \A n \in Node : waketime[n] \in Time
    BY <1>2
  <2>2. \A n \in Node : Diff(waketime[n], now) \in -HalfRange .. (HalfRange - 1)
    BY <1>1, <2>1, DiffRange
  <2>3. QED
    BY <1>1, <1>2, <2>2, LeftsType DEF Left
<1>5. Left(First) \in Window
  BY <1>1, <1>4, FirstFacts DEF ListInOrder, InOrder, Within, Listed
<1>6. QED
  BY <1>3, <1>4, <1>5

\* No node but the sentinel has less left than the first.
LEMMA FirstHasLeast ==
  ASSUME SInv, ListInOrder, NEW n \in Node, n # sentinel_timer, Listed(n)
  PROVE  Left(First) <= Left(n)
<1>1. now \in Time /\ IInv
  BY DEF SInv, TimesOK
<1>2. Lefts(waketime, now) \in [Node -> Int]
  BY <1>1, LeftsType DEF IInv, TypeOK
<1>3. Lefts(waketime, now)[Head(timer_list)] <= Lefts(waketime, now)[n]
  BY <1>1, <1>2, FirstRunsFirst DEF ListInOrder, InOrder, IInv, TypeOK, Shape, Listed
<1>4. QED
  BY <1>1, <1>3, TimeTypes, FirstFacts

\* A dispatch moves nothing but the timer that ran, and with periodic_timer the
\* sentinel, and none of them backwards.
MovesOn == /\ InOrder(timer_list', Lefts(waketime', now))
           /\ \A n \in Node : Listed(n)' => Listed(n)
           /\ \A n \in Node \ {sentinel_timer} : Listed(n)' => Diff(waketime'[n], now) >= Left(First)
           /\ \A n \in Node \ {sentinel_timer} : ~Listed(n) => waketime'[n] = waketime[n]

\* The callback of the first timer leaves the waketimes wk, its own d later.
LeavesTimes(wk, d) ==
  /\ Guarded(wk) /\ DispatchReschedule(wk)
  /\ First \in Timers \cup {periodic_timer}
  /\ First = periodic_timer => timer_is_before(wk[periodic_timer], wk[sentinel_timer])
  /\ \A n \in Node \ {sentinel_timer, First} : wk[n] = waketime[n]
  /\ wk[First] = Plus(waketime[First], d)

LEMMA RescheduleMoves ==
  ASSUME SInv, TimeInv, isr = "dispatch", NEW wk \in [Node -> Time],
         NEW d \in EventDelays \cup {Period}, LeavesTimes(wk, d)
  PROVE  MovesOn
<1>0. /\ IInv /\ now \in Time /\ ListInOrder /\ waketime \in [Node -> Time] /\ timer_list \in Seq(Node)
      /\ InOrder(timer_list, Lefts(waketime, now)) /\ isr = "dispatch" /\ Shape(timer_list)
  BY DEF SInv, TimesOK, TimeInv, ListInOrder, IInv, TypeOK
<1>12. /\ Guarded(wk) /\ DispatchReschedule(wk)
       /\ First \in Timers \cup {periodic_timer}
       /\ First = periodic_timer => timer_is_before(wk[periodic_timer], wk[sentinel_timer])
       /\ \A n \in Node \ {sentinel_timer, First} : wk[n] = waketime[n]
       /\ wk[First] = Plus(waketime[First], d)
  BY DEF LeavesTimes
<1>1. /\ First \in Node /\ First # sentinel_timer /\ Listed(First) /\ waketime[First] \in Time
      /\ First = Head(timer_list) /\ deleted_timer \in Node
  BY <1>0, FirstFacts, SchedNodesDiffer
<1>2. \A n \in Node \ {sentinel_timer} : Listed(n) => Left(n) >= Left(First) /\ Left(n) \in Int
  BY <1>0, FirstHasLeast, TimeTypes, <1>1
<1>3. Left(First) <= 0 /\ Left(First) \in Window
  BY <1>0, <1>12, TimeTypes, SchedNodesDiffer DEF TimeInv, DispatchIsDue
<1>4. d \in Nat /\ MostLate + d < HalfRange /\ d \in -Modulus .. Modulus
  BY DelayIsShort, BoundsAreNatural
<1>5. Diff(wk[First], now) = Left(First) + d
  <2>1. PICK x \in Int : x = Diff(waketime[First], now) /\ x <= 0 /\ x \in Window
    BY <1>3 DEF Left, Window
  <2>2. x + d \in -HalfRange .. (HalfRange - 1)
    BY <1>4, <2>1, BoundsAreNatural DEF Window
  <2>3. Diff(Plus(waketime[First], d), now) = x + d
    BY <1>0, <1>1, <1>4, <2>1, <2>2, DiffPlus
  <2>4. QED
    BY <1>12, <2>1, <2>3 DEF Left
<1>6. Lefts(wk, now)[First] \in Window
  <2>1. Lefts(wk, now)[First] = Left(First) + d
    BY <1>0, <1>1, <1>5, LeftsType
  <2>2. Left(First) + d \in Window
    BY <1>3, <1>4, BoundsAreNatural DEF Window
  <2>3. QED
    BY <2>1, <2>2
<1>7. InOrder(timer_list', Lefts(wk, now)) /\ waketime' = wk
  BY <1>0, <1>12, <1>6, RescheduleInOrder DEF DispatchReschedule
<1>8. \A n \in Node : Listed(n)' <=> Listed(n)
  BY <1>0, <1>12, RescheduleMembers
<1>9. ASSUME NEW n \in Node \ {sentinel_timer}, Listed(n)' PROVE Diff(wk[n], now) >= Left(First)
  <2>1. CASE n = First
    <3>1. Left(First) \in Int
      BY <1>1, <1>2
    <3>2. QED
      BY <1>4, <1>5, <2>1, <3>1
  <2>2. CASE n # First
    <3>1. Listed(n) /\ wk[n] = waketime[n]
      BY <1>12, <1>8, <1>9, <2>2
    <3>2. QED
      BY <1>2, <3>1 DEF Left
  <2>3. QED
    BY <2>1, <2>2
<1>10. \A n \in Node \ {sentinel_timer} : ~Listed(n) => wk[n] = waketime[n]
  BY <1>1, <1>12
<1>11. QED
  BY <1>7, <1>8, <1>9, <1>10 DEF MovesOn

LEMMA DispatchMoves ==
  ASSUME SInv, TimeInv, DispatchUser \/ DispatchOwn
  PROVE  MovesOn
<1>0. /\ IInv /\ now \in Time /\ ListInOrder /\ waketime \in [Node -> Time] /\ timer_list \in Seq(Node)
      /\ InOrder(timer_list, Lefts(waketime, now)) /\ isr = "dispatch" /\ Shape(timer_list)
  BY DEF SInv, TimesOK, TimeInv, ListInOrder, IInv, TypeOK, DispatchUser, DispatchOwn
<1>1. /\ First \in Node /\ First # sentinel_timer /\ Listed(First) /\ waketime[First] \in Time
      /\ First = Head(timer_list) /\ deleted_timer \in Node
  BY <1>0, FirstFacts, SchedNodesDiffer
<1>2. \A n \in Node \ {sentinel_timer} : Listed(n) => Left(n) >= Left(First) /\ Left(n) \in Int
  BY <1>0, FirstHasLeast, TimeTypes, <1>1
<1>3. CASE DispatchDone
  <2>1. timer_list' = Tail(timer_list) /\ waketime' = waketime
    BY <1>3 DEF DispatchDone
  <2>2. \A n \in Node : Contains(Tail(timer_list), n) => Contains(timer_list, n)
    BY <1>0, TailMembers
  <2>3. InOrder(Tail(timer_list), Lefts(waketime, now))
    BY <1>0, TailInOrder
  <2>4. QED
    BY <1>2, <2>1, <2>2, <2>3 DEF MovesOn, Listed, Left
<1>5. CASE DispatchUser /\ ~DispatchDone
  <2>1. PICK d \in EventDelays : DispatchReschedule(Woken(First, Plus(waketime[First], d)))
    BY <1>5 DEF DispatchUser
  <2>2. /\ First \in Timers /\ First # periodic_timer
        /\ Plus(waketime[First], d) \in Time
    BY <1>1, <1>5, SchedNodesDiffer, DelayIsShort, PlusIsTime DEF DispatchUser
  <2>3. PICK wk \in [Node -> Time] : wk = Woken(First, Plus(waketime[First], d))
    BY <1>0, <1>1, <2>2, WokenGuarded
  <2>4. /\ Guarded(wk) /\ wk[First] = Plus(waketime[First], d) /\ DispatchReschedule(wk)
        /\ \A n \in Node \ {sentinel_timer, First} : wk[n] = waketime[n]
    <3>1. Guarded(wk) /\ wk[First] = Plus(waketime[First], d)
      BY <1>0, <1>1, <2>2, <2>3, WokenGuarded
    <3>2. \A n \in Node \ {sentinel_timer, First} : wk[n] = waketime[n]
      BY <1>0, <2>3 DEF Woken
    <3>3. QED
      BY <2>1, <2>3, <3>1, <3>2
  <2>5. LeavesTimes(wk, d) /\ d \in EventDelays \cup {Period}
    BY <2>2, <2>4 DEF LeavesTimes
  <2>6. QED
    BY <1>0, <2>5, RescheduleMoves
<1>6. CASE DispatchOwn /\ ~DispatchDone
  <2>1. First = periodic_timer /\ DispatchReschedule(PeriodicWaketimes)
    BY <1>6 DEF DispatchOwn, periodic_event, deleted_event, First
  <2>2. PICK wk \in [Node -> Time] : wk = PeriodicWaketimes
    BY <1>0, PeriodicGuarded
  <2>3. Guarded(wk) /\ timer_is_before(wk[periodic_timer], wk[sentinel_timer]) /\ DispatchReschedule(wk)
    BY <1>0, <2>1, <2>2, PeriodicGuarded
  <2>4. /\ wk[First] = Plus(waketime[First], Period)
        /\ \A n \in Node \ {sentinel_timer, First} : wk[n] = waketime[n]
    BY <1>0, <2>1, <2>2, SchedNodesDiffer DEF PeriodicWaketimes
  <2>5. LeavesTimes(wk, Period) /\ Period \in EventDelays \cup {Period}
    BY <2>1, <2>3, <2>4 DEF LeavesTimes
  <2>6. QED
    BY <1>0, <2>5, RescheduleMoves
<1>7. QED
  BY <1>3, <1>5, <1>6

-----------------------------------------------------------------------------
(* Every step keeps the time invariant.                                      *)

\* A step that leaves the list and the clock alone.
LEMMA SameTimes ==
  ASSUME UNCHANGED <<timer_list, waketime, now>>
  PROVE  /\ ListInOrder <=> ListInOrder'
         /\ First' = First /\ Left(First)' = Left(First)
         /\ cmd' = cmd => Left(cmd)' = Left(cmd)
         /\ next_wake' = next_wake => LeftToWake' = LeftToWake
         /\ timer_repeat_until' = timer_repeat_until => LeftToRepeat' = LeftToRepeat
<1>1. ListInOrder <=> ListInOrder'
  BY DEF ListInOrder, Lefts
<1>2. First' = First /\ Left(First)' = Left(First) /\ (cmd' = cmd => Left(cmd)' = Left(cmd))
  BY DEF First, Left
<1>3. /\ next_wake' = next_wake => LeftToWake' = LeftToWake
      /\ timer_repeat_until' = timer_repeat_until => LeftToRepeat' = LeftToRepeat
  BY DEF LeftToWake, LeftToRepeat, Rel
<1>4. QED
  BY <1>1, <1>2, <1>3

\* A timer that is not late yet has so many ticks left.
LEMMA InTimeLeft ==
  ASSUME SInv, ListInOrder, NEW n \in Node, NEW b \in Nat, Left(n) # -HalfRange, LateBy(n) < b
  PROVE  Left(n) > -b
<1>1. now \in Time /\ waketime[n] \in Time
  BY DEF SInv, TimesOK, IInv, TypeOK
<1>2. Diff(now, waketime[n]) = -Left(n) /\ Left(n) \in Int
  BY <1>1, DiffSwap, DiffRange DEF Left
<1>3. -Left(n) < b
  BY <1>2 DEF LateBy
<1>4. QED
  BY <1>2, <1>3

\* One tick, of which the first timer has not waited too long.
LEMMA TickLefts ==
  ASSUME SInv, TimeInv, Tick, Left(First) > -MostLate
  PROVE  ListInOrder' /\ First' = First /\ Left(First)' = Left(First) - 1
<1>0. /\ IInv /\ now \in Time /\ now' = Plus(now, 1) /\ UNCHANGED <<timer_list, waketime>>
      /\ ListInOrder /\ InOrder(timer_list, Lefts(waketime, now)) /\ waketime \in [Node -> Time]
      /\ timer_list \in Seq(Node) /\ OnceEach(timer_list) /\ EndsWithSentinel(timer_list)
      /\ now' \in Time
  BY HalfRangeAssumption, PlusIsTime
     DEF SInv, TimesOK, TimeInv, ListInOrder, IInv, TypeOK, Shape, Tick, listVars,
         HalfRangeAssumption, Modulus
<1>1. Lefts(waketime, now) \in [Node -> Int] /\ Lefts(waketime, now') \in [Node -> Int]
  BY <1>0, LeftsType
<1>2. ASSUME NEW n \in Node \ {sentinel_timer}, Listed(n)
      PROVE  /\ Left(n) > -MostLate /\ Left(n) \in Window
             /\ Lefts(waketime, now)[n] = Left(n)
             /\ Lefts(waketime, now')[n] = Left(n) - 1
  <2>1. Left(First) \in Int /\ Left(n) \in Int /\ Left(First) <= Left(n) /\ Lefts(waketime, now)[n] = Left(n)
    BY <1>0, <1>2, TimeTypes, FirstHasLeast DEF Window
  <2>2. Left(n) \in Window /\ Left(n) > -MostLate
    BY <1>0, <1>2, <2>1, BoundsAreNatural DEF InOrder, Within, Listed, Window
  <2>3. Left(n) # -HalfRange
    BY <2>1, <2>2, BoundsAreNatural
  <2>4. Diff(waketime[n], now') = Diff(waketime[n], now) - 1
    BY <1>0, <2>3, DiffTick DEF Left
  <2>5. Lefts(waketime, now')[n] = Diff(waketime[n], now')
    BY <1>0, LeftsType
  <2>6. QED
    BY <2>1, <2>2, <2>4, <2>5 DEF Left
<1>3. \A n \in Node \ {sentinel_timer} : Contains(timer_list, n) =>
        Lefts(waketime, now')[n] = Lefts(waketime, now)[n] - 1
  BY <1>2 DEF Listed
<1>4. Sorted(timer_list, Lefts(waketime, now'))
  BY <1>0, <1>1, <1>3, SortedShift DEF InOrder
<1>5. Within(timer_list, Lefts(waketime, now'))
  <2>1. SUFFICES ASSUME NEW n \in Node \ {sentinel_timer}, Contains(timer_list, n)
                 PROVE  Lefts(waketime, now')[n] \in Window
    BY DEF Within
  <2>2. Left(n) > -MostLate /\ Left(n) \in Window /\ Lefts(waketime, now')[n] = Left(n) - 1
    BY <1>2, <2>1 DEF Listed
  <2>3. QED
    BY <2>2, BoundsAreNatural DEF Window
<1>6. ListInOrder'
  BY <1>0, <1>4, <1>5 DEF ListInOrder, InOrder
<1>7. First' = First /\ Left(First)' = Diff(waketime[First], now')
  BY <1>0 DEF First, Left
<1>8. Diff(waketime[First], now') = Left(First) - 1
  <2>1. First \in Node \ {sentinel_timer} /\ Listed(First)
    BY <1>0, FirstFacts
  <2>2. Lefts(waketime, now')[First] = Left(First) - 1
    BY <1>2, <2>1
  <2>3. QED
    BY <1>0, <2>1, <2>2, LeftsType
<1>9. QED
  BY <1>6, <1>7, <1>8

LEMMA TickTime ==
  ASSUME SInv, TimeInv, Tick
  PROVE  TimeInv'
<1>0. /\ IInv /\ now \in Time /\ now' = Plus(now, 1) /\ ListInOrder
      /\ next_wake \in Time /\ timer_repeat_until \in Time /\ now' \in Time
      /\ UNCHANGED <<timer_list, waketime, next_wake, timer_repeat_until, isr, main, op, cmd>>
  BY HalfRangeAssumption, PlusIsTime
     DEF SInv, TimesOK, TimeInv, Tick, listVars, taskVars, callVars, HalfRangeAssumption, Modulus
<1>1. /\ LeftToWake \in Int /\ LeftToRepeat \in Int /\ Left(First) \in Int /\ Left(First) \in Window
      /\ Left(First) # -HalfRange /\ First \in Node
      /\ LeftToWake >= -HalfRange /\ LeftToRepeat >= -HalfRange /\ LeftToWake < HalfRange
  BY <1>0, TimeTypes, BoundsAreNatural, FirstFacts DEF Window
<1>2. LeftToWake # -HalfRange => LeftToWake' = LeftToWake - 1
  BY <1>0, DiffTick DEF LeftToWake, Rel
<1>3. LeftToRepeat # -HalfRange => LeftToRepeat' = LeftToRepeat - 1
  BY <1>0, DiffTick DEF LeftToRepeat, Rel
<1>4. LeftToWake # -HalfRange => Diff(now, next_wake) = -LeftToWake
  BY <1>0, DiffSwap DEF LeftToWake, Rel
<1>5. InTime(First) => Left(First) > -MaxLatency
  BY <1>0, <1>1, InTimeLeft, BoundsAreNatural DEF InTime
<1>6. CallerInTime'
  <2>1. SUFFICES ASSUME op = "add" PROVE Left(cmd)' >= -Slack /\ Left(cmd)' < HalfRange - MostLate
    BY <1>0 DEF CallerInTime
  <2>2. cmd \in Node /\ waketime[cmd] \in Time
    BY <1>0, <2>1, SchedNodesDiffer DEF SInv, CallerHoldsTimer, IInv, TypeOK
  <2>3. Left(cmd) \in Int /\ Left(cmd) >= -Slack /\ Left(cmd) < HalfRange - MostLate
    BY <1>0, <2>1, <2>2, TimeTypes DEF TimeInv, CallerInTime
  <2>4. Left(cmd) # -HalfRange
    BY <2>3, BoundsAreNatural
  <2>5. LateBy(cmd) < Slack
    <3>1. LateBy(cmd) < MaxLatency \/ LateBy(cmd) < MaxLatency + MinTry
      BY <2>1 DEF Tick, InTime
    <3>2. LateBy(cmd) \in Int
      BY <1>0, <2>2, DiffRange DEF LateBy
    <3>3. QED
      BY <3>1, <3>2, BoundsAreNatural
  <2>6. Left(cmd) > -Slack
    BY <1>0, <2>2, <2>4, <2>5, InTimeLeft, BoundsAreNatural
  <2>7. Left(cmd)' = Left(cmd) - 1
    BY <1>0, <2>2, <2>4, DiffTick DEF Left
  <2>8. QED
    BY <2>3, <2>6, <2>7, BoundsAreNatural
<1>7. CASE isr = "off" /\ main \notin {"shutdown", "endfuncs"} /\ ~Due
  <2>1. Idle /\ HardwareIsSet
    BY <1>7 DEF Idle, TimeInv
  <2>2. LeftToWake >= -MaxLatency
    BY <2>1 DEF HardwareIsSet
  <2>3. LeftToWake > 0
    BY <1>1, <1>4, <1>7, <2>2, BoundsAreNatural DEF Due, timer_is_before
  <2>4. Left(First) >= LeftToWake \/ Deferred
    BY <2>1, <2>3 DEF HardwareIsSet
  <2>5. Left(First) > -MostLate
    BY <1>1, <2>3, <2>4, BoundsAreNatural DEF Deferred
  <2>6. /\ ListInOrder' /\ First' = First /\ Left(First)' = Left(First) - 1
        /\ LeftToWake' = LeftToWake - 1
    BY <1>1, <1>2, <2>3, <2>5, TickLefts, BoundsAreNatural
  <2>7. Left(First)' >= LeftToWake' \/ (Deferred /\ LeftToRepeat' = LeftToRepeat - 1)
    BY <1>1, <1>3, <2>3, <2>4, <2>6, BoundsAreNatural DEF Deferred
  <2>8. HardwareIsSet'
    <3>1. LeftToWake' >= -MaxLatency
      BY <1>1, <2>3, <2>6, BoundsAreNatural
    <3>2. First' = deleted_timer \/ Left(First)' <= LeftToWake'
      BY <1>1, <2>1, <2>6 DEF HardwareIsSet
    <3>3. Left(First)' >= LeftToWake' \/ Deferred'
      BY <1>1, <2>6, <2>7, BoundsAreNatural DEF Deferred
    <3>4. QED
      BY <3>1, <3>2, <3>3 DEF HardwareIsSet
  <2>9. FirstIsNotTooLate'
    BY <1>1, <2>3, <2>6, <2>7, BoundsAreNatural DEF FirstIsNotTooLate, Deferred
  <2>10. DispatchIsDue'
    BY <1>0, <1>7 DEF DispatchIsDue
  <2>11. QED
    BY <1>6, <2>6, <2>8, <2>9, <2>10 DEF TimeInv
<1>8. CASE InTime(First) /\ (Idle => Diff(now, next_wake) < MaxLatency)
  <2>1. Left(First) > -MaxLatency
    BY <1>5, <1>8
  <2>2. Left(First) > -MostLate
    BY <1>1, <2>1, BoundsAreNatural
  <2>3. ListInOrder' /\ First' = First /\ Left(First)' = Left(First) - 1
    BY <2>2, TickLefts
  <2>4. FirstIsNotTooLate'
    BY <1>1, <2>1, <2>3, BoundsAreNatural DEF FirstIsNotTooLate
  <2>5. DispatchIsDue'
    BY <1>0, <1>1, <2>3 DEF DispatchIsDue, TimeInv
  <2>6. HardwareIsSet'
    <3>1. SUFFICES ASSUME Idle PROVE HardwareIsSet'
      BY <1>0 DEF HardwareIsSet, Idle
    <3>2. LeftToWake >= -MaxLatency /\ HardwareIsSet
      BY <3>1 DEF TimeInv, HardwareIsSet
    <3>3. LeftToWake' = LeftToWake - 1 /\ LeftToWake > -MaxLatency
      BY <1>1, <1>2, <1>4, <1>8, <3>1, <3>2, BoundsAreNatural
    <3>4. First' = deleted_timer \/ Left(First)' <= LeftToWake'
      BY <1>1, <2>3, <3>1, <3>2, <3>3 DEF HardwareIsSet
    <3>5. LeftToWake' > 0 => Left(First)' >= LeftToWake' \/ Deferred'
      <4>1. SUFFICES ASSUME LeftToWake' > 0, ~(Left(First)' >= LeftToWake') PROVE Deferred'
        OBVIOUS
      <4>2. Deferred /\ LeftToWake > 0
        BY <1>1, <2>3, <3>1, <3>2, <3>3, <4>1 DEF HardwareIsSet
      <4>3. LeftToRepeat' = LeftToRepeat - 1
        BY <1>1, <1>3, <4>2, BoundsAreNatural DEF Deferred
      <4>4. QED
        BY <1>1, <2>3, <3>3, <4>2, <4>3, BoundsAreNatural DEF Deferred
    <3>6. QED
      BY <1>1, <3>3, <3>4, <3>5, BoundsAreNatural DEF HardwareIsSet
  <2>7. QED
    BY <1>6, <2>3, <2>4, <2>5, <2>6 DEF TimeInv
<1>9. QED
  BY <1>7, <1>8 DEF Tick, Idle

\* What the two lemmas below know of the state before the step.
LEMMA TimeScalars ==
  ASSUME SInv, TimeInv
  PROVE  /\ LeftToWake \in Int /\ LeftToRepeat \in Int /\ Left(First) \in Int
         /\ NextIn = Left(First)
         /\ Due <=> LeftToWake <= 0 /\ LeftToWake # -HalfRange
         /\ TooManyRepeats => LeftToRepeat < 0
<1>0. /\ IInv /\ now \in Time /\ ListInOrder /\ next_wake \in Time /\ timer_repeat_until \in Time
      /\ HalfRange \in Nat /\ HalfRange > 0
  BY BoundsAreNatural DEF SInv, TimesOK, TimeInv
<1>1. /\ LeftToWake \in Int /\ LeftToRepeat \in Int /\ Left(First) \in Int
      /\ Diff(now, next_wake) \in Int
  BY <1>0, TimeTypes, DiffRange DEF Window
<1>2. NextIn = Left(First)
  BY DEF NextIn, Left
<1>3. LeftToWake # -HalfRange => Diff(now, next_wake) = -LeftToWake
  BY <1>0, DiffSwap DEF LeftToWake, Rel
<1>4. LeftToWake = -HalfRange => Diff(now, next_wake) = -HalfRange
  BY <1>0 DEF LeftToWake, Rel, Diff, Time, Modulus
<1>5. Due <=> LeftToWake <= 0 /\ LeftToWake # -HalfRange
  BY <1>0, <1>1, <1>3, <1>4 DEF Due, timer_is_before
<1>6. TooManyRepeats => LeftToRepeat < 0
  BY DEF TooManyRepeats, timer_is_before, LeftToRepeat, Rel
<1>7. QED
  BY <1>1, <1>2, <1>5, <1>6

LEMMA FirstOfShape ==
  ASSUME NEW q \in Seq(Node), Shape(q)
  PROVE  Head(q) \in Node /\ Head(q) # sentinel_timer /\ Contains(q, Head(q))
<1>1. Len(q) >= 2 /\ Head(q) = q[1] /\ 1 \in 1 .. Len(q) /\ Len(q) \in 1 .. Len(q)
  BY ShapeLength
<1>2. q[1] # sentinel_timer
  BY <1>1 DEF Shape, OnceEach, EndsWithSentinel
<1>3. QED
  BY <1>1, <1>2 DEF Contains

LEMMA InterruptTime ==
  ASSUME SInv, SInv', TimeInv, Interrupt
  PROVE  TimeInv'
<1>0. /\ LeftToWake \in Int /\ LeftToRepeat \in Int /\ Left(First) \in Int /\ NextIn = Left(First)
      /\ Due => LeftToWake <= 0
      /\ TooManyRepeats => LeftToRepeat < 0
      /\ now \in Time /\ IInv /\ IInv' /\ ListInOrder
      /\ MinTry \in Nat /\ Defer \in Nat /\ Repeat \in Nat /\ MaxLatency \in Nat
      /\ MinTry <= Defer /\ Defer <= Repeat /\ Repeat < HalfRange /\ IdleRepeat < HalfRange
      /\ IdleRepeat \in Nat /\ HalfRange \in Nat
      /\ Slack \in Nat /\ Slack = MaxLatency + MinTry /\ MostLate = Slack + Defer
  BY TimeScalars, BoundsAreNatural DEF SInv, TimesOK, TimeInv
<1>1. CASE Enter
  <2>1. UNCHANGED <<timer_list, waketime, now, next_wake, timer_repeat_until, op, cmd>> /\ isr' = "dispatch"
    BY <1>1 DEF Enter, listVars, clockVars, callVars
  <2>2. /\ ListInOrder' /\ First' = First /\ Left(First)' = Left(First)
        /\ Left(cmd)' = Left(cmd) /\ LeftToRepeat' = LeftToRepeat
    BY <1>0, <2>1, SameTimes
  <2>3. First = deleted_timer \/ Left(First) <= 0
    BY <1>0, <1>1 DEF Enter, Idle, InterruptsOff, TimeInv, HardwareIsSet
  <2>4. DispatchIsDue' /\ HardwareIsSet'
    BY <2>1, <2>2, <2>3 DEF DispatchIsDue, HardwareIsSet, Idle
  <2>5. CallerInTime' /\ FirstIsNotTooLate'
    BY <2>1, <2>2 DEF TimeInv, CallerInTime, FirstIsNotTooLate
  <2>6. QED
    BY <2>2, <2>4, <2>5 DEF TimeInv
<1>2. CASE DispatchUser \/ DispatchOwn
  <2>1. UNCHANGED <<now, next_wake, timer_repeat_until, op, cmd>> /\ isr' = "check"
    BY <1>2 DEF DispatchUser, DispatchOwn, clockVars, callVars
  <2>2. /\ InOrder(timer_list', Lefts(waketime', now))
        /\ \A n \in Node \ {sentinel_timer} : Listed(n)' => Diff(waketime'[n], now) >= Left(First)
        /\ \A n \in Node \ {sentinel_timer} : ~Listed(n) => waketime'[n] = waketime[n]
    BY <1>2, DispatchMoves DEF MovesOn
  <2>3. ListInOrder'
    BY <2>1, <2>2 DEF ListInOrder
  <2>4. CallerInTime'
    <3>1. op = "add" => waketime'[cmd] = waketime[cmd]
      BY <2>2, SchedNodesDiffer DEF SInv, CallerHoldsTimer
    <3>2. op = "add" => Left(cmd)' = Left(cmd)
      BY <2>1, <3>1 DEF Left
    <3>3. QED
      BY <2>1, <3>2 DEF TimeInv, CallerInTime
  <2>5. FirstIsNotTooLate'
    <3>0. /\ timer_list' \in Seq(Node) /\ Shape(timer_list') /\ waketime' \in [Node -> Time]
      BY <1>0 DEF IInv, TypeOK
    <3>1. PICK n \in Node : n = First' /\ n # sentinel_timer /\ Contains(timer_list', n)
      BY <3>0, FirstOfShape DEF First
    <3>2. Listed(n)'
      BY <3>1 DEF Listed
    <3>3. Diff(waketime'[n], now) >= Left(First)
      BY <2>2, <3>1, <3>2
    <3>4. Left(First)' = Diff(waketime'[n], now)
      BY <2>1, <3>1 DEF Left
    <3>5. Left(First)' \in Int
      BY <1>0, <3>0, <3>4, DiffRange
    <3>6. LeftToRepeat' = LeftToRepeat
      BY <2>1 DEF LeftToRepeat, Rel
    <3>7. QED
      BY <1>0, <3>3, <3>4, <3>5, <3>6 DEF TimeInv, FirstIsNotTooLate
  <2>6. HardwareIsSet' /\ DispatchIsDue'
    BY <2>1 DEF HardwareIsSet, Idle, DispatchIsDue
  <2>7. QED
    BY <2>3, <2>4, <2>5, <2>6 DEF TimeInv
<1>3. CASE DispatchFatal \/ CheckPast
  <2>1. /\ UNCHANGED <<timer_list, waketime, now, next_wake, timer_repeat_until>>
        /\ isr' = "off" /\ op' = "none" /\ main' = "shutdown"
    BY <1>3 DEF DispatchFatal, CheckPast, IrqShutdown, sched_shutdown, listVars, clockVars
  <2>2. ListInOrder' /\ Left(First)' = Left(First) /\ LeftToRepeat' = LeftToRepeat
    BY <1>0, <2>1, SameTimes
  <2>3. CallerInTime' /\ HardwareIsSet' /\ DispatchIsDue'
    BY <2>1 DEF CallerInTime, HardwareIsSet, Idle, DispatchIsDue
  <2>4. FirstIsNotTooLate'
    BY <2>2 DEF TimeInv, FirstIsNotTooLate
  <2>5. QED
    BY <2>2, <2>3, <2>4 DEF TimeInv
<1>4. CASE CheckReturn
  <2>1. /\ UNCHANGED <<timer_list, waketime, now, timer_repeat_until, op, cmd>>
        /\ isr' = "off" /\ next_wake' = waketime[First] /\ Left(First) > MinTry
    BY <1>0, <1>4 DEF CheckReturn, listVars, callVars
  <2>2. /\ ListInOrder' /\ First' = First /\ Left(First)' = Left(First)
        /\ Left(cmd)' = Left(cmd) /\ LeftToRepeat' = LeftToRepeat
    BY <1>0, <2>1, SameTimes
  <2>3. LeftToWake' = Left(First)
    BY <2>1 DEF LeftToWake, Rel, Left
  <2>4. HardwareIsSet' /\ FirstIsNotTooLate'
    BY <1>0, <2>1, <2>2, <2>3 DEF HardwareIsSet, FirstIsNotTooLate
  <2>5. CallerInTime' /\ DispatchIsDue'
    BY <2>1, <2>2 DEF TimeInv, CallerInTime, DispatchIsDue
  <2>6. QED
    BY <2>2, <2>4, <2>5 DEF TimeInv
<1>5. CASE CheckDefer
  <2>1. /\ UNCHANGED <<timer_list, waketime, now, op, cmd>>
        /\ isr' = "off" /\ next_wake' = Plus(now, Defer) /\ timer_repeat_until' = Plus(now, Repeat)
        /\ Left(First) <= MinTry /\ LeftToRepeat < 0
    BY <1>0, <1>5 DEF CheckDefer, listVars, callVars
  <2>2. /\ ListInOrder' /\ First' = First /\ Left(First)' = Left(First) /\ Left(cmd)' = Left(cmd)
    BY <1>0, <2>1, SameTimes
  <2>3. LeftToWake' = Defer /\ LeftToRepeat' = Repeat
    <3>1. Defer \in 0 .. (HalfRange - 1) /\ Repeat \in 0 .. (HalfRange - 1)
      BY <1>0
    <3>2. QED
      BY <1>0, <2>1, <3>1, DiffOfSum DEF LeftToWake, LeftToRepeat, Rel
  <2>4. Left(First) >= -Slack
    BY <1>0, <2>1 DEF TimeInv, FirstIsNotTooLate
  <2>5. HardwareIsSet' /\ FirstIsNotTooLate'
    BY <1>0, <2>1, <2>2, <2>3, <2>4 DEF HardwareIsSet, Deferred, FirstIsNotTooLate
  <2>6. CallerInTime' /\ DispatchIsDue'
    BY <2>1, <2>2 DEF TimeInv, CallerInTime, DispatchIsDue
  <2>7. QED
    BY <2>2, <2>5, <2>6 DEF TimeInv
<1>6. CASE CheckRepeat
  <2>1. /\ UNCHANGED <<timer_list, waketime, now, op, cmd>> /\ isr' = "wait"
        /\ timer_repeat_until' \in {timer_repeat_until, Plus(now, IdleRepeat)}
    BY <1>6 DEF CheckRepeat, listVars, callVars
  <2>2. /\ ListInOrder' /\ First' = First /\ Left(First)' = Left(First) /\ Left(cmd)' = Left(cmd)
    BY <1>0, <2>1, SameTimes
  <2>3. LeftToRepeat' = LeftToRepeat \/ LeftToRepeat' = IdleRepeat
    <3>1. IdleRepeat \in 0 .. (HalfRange - 1)
      BY <1>0
    <3>2. QED
      BY <1>0, <2>1, <3>1, DiffOfSum DEF LeftToRepeat, Rel
  <2>4. FirstIsNotTooLate'
    BY <1>0, <2>2, <2>3 DEF TimeInv, FirstIsNotTooLate
  <2>5. CallerInTime' /\ DispatchIsDue' /\ HardwareIsSet'
    BY <2>1, <2>2 DEF TimeInv, CallerInTime, DispatchIsDue, HardwareIsSet, Idle
  <2>6. QED
    BY <2>2, <2>4, <2>5 DEF TimeInv
<1>7. CASE WaitDone
  <2>1. /\ UNCHANGED <<timer_list, waketime, now, timer_repeat_until, op, cmd>>
        /\ isr' = "dispatch" /\ Left(First) <= 0
    BY <1>0, <1>7 DEF WaitDone, listVars, clockVars, callVars
  <2>2. /\ ListInOrder' /\ First' = First /\ Left(First)' = Left(First)
        /\ Left(cmd)' = Left(cmd) /\ LeftToRepeat' = LeftToRepeat
    BY <1>0, <2>1, SameTimes
  <2>3. QED
    BY <2>1, <2>2 DEF TimeInv, CallerInTime, DispatchIsDue, HardwareIsSet, Idle, FirstIsNotTooLate
<1>8. QED
  BY <1>1, <1>2, <1>3, <1>4, <1>5, <1>6, <1>7 DEF Interrupt

\* A waketime that is set for a timer that is off the list.
LEMMA SetTime ==
  ASSUME SInv, TimeInv, NEW t \in Timers, ~Listed(t), NEW d \in CommandDelays,
         SetWaketime(t, Plus(now, d)), UNCHANGED <<now, next_wake, timer_repeat_until>>
  PROVE  /\ ListInOrder' /\ First' = First /\ Left(First)' = Left(First)
         /\ LeftToWake' = LeftToWake /\ LeftToRepeat' = LeftToRepeat
         /\ Left(t)' >= -Slack /\ Left(t)' < HalfRange - MostLate
<1>0. /\ IInv /\ now \in Time /\ waketime \in [Node -> Time] /\ t \in Node
      /\ InOrder(timer_list, Lefts(waketime, now)) /\ timer_list \in Seq(Node)
      /\ OnceEach(timer_list) /\ EndsWithSentinel(timer_list)
      /\ timer_list' = timer_list /\ waketime' = Woken(t, Plus(now, d))
  BY SchedNodesDiffer
     DEF SInv, TimesOK, TimeInv, ListInOrder, IInv, TypeOK, Shape, SetWaketime
<1>1. d \in Nat /\ MostLate + d < HalfRange /\ d \in 0 .. (HalfRange - 1) /\ Plus(now, d) \in Time
  BY <1>0, BoundsAreNatural, DelayIsShort, PlusIsTime
<1>2. /\ waketime' \in [Node -> Time] /\ waketime'[t] = Plus(now, d)
      /\ \A n \in Node : n # t => waketime'[n] = waketime[n]
  BY <1>0, <1>1 DEF Woken
<1>3. \A n \in Node \ {sentinel_timer} : Contains(timer_list, n) =>
        Lefts(waketime', now)[n] = Lefts(waketime, now)[n]
  <2>1. SUFFICES ASSUME NEW n \in Node \ {sentinel_timer}, Contains(timer_list, n)
                 PROVE  Lefts(waketime', now)[n] = Lefts(waketime, now)[n]
    OBVIOUS
  <2>2. n # t /\ waketime'[n] = waketime[n]
    BY <1>0, <1>2, <2>1 DEF Listed
  <2>3. QED
    BY <2>2 DEF Lefts
<1>4. ListInOrder'
  <2>1. PICK g : g = Lefts(waketime', now)
    OBVIOUS
  <2>2. InOrder(timer_list, g)
    BY <1>0, <1>3, <2>1, SameInOrder
  <2>3. QED
    BY <1>0, <2>1, <2>2 DEF ListInOrder
<1>5. First' = First /\ Left(First)' = Left(First)
  BY <1>0, <1>2, FirstFacts DEF First, Left
<1>6. LeftToWake' = LeftToWake /\ LeftToRepeat' = LeftToRepeat
  BY DEF LeftToWake, LeftToRepeat, Rel
<1>7. Left(t)' = d
  BY <1>0, <1>1, <1>2, DiffOfSum DEF Left
<1>8. QED
  BY <1>1, <1>4, <1>5, <1>6, <1>7, BoundsAreNatural

LEMMA MainTime ==
  ASSUME SInv, SInv', TimeInv, MainThread
  PROVE  TimeInv'
<1>0. /\ LeftToWake \in Int /\ LeftToRepeat \in Int /\ Left(First) \in Int
      /\ now \in Time /\ IInv /\ IInv' /\ ListInOrder
      /\ waketime \in [Node -> Time] /\ waketime' \in [Node -> Time]
      /\ InOrder(timer_list, Lefts(waketime, now))
      /\ Defer \in Nat /\ MaxLatency \in Nat /\ Slack \in Nat /\ MostLate \in Nat
      /\ Slack <= MostLate /\ HalfRange \in Nat /\ MostLate < HalfRange
  BY TimeScalars, BoundsAreNatural DEF SInv, TimesOK, TimeInv, ListInOrder, IInv, TypeOK
<1>1. isr = "off" /\ isr' = "off"
  BY DEF MainThread, LoopStep, CommandDel, CommandSet, CommandLeave, AddTimer, AddTooClose,
       ResetTimers, EndFunc, RestartLoop, MainRuns
<1>2. DispatchIsDue'
  BY <1>1 DEF DispatchIsDue
<1>3. CASE LoopStep \/ CommandLeave \/ AddTooClose \/ RestartLoop
  <2>1. /\ UNCHANGED <<timer_list, waketime, now, next_wake, timer_repeat_until>>
        /\ op' = "none" /\ main # "shutdown"
    BY <1>3 DEF LoopStep, CommandLeave, AddTooClose, RestartLoop, listVars, clockVars, callVars,
         Top, Disable, Recheck, Awake, BeginPass, CheckWake, NoMessage, RunMessage,
         RejectMessage, CommandDone, CommandClear, CommandStop, Clean, EndShutdown
  <2>2. /\ ListInOrder' /\ First' = First /\ Left(First)' = Left(First)
        /\ LeftToWake' = LeftToWake /\ LeftToRepeat' = LeftToRepeat
    BY <1>0, <2>1, SameTimes
  <2>3. QED
    BY <1>1, <1>2, <2>1, <2>2 DEF TimeInv, CallerInTime, HardwareIsSet, Idle, Deferred, FirstIsNotTooLate
<1>4. CASE CommandDel
  <2>1. /\ UNCHANGED <<now, next_wake, timer_repeat_until, main>> /\ op' = "set"
    BY <1>4 DEF CommandDel, taskVars, clockVars
  <2>2. PICK t \in Timers : sched_del_timer(t)
    BY <1>4 DEF CommandDel
  <2>3. ListInOrder'
    BY <1>0, <2>1, <2>2, DelInOrder DEF ListInOrder
  <2>4. First' \in {First, deleted_timer} /\ Left(First)' = Left(First)
    BY <1>0, <2>1, <2>2, HeadAfterDel DEF Left
  <2>5. LeftToWake' = LeftToWake /\ LeftToRepeat' = LeftToRepeat
    BY <2>1 DEF LeftToWake, LeftToRepeat, Rel
  <2>6. QED
    BY <1>1, <1>2, <2>1, <2>3, <2>4, <2>5
       DEF TimeInv, CallerInTime, HardwareIsSet, Idle, Deferred, FirstIsNotTooLate
<1>5. CASE CommandSet
  <2>1. /\ UNCHANGED <<now, next_wake, timer_repeat_until, main, cmd>> /\ op = "set"
    BY <1>5 DEF CommandSet, taskVars, clockVars
  <2>2. cmd \in Timers /\ ~Listed(cmd)
    BY <2>1 DEF SInv, CallerHoldsTimer
  <2>3. PICK d \in CommandDelays : SetWaketime(cmd, Plus(now, d))
    BY <1>5 DEF CommandSet
  <2>4. PICK t \in Timers : t = cmd /\ ~Listed(t) /\ SetWaketime(t, Plus(now, d))
    BY <2>2, <2>3
  <2>5. /\ ListInOrder' /\ First' = First /\ Left(First)' = Left(First)
        /\ LeftToWake' = LeftToWake /\ LeftToRepeat' = LeftToRepeat
        /\ Left(t)' >= -Slack /\ Left(t)' < HalfRange - MostLate
    BY <2>1, <2>4, SetTime
  <2>6. Left(cmd)' = Left(t)'
    BY <2>1, <2>4 DEF Left
  <2>7. QED
    BY <1>1, <1>2, <2>1, <2>5, <2>6
       DEF TimeInv, CallerInTime, HardwareIsSet, Idle, Deferred, FirstIsNotTooLate
<1>6. CASE EndFunc
  <2>1. /\ UNCHANGED <<now, next_wake, timer_repeat_until, main>> /\ op = "none" /\ main = "endfuncs"
    BY <1>6 DEF EndFunc, taskVars, clockVars
  <2>2. PICK t \in todo :
          \/ /\ \E d \in CommandDelays : SetWaketime(t, Plus(now, d))
             /\ cmd' = t
          \/ UNCHANGED <<listVars, op, cmd>>
    BY <1>6 DEF EndFunc
  <2>3. t \in Timers /\ ~Listed(t)
    BY <2>1 DEF SInv, CallerOK, CallerHoldsTimer
  <2>4. CASE UNCHANGED <<listVars, op, cmd>>
    <3>1. /\ ListInOrder' /\ First' = First /\ Left(First)' = Left(First)
          /\ LeftToWake' = LeftToWake /\ LeftToRepeat' = LeftToRepeat
      BY <1>0, <2>1, <2>4, SameTimes DEF listVars
    <3>2. QED
      BY <1>1, <1>2, <2>1, <2>4, <3>1
         DEF TimeInv, CallerInTime, HardwareIsSet, Idle, Deferred, FirstIsNotTooLate
  <2>5. CASE ~UNCHANGED <<listVars, op, cmd>>
    <3>1. PICK d \in CommandDelays : SetWaketime(t, Plus(now, d))
      BY <2>2, <2>5
    <3>2. /\ ListInOrder' /\ First' = First /\ Left(First)' = Left(First)
          /\ LeftToWake' = LeftToWake /\ LeftToRepeat' = LeftToRepeat
          /\ Left(t)' >= -Slack /\ Left(t)' < HalfRange - MostLate
      BY <2>1, <2>3, <3>1, SetTime
    <3>3. Left(cmd)' = Left(t)'
      BY <2>2, <2>5 DEF Left
    <3>4. QED
      BY <1>1, <1>2, <2>1, <3>2, <3>3
         DEF TimeInv, CallerInTime, HardwareIsSet, Idle, Deferred, FirstIsNotTooLate
  <2>6. QED
    BY <2>4, <2>5
<1>7. CASE AddTimer
  <2>1. /\ UNCHANGED <<now, timer_repeat_until>> /\ op = "add" /\ op' = "none"
        /\ main # "shutdown" /\ main' # "shutdown"
    BY <1>7 DEF AddTimer, taskVars, CommandDone, SInv, CallerHoldsTimer
  <2>2. cmd \in Timers /\ ~Listed(cmd) /\ Left(cmd) >= -Slack /\ Left(cmd) < HalfRange - MostLate
    BY <2>1 DEF SInv, CallerHoldsTimer, TimeInv, CallerInTime
  <2>3. PICK t \in Timers : /\ t = cmd /\ ~Listed(t) /\ Left(t) >= -Slack /\ Left(t) < HalfRange - MostLate
                            /\ \/ AddFirst(t) /\ next_wake' = now
                               \/ AddLater(t) /\ next_wake' = next_wake
    BY <1>7, <2>2 DEF AddTimer
  <2>4. ListInOrder'
    <3>1. Lefts(waketime, now)[t] \in Window
      BY <1>0, <2>3, SchedNodesDiffer, TimeTypes DEF Window
    <3>2. sched_add_timer(t)
      BY <2>3 DEF sched_add_timer
    <3>3. QED
      BY <1>0, <2>1, <2>3, <3>1, <3>2, AddInOrder DEF ListInOrder
  <2>5. LeftToRepeat' = LeftToRepeat
    BY <2>1 DEF LeftToRepeat, Rel
  <2>6. CASE AddFirst(t) /\ next_wake' = now
    <3>1. First' = deleted_timer /\ Left(First)' = Left(t)
      BY <1>0, <2>1, <2>6, HeadAfterAdd DEF Left
    <3>2. LeftToWake' = 0
      BY <1>0, <2>1, <2>6 DEF LeftToWake, Rel, Diff, Time, Modulus
    <3>3. QED
      BY <1>0, <1>1, <1>2, <2>1, <2>3, <2>4, <2>5, <3>1, <3>2
         DEF TimeInv, CallerInTime, HardwareIsSet, Idle, FirstIsNotTooLate
  <2>7. CASE AddLater(t) /\ next_wake' = next_wake
    <3>1. First' = First /\ Left(First)' = Left(First)
      BY <1>0, <2>1, <2>7, HeadAfterAdd DEF Left
    <3>2. LeftToWake' = LeftToWake
      BY <2>1, <2>7 DEF LeftToWake, Rel
    <3>3. QED
      BY <1>0, <1>1, <1>2, <2>1, <2>3, <2>4, <2>5, <3>1, <3>2
         DEF TimeInv, CallerInTime, HardwareIsSet, Idle, Deferred, FirstIsNotTooLate
  <2>8. QED
    BY <2>3, <2>6, <2>7
<1>8. CASE ResetTimers
  <2>1. /\ UNCHANGED <<now, timer_repeat_until, op>> /\ next_wake' = now /\ main = "shutdown"
        /\ sched_timer_reset
    BY <1>8 DEF ResetTimers, BeginShutdown
  <2>2. ListInOrder'
    BY <1>0, <2>1, ResetInOrder DEF ListInOrder
  <2>3. First' = deleted_timer /\ Left(First)' = Left(periodic_timer)
    BY <1>0, <2>1, HeadAfterReset DEF Left
  <2>4. Left(First) <= Left(periodic_timer) /\ Left(periodic_timer) \in Int
    BY <1>0, SchedNodesDiffer, FirstHasLeast, TimeTypes DEF IInv, Shape, Listed
  <2>5. LeftToWake' = 0 /\ LeftToRepeat' = LeftToRepeat
    BY <1>0, <2>1 DEF LeftToWake, LeftToRepeat, Rel, Diff, Time, Modulus
  <2>6. op' = "none"
    BY <2>1 DEF SInv, CallerOK, CallerHoldsTimer
  <2>7. QED
    BY <1>0, <1>2, <2>2, <2>3, <2>4, <2>5, <2>6
       DEF TimeInv, CallerInTime, HardwareIsSet, FirstIsNotTooLate
<1>9. QED
  BY <1>3, <1>4, <1>5, <1>6, <1>7, <1>8 DEF MainThread

LEMMA InitTimeInv == InitSched => TimeInv
<1> SUFFICES ASSUME InitSched PROVE TimeInv
  OBVIOUS
<1>1. /\ timer_list = <<periodic_timer, sentinel_timer>> /\ now = 0 /\ next_wake = 0
      /\ timer_repeat_until = 0 /\ isr = "off" /\ op = "none" /\ main = "top"
      /\ waketime = [n \in Node |-> IF n = sentinel_timer THEN HalfRange ELSE 0]
  BY DEF InitSched, Init, InitTasks
<1>2. HalfRange \in Nat /\ HalfRange > 0 /\ MostLate \in Nat /\ MostLate < HalfRange /\ Slack \in Nat
      /\ MaxLatency \in Nat
  BY BoundsAreNatural
<1>3. First = periodic_timer /\ waketime[periodic_timer] = 0
  BY <1>1, SchedNodesDiffer DEF First
<1>4. Left(First) = 0 /\ LeftToWake = 0 /\ LeftToRepeat = 0
  BY <1>1, <1>2, <1>3 DEF Left, LeftToWake, LeftToRepeat, Rel, Diff, Modulus
<1>5. ListInOrder
  <2>1. \A n \in Node \ {sentinel_timer} : Contains(timer_list, n) => n = periodic_timer
    BY <1>1 DEF Contains
  <2>2. Lefts(waketime, now)[periodic_timer] = 0
    BY <1>3, <1>4, SchedNodesDiffer DEF Lefts, Left
  <2>3. Within(timer_list, Lefts(waketime, now))
    BY <1>2, <2>1, <2>2 DEF Within, Window
  <2>4. Sorted(timer_list, Lefts(waketime, now))
    <3>1. Len(timer_list) = 2
      BY <1>1
    <3>2. QED
      BY <3>1 DEF Sorted
  <2>5. QED
    BY <2>3, <2>4 DEF ListInOrder, InOrder
<1>6. CallerInTime /\ HardwareIsSet /\ FirstIsNotTooLate /\ DispatchIsDue
  BY <1>1, <1>2, <1>4 DEF CallerInTime, HardwareIsSet, FirstIsNotTooLate, DispatchIsDue
<1>7. QED
  BY <1>5, <1>6 DEF TimeInv

LEMMA SafeSchedTimeInv == SafeSched => []TimeInv
<1>1. SInv /\ SInv' /\ TimeInv /\ [NextSched]_vars => TimeInv'
  <2> SUFFICES ASSUME SInv, SInv', TimeInv, [NextSched]_vars PROVE TimeInv'
    OBVIOUS
  <2>1. CASE ReceiveIrq \/ UNCHANGED vars
    <3>1. /\ UNCHANGED <<timer_list, waketime, now, next_wake, timer_repeat_until, op, cmd, isr, main>>
      BY <2>1 DEF ReceiveIrq, Receive, vars, listVars, clockVars, callVars, taskVars
    <3>2. /\ ListInOrder' /\ First' = First /\ Left(First)' = Left(First) /\ Left(cmd)' = Left(cmd)
          /\ LeftToWake' = LeftToWake /\ LeftToRepeat' = LeftToRepeat
      BY <3>1, SameTimes DEF TimeInv
    <3>3. QED
      BY <3>1, <3>2
         DEF TimeInv, CallerInTime, HardwareIsSet, Idle, Deferred, FirstIsNotTooLate, DispatchIsDue
  <2>2. QED
    BY <2>1, TickTime, InterruptTime, MainTime DEF NextSched
<1>2. QED
  BY <1>1, InitTimeInv, SafeSchedSInv, PTL DEF SafeSched

\* The timers are in the order in which they run, however far the clock has
\* rolled; the hardware is set for the first of them; and no callback runs
\* before the time its timer asked for (sched.c, timer_irq.c).
THEOREM TimersAlwaysInTime == SafeSched => []TimersAreInTime
<1>1. SInv /\ TimeInv => TimersAreInTime
  <2> SUFFICES ASSUME SInv, TimeInv PROVE TimersAreInTime
    OBVIOUS
  <2>0. /\ IInv /\ ListInOrder /\ now \in Time /\ waketime \in [Node -> Time] /\ timer_list \in Seq(Node)
        /\ OnceEach(timer_list) /\ EndsWithSentinel(timer_list) /\ next_wake \in Time
        /\ Lefts(waketime, now) \in [Node -> Int] /\ InOrder(timer_list, Lefts(waketime, now))
    BY LeftsType DEF SInv, TimesOK, TimeInv, ListInOrder, IInv, TypeOK, Shape
  <2>1. Ordered
    <3>1. SUFFICES ASSUME NEW i \in 1 .. Len(timer_list) - 1, NEW j \in 1 .. Len(timer_list) - 1, i < j
                   PROVE  ~timer_is_before(waketime[timer_list[j]], waketime[timer_list[i]])
      BY DEF Ordered
    <3>2. ASSUME NEW k \in 1 .. Len(timer_list) - 1
          PROVE  timer_list[k] \in Node /\ Lefts(waketime, now)[timer_list[k]] \in Window
      <4>1. k \in 1 .. Len(timer_list) /\ Len(timer_list) \in 1 .. Len(timer_list) /\ k # Len(timer_list)
        OBVIOUS
      <4>2. timer_list[k] \in Node \ {sentinel_timer} /\ Contains(timer_list, timer_list[k])
        BY <2>0, <4>1 DEF OnceEach, EndsWithSentinel, Contains
      <4>3. QED
        BY <2>0, <4>2 DEF InOrder, Within
    <3>3. Lefts(waketime, now)[timer_list[i]] <= Lefts(waketime, now)[timer_list[j]]
      BY <2>0, <3>1 DEF InOrder, Sorted
    <3>4. PICK m \in Node, n \in Node : m = timer_list[i] /\ n = timer_list[j]
      BY <3>2
    <3>5. timer_is_before(waketime[n], waketime[m]) <=> Lefts(waketime, now)[n] < Lefts(waketime, now)[m]
      BY <2>0, <3>2, <3>4, BeforeIsLess
    <3>6. Lefts(waketime, now)[n] \in Int /\ Lefts(waketime, now)[m] \in Int
      BY <2>0
    <3>7. QED
      BY <3>3, <3>4, <3>5, <3>6
  <2>2. NothingForgotten
    <3>1. SUFFICES ASSUME Idle, ~(LeftToWake <= Defer)
                   PROVE  ~timer_is_before(waketime[First], next_wake)
      BY DEF NothingForgotten, Idle, LeftToWake, Rel
    <3>2. /\ LeftToWake \in -HalfRange .. (HalfRange - 1) /\ Left(First) \in Window
          /\ Defer \in Nat /\ HalfRange \in Nat /\ MostLate \in Nat /\ MostLate < HalfRange
          /\ waketime[First] \in Time
      BY <2>0, TimeTypes, BoundsAreNatural, FirstFacts
    <3>3. LeftToWake > Defer
      BY <3>1, <3>2
    <3>4. Left(First) >= LeftToWake
      BY <3>1, <3>2, <3>3 DEF TimeInv, HardwareIsSet, Deferred
    <3>5. Left(First) - LeftToWake \in -HalfRange .. (HalfRange - 1) /\ Left(First) - LeftToWake >= 0
      BY <3>2, <3>3, <3>4 DEF Window
    <3>6. Diff(waketime[First], next_wake) = Left(First) - LeftToWake
      BY <2>0, <3>2, <3>5, DiffOfDiffs DEF Left, LeftToWake, Rel
    <3>7. QED
      BY <3>5, <3>6 DEF timer_is_before
  <2>3. NeverEarly
    <3>1. SUFFICES ASSUME isr = "dispatch", First \in Timers PROVE LateBy(First) >= 0
      BY DEF NeverEarly
    <3>2. Left(First) <= 0 /\ Left(First) \in Window /\ waketime[First] \in Time
      BY <2>0, <3>1, SchedNodesDiffer, TimeTypes, FirstFacts DEF TimeInv, DispatchIsDue
    <3>3. Left(First) # -HalfRange /\ Left(First) \in Int
      BY <3>2, BoundsAreNatural DEF Window
    <3>4. LateBy(First) = -Left(First)
      BY <2>0, <3>2, <3>3, DiffSwap DEF LateBy, Left
    <3>5. QED
      BY <3>2, <3>3, <3>4
  <2>4. QED
    BY <2>1, <2>2, <2>3 DEF TimersAreInTime
<1>2. QED
  BY <1>1, SafeSchedSInv, SafeSchedTimeInv, PTL

-----------------------------------------------------------------------------
(* The promise: the steps of the scheduler are those of module Alarms.       *)

Pending == [t \in {u \in Timers : Listed(u)} |-> waketime[t]]
Running == IF isr = "dispatch" /\ First \in Timers THEN First ELSE NoTimer

\* The instance computes with the same clock.
LEMMA PromisedClock ==
  /\ Promise!Time = Time
  /\ \A a, b \in Time : Promise!timer_is_before(a, b) <=> timer_is_before(a, b)
  /\ \A a \in Time : Promise!Plus(a, 1) = Plus(a, 1)
  BY DEF Promise!Time, Promise!Modulus, Promise!timer_is_before, Promise!Diff, Promise!Plus,
         Time, Modulus, timer_is_before, Diff, Plus

LEMMA PromisedSteps ==
  /\ UNCHANGED <<Pending, Running, now>> => [Promise!NextAlarms]_<<Pending, Running, now>>
  /\ Promise!PassTime \/ Promise!Abort \/ Promise!DropAll => Promise!NextAlarms
  /\ \A t \in Timers : Promise!Cancel(t) \/ Promise!Start(t) \/ Promise!Finish(t) => Promise!NextAlarms
  /\ \A t \in Timers, w \in Time : Promise!Schedule(t, w) => Promise!NextAlarms
  BY PromisedClock DEF Promise!NextAlarms

\* What a step does to the timers that wait to run.
LEMMA PendingSame ==
  ASSUME \A u \in Timers : Listed(u)' <=> Listed(u),
         \A u \in Timers : Listed(u) => waketime'[u] = waketime[u]
  PROVE  Pending' = Pending
<1>1. {u \in Timers : Listed(u)'} = {u \in Timers : Listed(u)}
  OBVIOUS
<1>2. QED
  BY <1>1 DEF Pending

LEMMA PendingWith ==
  ASSUME NEW t \in Timers, NEW w,
         \A u \in Timers : Listed(u)' <=> u = t \/ Listed(u),
         \A u \in Timers : waketime'[u] = IF u = t THEN w ELSE waketime[u]
  PROVE  Pending' = [u \in DOMAIN Pending \cup {t} |-> IF u = t THEN w ELSE Pending[u]]
<1>1. {u \in Timers : Listed(u)'} = {u \in Timers : Listed(u)} \cup {t}
  OBVIOUS
<1>2. DOMAIN Pending = {u \in Timers : Listed(u)} /\ \A u \in DOMAIN Pending : Pending[u] = waketime[u]
  BY DEF Pending
<1>3. Pending' = [u \in {v \in Timers : Listed(v)} \cup {t} |-> waketime'[u]]
  BY <1>1 DEF Pending
<1>4. QED
  BY <1>2, <1>3

LEMMA PendingWithout ==
  ASSUME NEW t \in Timers,
         \A u \in Timers : Listed(u)' <=> u # t /\ Listed(u),
         \A u \in Timers : waketime'[u] = waketime[u]
  PROVE  Pending' = [u \in DOMAIN Pending \ {t} |-> Pending[u]]
<1>1. {u \in Timers : Listed(u)'} = {u \in Timers : Listed(u)} \ {t}
  OBVIOUS
<1>2. DOMAIN Pending = {u \in Timers : Listed(u)} /\ \A u \in DOMAIN Pending : Pending[u] = waketime[u]
  BY DEF Pending
<1>3. Pending' = [u \in {v \in Timers : Listed(v)} \ {t} |-> waketime'[u]]
  BY <1>1 DEF Pending
<1>4. QED
  BY <1>2, <1>3

\* The timer whose callback starts is due, and none should run before it.
LEMMA FirstMayStart ==
  ASSUME SInv, ListInOrder, First \in Timers, Left(First) <= 0
  PROVE  /\ First \in DOMAIN Pending /\ Pending[First] = waketime[First]
         /\ ~timer_is_before(now, waketime[First])
         /\ \A u \in DOMAIN Pending : ~timer_is_before(Pending[u], waketime[First])
<1>0. /\ IInv /\ now \in Time /\ waketime \in [Node -> Time] /\ First \in Node /\ Listed(First)
      /\ First # sentinel_timer /\ InOrder(timer_list, Lefts(waketime, now)) /\ waketime[First] \in Time
      /\ Left(First) \in Window
  BY FirstFacts, TimeTypes DEF SInv, TimesOK, ListInOrder, IInv, TypeOK
<1>1. First \in DOMAIN Pending /\ Pending[First] = waketime[First]
  BY <1>0 DEF Pending
<1>2. ~timer_is_before(now, waketime[First])
  <2>1. Left(First) # -HalfRange /\ Left(First) \in Int
    BY <1>0, BoundsAreNatural DEF Window
  <2>2. Diff(now, waketime[First]) = -Left(First)
    BY <1>0, <2>1, DiffSwap DEF Left
  <2>3. QED
    BY <2>1, <2>2 DEF timer_is_before
<1>3. ASSUME NEW u \in DOMAIN Pending PROVE ~timer_is_before(Pending[u], waketime[First])
  <2>1. /\ u \in Timers /\ Listed(u) /\ Pending[u] = waketime[u] /\ u \in Node /\ u # sentinel_timer
    BY SchedNodesDiffer DEF Pending
  <2>2. Left(First) <= Left(u) /\ Left(u) = Lefts(waketime, now)[u] /\ Left(First) = Lefts(waketime, now)[First]
    BY <1>0, <2>1, FirstHasLeast, TimeTypes
  <2>3. Lefts(waketime, now)[u] \in Window /\ Lefts(waketime, now)[First] \in Window
    BY <1>0, <2>1, <2>2 DEF InOrder, Within, Listed
  <2>4. PICK n \in Node : n = First
    BY <1>0
  <2>5. timer_is_before(waketime[u], waketime[n]) <=> Lefts(waketime, now)[u] < Lefts(waketime, now)[n]
    BY <1>0, <2>1, <2>3, <2>4, BeforeIsLess
  <2>6. QED
    BY <2>1, <2>2, <2>3, <2>4, <2>5 DEF Window
<1>4. QED
  BY <1>1, <1>2, <1>3

LEMMA StartKept ==
  ASSUME SInv, TimeInv, Enter \/ WaitDone
  PROVE  [Promise!NextAlarms]_<<Pending, Running, now>>
<1>0. /\ UNCHANGED <<timer_list, waketime, now>> /\ isr \in {"off", "wait"} /\ isr' = "dispatch"
      /\ IInv /\ now \in Time /\ waketime \in [Node -> Time] /\ ListInOrder
  BY DEF Enter, WaitDone, listVars, clockVars, SInv, TimesOK, IInv, TypeOK, TimeInv
<1>1. Running = NoTimer /\ Pending' = Pending /\ First' = First
  BY <1>0 DEF Running, Pending, Listed, First
<1>2. CASE First \notin Timers
  BY <1>0, <1>1, <1>2 DEF Running
<1>3. CASE First \in Timers
  <2>1. Left(First) <= 0
    <3>1. CASE Enter
      <4>1. First = deleted_timer \/ Left(First) <= LeftToWake
        BY <3>1 DEF Enter, Idle, InterruptsOff, TimeInv, HardwareIsSet
      <4>2. /\ LeftToWake \in Int /\ Left(First) \in Int /\ (Due <=> LeftToWake <= 0 /\ LeftToWake # -HalfRange)
        BY TimeScalars
      <4>3. QED
        BY <1>3, <3>1, <4>1, <4>2, SchedNodesDiffer DEF Enter
    <3>2. CASE WaitDone
      BY <3>2, TimeScalars DEF WaitDone
    <3>3. QED
      BY <3>1, <3>2
  <2>2. /\ First \in DOMAIN Pending /\ Pending[First] = waketime[First]
        /\ ~timer_is_before(now, waketime[First])
        /\ \A u \in DOMAIN Pending : ~timer_is_before(Pending[u], waketime[First])
    BY <1>0, <1>3, <2>1, FirstMayStart
  <2>3. \A u \in DOMAIN Pending : Pending[u] \in Time
    BY <1>0, SchedNodesDiffer DEF Pending
  <2>4. ~Promise!timer_is_before(now, Pending[First])
    BY <1>0, <2>2, <2>3, PromisedClock
  <2>5. \A u \in DOMAIN Pending : ~Promise!timer_is_before(Pending[u], Pending[First])
    BY <2>2, <2>3, PromisedClock
  <2>6. Running' = First
    BY <1>0, <1>1, <1>3 DEF Running
  <2>7. Promise!Start(First)
    BY <1>0, <1>1, <2>2, <2>4, <2>5, <2>6 DEF Promise!Start, Promise!IsPending, Pending, Running
  <2>8. QED
    BY <1>3, <2>7, PromisedSteps
<1>4. QED
  BY <1>2, <1>3

LEMMA DispatchKept ==
  ASSUME SInv, TimeInv, DispatchUser \/ DispatchFatal \/ DispatchOwn
  PROVE  [Promise!NextAlarms]_<<Pending, Running, now>>
<1>0. /\ UNCHANGED now /\ isr = "dispatch" /\ isr' # "dispatch" /\ IInv
      /\ waketime \in [Node -> Time] /\ First \in Node
  BY FirstFacts DEF DispatchUser, DispatchFatal, DispatchOwn, clockVars, SInv, IInv, TypeOK
<1>1. Running' = NoTimer
  BY <1>0 DEF Running
<1>2. CASE First \in Timers
  <2>1. Running = First /\ Running # NoTimer
    BY <1>0, <1>2, NoTimerAssumption DEF Running, NoTimerAssumption
  <2>2. CASE Pending' = Pending
    <3>1. Promise!Abort
      BY <1>0, <1>1, <2>1, <2>2 DEF Promise!Abort, Pending, Running
    <3>2. QED
      BY <3>1, PromisedSteps
  <2>3. CASE DispatchUser /\ DispatchDone
    <3>1. \A u \in Timers : Listed(u)' <=> u # First /\ Listed(u)
      BY <1>0, <2>3, DoneMembers
    <3>2. waketime' = waketime
      BY <2>3 DEF DispatchDone
    <3>3. Pending' = [u \in DOMAIN Pending \ {First} |-> Pending[u]]
      BY <1>2, <3>1, <3>2, PendingWithout
    <3>4. PICK t \in Timers : t = First
      BY <1>2
    <3>5. Promise!Finish(t)
      BY <1>0, <1>1, <2>1, <3>3, <3>4 DEF Promise!Finish, Promise!Without, Pending, Running
    <3>6. QED
      BY <3>5, PromisedSteps
  <2>4. CASE DispatchUser /\ ~DispatchDone
    <3>1. PICK d \in EventDelays : DispatchReschedule(Woken(First, Plus(waketime[First], d)))
      BY <2>4 DEF DispatchUser
    <3>2. PICK w \in Time : w = Plus(waketime[First], d)
      BY <1>0, DelayIsShort, PlusIsTime
    <3>3. waketime' = Woken(First, w)
      BY <3>1, <3>2 DEF DispatchReschedule
    <3>4. \A u \in Timers : Listed(u)' <=> u = First \/ Listed(u)
      BY <1>0, <1>2, <3>1, UserRescheduleMembers, FirstFacts
    <3>5. \A u \in Timers : waketime'[u] = IF u = First THEN w ELSE waketime[u]
      BY <1>0, <3>3, SchedNodesDiffer DEF Woken
    <3>6. Pending' = [u \in DOMAIN Pending \cup {First} |-> IF u = First THEN w ELSE Pending[u]]
      BY <1>2, <3>4, <3>5, PendingWith
    <3>7. CASE w # Pending[First]
      <4>1. PICK t \in Timers : t = First
        BY <1>2
      <4>2. Promise!Finish(t)
        BY <1>0, <1>1, <2>1, <3>6, <3>7, <4>1, PromisedClock
           DEF Promise!Finish, Promise!With, Pending, Running
      <4>3. QED
        BY <4>2, PromisedSteps
    <3>8. CASE w = Pending[First]
      <4>1. \A u \in Timers : Listed(u)' <=> Listed(u)
        BY <1>0, <3>4, FirstFacts
      <4>2. Pending[First] = waketime[First]
        BY <1>0, <1>2, FirstFacts DEF Pending
      <4>3. \A u \in Timers : Listed(u) => waketime'[u] = waketime[u]
        BY <3>5, <3>8, <4>2
      <4>4. Pending' = Pending
        BY <4>1, <4>3, PendingSame
      <4>5. QED
        BY <2>2, <4>4
    <3>9. QED
      BY <3>7, <3>8
  <2>5. CASE DispatchFatal
    <3>1. Pending' = Pending
      BY <2>5 DEF DispatchFatal, listVars, Pending, Listed
    <3>2. QED
      BY <2>2, <3>1
  <2>6. ~DispatchOwn
    BY <1>2, SchedNodesDiffer DEF DispatchOwn, periodic_event, deleted_event, First
  <2>7. QED
    BY <2>3, <2>4, <2>5, <2>6
<1>3. CASE First \notin Timers
  <2>1. Running = NoTimer /\ DispatchOwn
    BY <1>3 DEF Running, DispatchUser, DispatchFatal
  <2>2. \A u \in Timers : Listed(u)' <=> Listed(u)
    BY <1>0, <2>1, OwnMembers DEF DispatchOwn
  <2>3. \A u \in Timers : waketime'[u] = waketime[u]
    <3>1. CASE periodic_event
      BY <1>0, <3>1, SchedNodesDiffer DEF periodic_event, DispatchReschedule, PeriodicWaketimes
    <3>2. CASE deleted_event
      BY <3>2 DEF deleted_event, DispatchDone
    <3>3. QED
      BY <2>1, <3>1, <3>2 DEF DispatchOwn
  <2>4. Pending' = Pending
    BY <2>2, <2>3, PendingSame
  <2>5. QED
    BY <1>0, <1>1, <2>1, <2>4
<1>4. QED
  BY <1>2, <1>3

LEMMA CommandsKept ==
  ASSUME SInv, CommandDel \/ CommandSet \/ AddTimer \/ ResetTimers \/ EndFunc
  PROVE  [Promise!NextAlarms]_<<Pending, Running, now>>
<1>0. /\ UNCHANGED now /\ isr = "off" /\ isr' = "off" /\ IInv
      /\ waketime \in [Node -> Time]
  BY DEF CommandDel, CommandSet, AddTimer, ResetTimers, EndFunc, MainRuns, clockVars, SInv, IInv, TypeOK
<1>1. Running = NoTimer /\ Running' = NoTimer
  BY <1>0 DEF Running
<1>2. CASE CommandDel
  <2>1. PICK t \in Timers : sched_del_timer(t)
    BY <1>2 DEF CommandDel
  <2>2. \A u \in Timers : Listed(u)' <=> u # t /\ Listed(u)
    BY <1>0, <2>1, DelMembers
  <2>3. \A u \in Timers : waketime'[u] = waketime[u]
    BY <1>0, <2>1, SchedNodesDiffer DEF sched_del_timer, DelFirst, DelLater, Woken
  <2>4. CASE Listed(t)
    <3>1. Pending' = [u \in DOMAIN Pending \ {t} |-> Pending[u]] /\ t \in DOMAIN Pending
      BY <2>2, <2>3, <2>4, PendingWithout DEF Pending
    <3>2. Promise!Cancel(t)
      BY <1>0, <1>1, <3>1 DEF Promise!Cancel, Promise!IsPending, Promise!Without, Pending, Running
    <3>3. QED
      BY <3>2, PromisedSteps
  <2>5. CASE ~Listed(t)
    <3>1. Pending' = Pending
      BY <2>2, <2>3, <2>5, PendingSame
    <3>2. QED
      BY <1>0, <1>1, <3>1
  <2>6. QED
    BY <2>4, <2>5
<1>3. CASE CommandSet \/ EndFunc
  <2>1. \/ UNCHANGED <<timer_list, waketime>>
        \/ \E w : \E t \in Timers : ~Listed(t) /\ SetWaketime(t, w)
    BY <1>3 DEF CommandSet, EndFunc, listVars, SInv, CallerOK, CallerHoldsTimer
  <2>2. Pending' = Pending
    <3>1. CASE UNCHANGED <<timer_list, waketime>>
      BY <3>1 DEF Pending, Listed
    <3>2. CASE \E w : \E t \in Timers : ~Listed(t) /\ SetWaketime(t, w)
      <4>0. PICK w : \E t \in Timers : ~Listed(t) /\ SetWaketime(t, w)
        BY <3>2
      <4>1. PICK t \in Timers : ~Listed(t) /\ SetWaketime(t, w)
        BY <4>0
      <4>2. \A u \in Timers : Listed(u)' <=> Listed(u)
        BY <4>1 DEF SetWaketime, Listed
      <4>3. \A u \in Timers : Listed(u) => waketime'[u] = waketime[u]
        BY <1>0, <4>1, SchedNodesDiffer DEF SetWaketime, Woken
      <4>4. QED
        BY <4>2, <4>3, PendingSame
    <3>3. QED
      BY <2>1, <3>1, <3>2
  <2>3. QED
    BY <1>0, <1>1, <2>2
<1>4. CASE AddTimer
  <2>1. PICK t \in Timers : ~Listed(t) /\ sched_add_timer(t)
    BY <1>4 DEF AddTimer, sched_add_timer, SInv, CallerHoldsTimer
  <2>2. PICK w \in Time : w = waketime[t]
    BY <1>0, SchedNodesDiffer
  <2>3. \A u \in Timers : Listed(u)' <=> u = t \/ Listed(u)
    BY <1>0, <2>1, AddMembers
  <2>4. \A u \in Timers : waketime'[u] = IF u = t THEN w ELSE waketime[u]
    BY <1>0, <2>1, <2>2, SchedNodesDiffer DEF sched_add_timer, AddFirst, AddLater, Woken
  <2>5. /\ Pending' = [u \in DOMAIN Pending \cup {t} |-> IF u = t THEN w ELSE Pending[u]]
        /\ t \notin DOMAIN Pending
    BY <2>1, <2>3, <2>4, PendingWith DEF Pending
  <2>6. Promise!Schedule(t, w)
    BY <1>0, <1>1, <2>5 DEF Promise!Schedule, Promise!IsPending, Promise!With, Pending, Running
  <2>7. QED
    BY <2>6, PromisedSteps
<1>5. CASE ResetTimers
  <2>1. \A u \in Timers : ~Listed(u)'
    BY <1>5, ResetMembers DEF ResetTimers
  <2>2. Pending' = [u \in {} |-> 0]
    <3>1. {u \in Timers : Listed(u)'} = {}
      BY <2>1
    <3>2. QED
      BY <3>1 DEF Pending
  <2>3. Promise!DropAll
    BY <1>0, <1>1, <2>2 DEF Promise!DropAll, Promise!Nothing, Pending, Running
  <2>4. QED
    BY <2>3, PromisedSteps
<1>6. QED
  BY <1>2, <1>3, <1>4, <1>5

LEMMA StepKept ==
  ASSUME SInv, TimeInv, [NextSched]_vars
  PROVE  [Promise!NextAlarms]_<<Pending, Running, now>>
<1>1. CASE Tick
  <2>1. Pending' = Pending /\ Running' = Running /\ now' = Promise!Plus(now, 1)
    BY <1>1, PromisedClock DEF Tick, listVars, Pending, Running, Listed, First, SInv, TimesOK
  <2>2. Promise!PassTime
    BY <2>1 DEF Promise!PassTime, Pending, Running
  <2>3. QED
    BY <2>2, PromisedSteps
<1>2. CASE ReceiveIrq \/ UNCHANGED vars
  BY <1>2 DEF ReceiveIrq, vars, listVars, clockVars, Pending, Running, Listed, First
<1>3. CASE Interrupt
  <2>1. CASE CheckReturn \/ CheckPast \/ CheckDefer \/ CheckRepeat
    <3>1. UNCHANGED <<timer_list, waketime, now>> /\ isr # "dispatch" /\ isr' # "dispatch"
      BY <2>1 DEF CheckReturn, CheckPast, CheckDefer, CheckRepeat, listVars, clockVars
    <3>2. QED
      BY <3>1 DEF Pending, Running, Listed
  <2>2. QED
    BY <1>3, <2>1, StartKept, DispatchKept DEF Interrupt
<1>4. CASE MainThread
  <2>1. CASE LoopStep \/ CommandLeave \/ AddTooClose \/ RestartLoop
    <3>1. UNCHANGED <<timer_list, waketime, now>> /\ isr # "dispatch" /\ isr' # "dispatch"
      BY <2>1 DEF LoopStep, CommandLeave, AddTooClose, RestartLoop, MainRuns, listVars, clockVars
    <3>2. QED
      BY <3>1 DEF Pending, Running, Listed
  <2>2. QED
    BY <1>4, <2>1, CommandsKept DEF MainThread
<1>5. QED
  BY <1>1, <1>2, <1>3, <1>4 DEF NextSched

\* What the scheduler does with its list, its placeholder, its interrupts and
\* its deferrals is, to the devices, what module Alarms promises: no timer runs
\* early, before one it should wait for, twice, after it was removed or after
\* a shutdown, and none vanishes.
THEOREM PromiseIsKept == SafeSched => KeepsPromise
<1>1. InitSched => Promise!InitAlarms
  <2> SUFFICES ASSUME InitSched PROVE Promise!InitAlarms
    OBVIOUS
  <2>1. timer_list = <<periodic_timer, sentinel_timer>> /\ isr = "off" /\ now = 0
    BY DEF InitSched, Init
  <2>2. {u \in Timers : Listed(u)} = {}
    BY <2>1, SchedNodesDiffer DEF Listed, Contains
  <2>3. Pending = [u \in {} |-> 0] /\ Running = NoTimer
    BY <2>1, <2>2 DEF Pending, Running
  <2>4. QED
    BY <2>1, <2>3 DEF Promise!InitAlarms, Promise!Nothing, Pending, Running
<1>2. SInv /\ TimeInv /\ [NextSched]_vars => [Promise!NextAlarms]_<<Pending, Running, now>>
  BY StepKept
<1>3. QED
  BY <1>1, <1>2, SafeSchedSInv, SafeSchedTimeInv, PTL
     DEF SafeSched, KeepsPromise, Promise!SpecAlarms, Pending, Running
=============================================================================
