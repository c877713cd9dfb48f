------------------------------ MODULE Nrf51Proofs ------------------------------
(***************************************************************************)
(* The clock, the timers and the pins of the nRF51 port, for every size of *)
(* the task queue, every set of intervals and every width of a counter.    *)
(*                                                                         *)
(* Each property counts tasks of one kind in the queue.  So the proofs     *)
(* start with what a task that is put and one that is taken do to the      *)
(* count, and what an interrupt, a task or a call does to the clock, to    *)
(* the timer and to the pin follows one action at a time.                  *)
(***************************************************************************)
EXTENDS Nrf51, FiniteSetTheorems, TLAPS

(***************************************************************************)
(* Counting tasks.                                                         *)
(***************************************************************************)
\* Where a sequence has a task.
Where(q, t) == {i \in 1 .. Len(q) : q[i] = t}

LEMMA WhereIsFinite ==
  ASSUME NEW q \in Seq(Task), NEW t
  PROVE  IsFiniteSet(Where(q, t)) /\ Cardinality(Where(q, t)) \in Nat
<1>1. IsFiniteSet(1 .. Len(q))
  BY FS_Interval
<1>2. Where(q, t) \subseteq 1 .. Len(q)
  BY DEF Where
<1> QED BY <1>1, <1>2, FS_Subset, FS_CardinalityType

\* A task at the end counts one.
LEMMA CountAppend ==
  ASSUME NEW q \in Seq(Task), NEW e \in Task, NEW t
  PROVE  Cardinality(Where(Append(q, e), t)) =
           Cardinality(Where(q, t)) + (IF e = t THEN 1 ELSE 0)
<1> DEFINE n == Len(q) + 1
<1>1. n \notin Where(q, t)
  BY DEF Where
<1>2. CASE e = t
  <2>1. Where(Append(q, e), t) = Where(q, t) \cup {n}
    BY <1>2 DEF Where
  <2> QED BY <1>1, <1>2, <2>1, WhereIsFinite, FS_AddElement
<1>3. CASE e # t
  <2>1. Where(Append(q, e), t) = Where(q, t)
    BY <1>3 DEF Where
  <2> QED BY <1>3, <2>1, WhereIsFinite
<1> QED BY <1>2, <1>3

\* The head counts one; the others are counted one place further on.
LEMMA CountTail ==
  ASSUME NEW q \in Seq(Task), q # << >>, NEW t
  PROVE  Cardinality(Where(Tail(q), t)) =
           Cardinality(Where(q, t)) - (IF Head(q) = t THEN 1 ELSE 0)
<1> DEFINE rest == Where(q, t) \ {1}
           next == [i \in Where(Tail(q), t) |-> i + 1]
<1>1. Tail(q) \in Seq(Task) /\ Len(Tail(q)) = Len(q) - 1
      /\ \A i \in 1 .. Len(q) - 1 : Tail(q)[i] = q[i + 1]
  OBVIOUS
<1>2. next \in Bijection(Where(Tail(q), t), rest)
  <2>1. \A i \in Where(Tail(q), t) : i \in Nat /\ i + 1 \in rest
    BY <1>1 DEF Where
  <2>2. \A j \in rest : j \in Nat /\ j - 1 \in Where(Tail(q), t) /\ next[j - 1] = j
    BY <1>1 DEF Where
  <2>3. next \in Injection(Where(Tail(q), t), rest)
    BY <2>1 DEF Injection, IsInjective
  <2>4. next \in Surjection(Where(Tail(q), t), rest)
    BY <2>1, <2>2 DEF Surjection
  <2> QED BY <2>3, <2>4 DEF Bijection
<1>3. Cardinality(Where(Tail(q), t)) = Cardinality(rest)
  <2>1. IsFiniteSet(Where(Tail(q), t))
    BY <1>1, WhereIsFinite
  <2>2. ExistsBijection(Where(Tail(q), t), rest)
    BY <1>2 DEF ExistsBijection
  <2> HIDE DEF rest
  <2> QED BY <2>1, <2>2, FS_Bijection
<1>4. 1 \in Where(q, t) <=> Head(q) = t
  BY DEF Where
<1> HIDE DEF rest
<1>5. Cardinality(rest) = IF 1 \in Where(q, t) THEN Cardinality(Where(q, t)) - 1
                                               ELSE Cardinality(Where(q, t))
  BY WhereIsFinite, FS_RemoveElement DEF rest
<1> QED BY <1>3, <1>4, <1>5, WhereIsFinite

LEMMA PendingType ==
  ASSUME NEW t, queue \in Seq(Task)
  PROVE  Pending(t) \in Nat
BY WhereIsFinite DEF Pending, Where

LEMMA PendingSame ==
  ASSUME NEW t, UNCHANGED queue
  PROVE  Pending(t)' = Pending(t)
BY DEF Pending

\* What WS_TaskQueueAdd does to the tasks that wait.
LEMMA PendingAdd ==
  ASSUME NEW t, NEW task \in Task, queue \in Seq(Task), WS_TaskQueueAdd(task)
  PROVE  Pending(t)' = IF ~Full /\ task = t THEN Pending(t) + 1 ELSE Pending(t)
<1>1. CASE Full
  BY <1>1, PendingSame DEF WS_TaskQueueAdd
<1>2. CASE ~Full
  <2>1. queue' = Append(queue, task)
    BY <1>2 DEF WS_TaskQueueAdd
  <2>2. Pending(t)' = Pending(t) + (IF task = t THEN 1 ELSE 0)
    <3>1. Pending(t) = Cardinality(Where(queue, t)) /\ Pending(t)' = Cardinality(Where(queue', t))
      BY DEF Pending, Where
    <3> QED BY <2>1, <3>1, CountAppend
  <2>3. Pending(t) \in Nat
    BY PendingType
  <2> QED BY <1>2, <2>2, <2>3
<1> QED BY <1>1, <1>2

\* What the main loop takes was waiting.
LEMMA PendingTake ==
  ASSUME NEW t, NEW task \in Task, queue \in Seq(Task), Take(task)
  PROVE  /\ Pending(task) # 0
         /\ Pending(t)' = IF task = t THEN Pending(t) - 1 ELSE Pending(t)
<1>1. queue # << >> /\ Head(queue) = task /\ queue' = Tail(queue)
  BY DEF Take
<1>2. Pending(t)' = Pending(t) - (IF task = t THEN 1 ELSE 0)
  BY <1>1, CountTail DEF Pending, Where
<1>3. Cardinality(Where(Tail(queue), task)) = Pending(task) - 1
  BY <1>1, CountTail DEF Pending, Where
<1>4. Cardinality(Where(Tail(queue), task)) \in Nat
  <2>1. Tail(queue) \in Seq(Task)
    BY <1>1
  <2> QED BY <2>1, WhereIsFinite
<1> QED BY <1>2, <1>3, <1>4, PendingType

(***************************************************************************)
(* Types.  The queue is bounded because WS_TaskQueueAdd looks before it    *)
(* puts; owed is bounded by FiresOnce, see below.                          *)
(***************************************************************************)
Types ==
  /\ counter \in 0 .. Word - 1 /\ ws_timeCounter \in 0 .. Word - 1
  /\ interval \in Intervals \cup {0}
  /\ queue \in Seq(Task) /\ Len(queue) <= QueueSize
  /\ at \in Place
  /\ pin \in BOOLEAN /\ sensed \in BOOLEAN /\ registered \in BOOLEAN
  /\ status \in BOOLEAN /\ inverted \in BOOLEAN /\ late \in BOOLEAN
  /\ lostTicks \in 0 .. Word - 1

\* A counter that is counted up stays one.
LEMMA CountedUp ==
  ASSUME NEW x \in 0 .. Word - 1
  PROVE  (x + 1) % Word \in 0 .. Word - 1
BY Nrf51Assumption

LEMMA Division ==
  ASSUME NEW x \in Nat
  PROVE  x % Word \in 0 .. Word - 1 /\ x \div Word \in Nat
         /\ x = (Word * (x \div Word)) + (x % Word)
BY Nrf51Assumption

LEMMA Remainder ==
  ASSUME NEW k \in Nat, NEW r \in 0 .. Word - 1
  PROVE  ((Word * k) + r) % Word = r
BY Nrf51Assumption

\* A counter that wraps may wrap before or after it is added to another.
LEMMA ModAdd ==
  ASSUME NEW x \in Nat, NEW y \in Nat
  PROVE  (y + (x % Word)) % Word = (y + x) % Word
<1>1. PICK k \in Nat, r \in 0 .. Word - 1 : x = (Word * k) + r /\ r = x % Word
  BY Division
<1>2. y + r \in Nat
  BY Nrf51Assumption
<1>3. PICK j \in Nat, s \in 0 .. Word - 1 : y + r = (Word * j) + s /\ s = (y + r) % Word
  BY <1>2, Division
<1>4. k + j \in Nat /\ y + x = (Word * (k + j)) + s
  BY <1>1, <1>3, Nrf51Assumption
<1>5. (y + x) % Word = s
  BY <1>4, Remainder
<1> QED BY <1>1, <1>3, <1>5

LEMMA QueueType ==
  ASSUME Types, NEW task \in Task, WS_TaskQueueAdd(task)
  PROVE  queue' \in Seq(Task) /\ Len(queue') <= QueueSize
BY Nrf51Assumption DEF Types, WS_TaskQueueAdd, Full

LEMMA RestType ==
  ASSUME Types, NEW task \in Task, Take(task)
  PROVE  queue' \in Seq(Task) /\ Len(queue') <= QueueSize
<1>1. queue \in Seq(Task) /\ queue # << >> /\ Len(queue) <= QueueSize /\ queue' = Tail(queue)
  BY DEF Types, Take
<1> QED BY <1>1, Nrf51Assumption

LEMMA TypesStep == Types /\ [Next]_vars => Types'
<1> SUFFICES ASSUME Types, [Next]_vars PROVE Types'
  OBVIOUS
<1> USE DEF Task
<1>1. CASE WS_TimerIrqHandler
  <2>1. counter' \in 0 .. Word - 1 /\ lostTicks' \in 0 .. Word - 1
    <3>1. counter \in 0 .. Word - 1 /\ lostTicks \in 0 .. Word - 1
      BY DEF Types
    <3> QED BY <1>1, <3>1, CountedUp DEF WS_TimerIrqHandler, Tick
  <2>2. late' \in BOOLEAN
    BY <1>1 DEF WS_TimerIrqHandler
  <2> QED BY <1>1, <2>1, <2>2, QueueType DEF Types, WS_TimerIrqHandler, pinVars
<1>2. CASE WS_DigitalInputIrqHandler
  <2>1. queue' \in Seq(Task) /\ Len(queue') <= QueueSize
    BY <1>2, QueueType DEF Types, WS_DigitalInputIrqHandler
  <2>2. inverted' \in BOOLEAN
    BY <1>2 DEF Types, WS_DigitalInputIrqHandler
  <2> QED BY <1>2, <2>1, <2>2 DEF Types, WS_DigitalInputIrqHandler, clockVars
<1>3. CASE Edge
  BY <1>3 DEF Types, Edge, clockVars
<1>4. CASE OtherTask
  BY <1>4, QueueType DEF Types, OtherTask, clockVars, pinVars
<1>5. CASE SystemSlot
  <2>1. ws_timeCounter' \in 0 .. Word - 1
    BY <1>5, CountedUp DEF Types, SystemSlot
  <2> QED BY <1>5, <2>1, RestType DEF Types, SystemSlot, pinVars, Place
<1>6. CASE ClientSlot
  BY <1>6 DEF Types, ClientSlot, pinVars, Place
<1>7. CASE WS_DigitalInputEventHandler
  BY <1>7, RestType DEF Types, WS_DigitalInputEventHandler, Toggled, clockVars
<1>8. CASE RunOther
  BY <1>8, RestType DEF Types, RunOther, clockVars, pinVars
<1>9. CASE \E i \in Intervals : WS_TimerSetTimer(i)
  BY <1>9 DEF Types, WS_TimerSetTimer, pinVars
<1>10. CASE WS_TimerCancel
  BY <1>10 DEF Types, WS_TimerCancel, pinVars
<1>11. CASE EnablePin \/ EnterPin \/ ReadPin
  BY <1>11 DEF Types, EnablePin, EnterPin, ReadPin, clockVars, Place
<1>12. CASE UNCHANGED vars
  BY <1>12 DEF Types, vars, clockVars, pinVars
<1> QED
  BY <1>1, <1>2, <1>3, <1>4, <1>5, <1>6, <1>7, <1>8, <1>9, <1>10, <1>11, <1>12
     DEF Next

(***************************************************************************)
(* The clock.  ClockLag is inductive: an interrupt adds one to the counter *)
(* and one to the tasks that wait, or to those that were refused; a task   *)
(* that runs moves one from those that wait to the system time.            *)
(***************************************************************************)
\* A counter counted up, and the counter a system time n, p tasks that wait and
\* l refused ones amount to.
Up(x) == (x + 1) % Word
Clock(n, p, l) == (n + p + l) % Word

LEMMA LagArithmetic ==
  ASSUME NEW n \in 0 .. Word - 1, NEW p \in Nat, NEW l \in 0 .. Word - 1
  PROVE  /\ Clock(n, p + 1, l) = Up(Clock(n, p, l))
         /\ Clock(n, p, Up(l)) = Up(Clock(n, p, l))
         /\ p # 0 => Clock(Up(n), p - 1, l) = Clock(n, p, l)
<1> DEFINE c == Clock(n, p, l)
<1> Word \in Nat \ {0} /\ n \in Nat /\ l \in Nat
  BY Nrf51Assumption
<1>1. n + p + l \in Nat /\ c = (n + p + l) % Word /\ c \in 0 .. Word - 1
  BY Division DEF Clock
<1> HIDE DEF c
<1>2. (n + (p + 1) + l) % Word = (c + 1) % Word
  <2>1. (1 + ((n + p + l) % Word)) % Word = (1 + (n + p + l)) % Word
    BY <1>1, ModAdd
  <2>2. 1 + (n + p + l) = n + (p + 1) + l /\ 1 + c = c + 1
    BY <1>1
  <2> QED BY <1>1, <2>1, <2>2
<1>3. (n + p + ((l + 1) % Word)) % Word = (c + 1) % Word
  <2>1. n + p \in Nat /\ l + 1 \in Nat /\ n + p + (l + 1) = n + (p + 1) + l
    OBVIOUS
  <2>2. ((n + p) + ((l + 1) % Word)) % Word = ((n + p) + (l + 1)) % Word
    BY <2>1, ModAdd
  <2> QED BY <1>2, <2>1, <2>2
<1>4. ASSUME p # 0
      PROVE  (((n + 1) % Word) + (p - 1) + l) % Word = c
  <2>1. p - 1 + l \in Nat /\ n + 1 \in Nat /\ p - 1 + l + (n + 1) = n + p + l
    BY <1>4
  <2>2. ((p - 1 + l) + ((n + 1) % Word)) % Word = ((p - 1 + l) + (n + 1)) % Word
    BY <2>1, ModAdd
  <2>3. (n + 1) % Word \in Nat
    BY <2>1, Division
  <2>4. (p - 1 + l) + ((n + 1) % Word) = ((n + 1) % Word) + (p - 1) + l
    BY <1>4, <2>3
  <2> QED BY <1>1, <2>1, <2>2, <2>4
<1> QED BY <1>1, <1>2, <1>3, <1>4 DEF Clock, Up

LEMMA LagStep ==
  ASSUME Types, ClockLag, [Next]_vars
  PROVE  ClockLag'
<1> DEFINE waiting == Pending("TIMER")
<1>1. /\ Word \in Nat \ {0}
      /\ counter \in 0 .. Word - 1 /\ ws_timeCounter \in 0 .. Word - 1
      /\ lostTicks \in 0 .. Word - 1 /\ queue \in Seq(Task)
      /\ counter = Clock(ws_timeCounter, waiting, lostTicks)
  BY Nrf51Assumption DEF Types, ClockLag, Clock
<1>2. waiting \in Nat
  BY <1>1, PendingType
<1>3. SUFFICES counter' = Clock(ws_timeCounter', waiting', lostTicks')
  BY DEF ClockLag, Clock
<1>4. \A task \in {"PIN", "OTHER"} :
        (WS_TaskQueueAdd(task) \/ Take(task)) => waiting' = waiting
  BY <1>1, PendingAdd, PendingTake DEF Task
<1>5. UNCHANGED queue => waiting' = waiting
  BY PendingSame
<1> HIDE DEF waiting
<1>6. /\ Clock(ws_timeCounter, waiting + 1, lostTicks) = Up(counter)
      /\ Clock(ws_timeCounter, waiting, Up(lostTicks)) = Up(counter)
      /\ waiting # 0 => Clock(Up(ws_timeCounter), waiting - 1, lostTicks) = counter
  BY <1>1, <1>2, LagArithmetic
<1>7. CASE WS_TimerIrqHandler
  <2>1. counter' = Up(counter) /\ ws_timeCounter' = ws_timeCounter
    BY <1>7 DEF WS_TimerIrqHandler, Tick, Up
  <2>2. WS_TaskQueueAdd("TIMER")
    BY <1>7 DEF WS_TimerIrqHandler
  <2>3. waiting' = IF Full THEN waiting ELSE waiting + 1
    BY <1>1, <2>2, PendingAdd DEF waiting, Task
  <2>4. CASE Full
    <3>1. lostTicks' = Up(lostTicks)
      BY <1>7, <2>4 DEF WS_TimerIrqHandler, Up
    <3> QED BY <1>6, <2>1, <2>3, <2>4, <3>1
  <2>5. CASE ~Full
    <3>1. lostTicks' = lostTicks
      BY <1>7, <2>5 DEF WS_TimerIrqHandler
    <3> QED BY <1>6, <2>1, <2>3, <2>5, <3>1
  <2> QED BY <2>4, <2>5
<1>8. CASE SystemSlot
  <2>1. Take("TIMER") /\ UNCHANGED << counter, lostTicks >>
        /\ ws_timeCounter' = Up(ws_timeCounter)
    BY <1>8 DEF SystemSlot, Up
  <2>2. waiting # 0 /\ waiting' = waiting - 1
    BY <1>1, <2>1, PendingTake DEF waiting, Task
  <2> QED BY <1>6, <2>1, <2>2
<1>9. CASE WS_DigitalInputIrqHandler
  <2>1. waiting' = waiting
    BY <1>4, <1>5, <1>9 DEF WS_DigitalInputIrqHandler
  <2> QED BY <1>1, <1>9, <2>1 DEF WS_DigitalInputIrqHandler, clockVars
<1>10. CASE OtherTask \/ RunOther
  BY <1>1, <1>4, <1>10 DEF OtherTask, RunOther, clockVars
<1>11. CASE WS_DigitalInputEventHandler
  BY <1>1, <1>4, <1>11 DEF WS_DigitalInputEventHandler, clockVars
<1>12. CASE UNCHANGED << queue, counter, ws_timeCounter, lostTicks >>
  BY <1>1, <1>5, <1>12
<1> QED
  BY <1>7, <1>8, <1>9, <1>10, <1>11, <1>12
     DEF Next, Edge, ClientSlot, WS_TimerSetTimer, WS_TimerCancel, EnablePin,
         EnterPin, ReadPin, vars, clockVars, pinVars

(***************************************************************************)
(* The client's timer.  While no task is late, at most one waits, and its  *)
(* call is owed exactly if the counter it is going to find is a multiple   *)
(* of the interval.                                                        *)
(***************************************************************************)
\* A task of the timer has not reached the client's slot.
OnItsWay == Pending("TIMER") # 0 \/ at = "client slot"

FireInv ==
  /\ owed \in {0, 1}
  /\ ~late => owed = IF OnItsWay /\ Due THEN 1 ELSE 0
  /\ ~late /\ interval # 0 =>
       /\ Pending("TIMER") \in {0, 1}
       /\ at = "client slot" => Pending("TIMER") = 0

LEMMA FireStep ==
  ASSUME Types, FireInv, [Next]_vars
  PROVE  FireInv'
<1> DEFINE waiting == Pending("TIMER")
           onItsWay == waiting # 0 \/ at = "client slot"
<1>1. queue \in Seq(Task) /\ waiting \in Nat /\ at \in Place /\ late \in BOOLEAN
  BY PendingType DEF Types
<1>2. /\ owed \in {0, 1}
      /\ ~late => owed = IF onItsWay /\ Due THEN 1 ELSE 0
      /\ ~late /\ interval # 0 =>
           waiting \in {0, 1} /\ (at = "client slot" => waiting = 0)
  BY DEF FireInv, OnItsWay
<1>3. SUFFICES
      /\ owed' \in {0, 1}
      /\ ~late' => owed' = IF onItsWay' /\ Due' THEN 1 ELSE 0
      /\ ~late' /\ interval' # 0 =>
           waiting' \in {0, 1} /\ (at' = "client slot" => waiting' = 0)
  BY DEF FireInv, OnItsWay
<1>4. ASSUME NEW task \in Task, WS_TaskQueueAdd(task)
      PROVE  waiting' = IF ~Full /\ task = "TIMER" THEN waiting + 1 ELSE waiting
  BY <1>1, <1>4, PendingAdd
<1>5. ASSUME NEW task \in Task, Take(task)
      PROVE  IF task = "TIMER" THEN waiting # 0 /\ waiting' = waiting - 1
                               ELSE waiting' = waiting
  BY <1>1, <1>5, PendingTake
<1>6. UNCHANGED queue => waiting' = waiting
  BY PendingSame
<1> HIDE DEF waiting
<1>7. CASE WS_TimerIrqHandler
  <2>1. WS_TaskQueueAdd("TIMER") /\ UNCHANGED << interval, at >>
    BY <1>7 DEF WS_TimerIrqHandler
  <2>2. waiting' = IF ~Full THEN waiting + 1 ELSE waiting
    BY <1>4, <2>1 DEF Task
  <2>3. /\ late' = (late \/ Full \/ waiting # 0 \/ at = "client slot")
        /\ owed' = IF ~late' /\ Due' THEN owed + 1 ELSE owed
    BY <1>7 DEF WS_TimerIrqHandler, Due, waiting
  <2>4. CASE late'
    BY <1>2, <2>3, <2>4
  <2>5. CASE ~late'
    <3>1. ~late /\ ~Full /\ ~onItsWay
      BY <2>3, <2>5
    <3>2. owed = 0
      BY <1>2, <3>1
    <3>3. waiting' = 1
      <4>1. waiting = 0 /\ waiting' = waiting + 1
        BY <2>2, <3>1
      <4> QED BY <4>1
    <3>4. owed' = IF Due' THEN 1 ELSE 0
      <4>1. owed' = IF Due' THEN owed + 1 ELSE owed
        BY <2>3, <2>5
      <4> QED BY <3>2, <4>1
    <3> QED BY <2>1, <3>1, <3>3, <3>4
  <2> QED BY <2>4, <2>5
<1>8. CASE SystemSlot
  <2>1. /\ Take("TIMER") /\ at' = "client slot"
        /\ UNCHANGED << counter, interval, owed, late >>
    BY <1>8 DEF SystemSlot
  <2>2. waiting # 0 /\ waiting' = waiting - 1
    BY <1>5, <2>1 DEF Task
  <2>3. onItsWay /\ onItsWay' /\ Due' = Due
    BY <2>1, <2>2 DEF Due
  <2>4. ASSUME ~late', interval' # 0 PROVE waiting' = 0
    <3>1. waiting = 1
      BY <1>2, <2>1, <2>2, <2>4
    <3> QED BY <2>2, <3>1
  <2> QED BY <1>2, <2>1, <2>3, <2>4
<1>9. CASE ClientSlot
  <2>1. /\ at = "client slot" /\ at' = "between"
        /\ owed' = IF Due /\ ~late THEN owed - 1 ELSE owed
        /\ UNCHANGED << counter, interval, late >> /\ waiting' = waiting
    BY <1>6, <1>9 DEF ClientSlot
  <2>2. Due' = Due /\ (Due => interval # 0)
    BY <2>1 DEF Due
  <2>3. ASSUME ~late PROVE owed' = 0
    <3>1. owed = IF Due THEN 1 ELSE 0
      BY <1>2, <2>1, <2>3
    <3>2. owed' = IF Due THEN owed - 1 ELSE owed
      BY <2>1, <2>3
    <3> QED BY <3>1, <3>2
  <2>4. ~late /\ Due => ~onItsWay'
    BY <1>2, <2>1, <2>2
  <2> QED BY <1>2, <2>1, <2>2, <2>3, <2>4
<1>10. CASE \E i \in Intervals : WS_TimerSetTimer(i)
  <2>1. /\ at = "between" /\ owed' = 0 /\ late' = (waiting # 0)
        /\ at' = at /\ waiting' = waiting
    BY <1>6, <1>10 DEF WS_TimerSetTimer, waiting
  <2> QED BY <2>1
<1>11. CASE WS_TimerCancel
  BY <1>11 DEF WS_TimerCancel, Due
<1>12. ASSUME waiting' = waiting, UNCHANGED << counter, interval, owed, late >>,
              at' = "client slot" <=> at = "client slot"
       PROVE  <1>3!1
  BY <1>2, <1>12 DEF Due
<1>13. CASE WS_DigitalInputIrqHandler
  <2>1. waiting' = waiting
    BY <1>4, <1>6, <1>13 DEF WS_DigitalInputIrqHandler, Task
  <2> QED BY <1>12, <1>13, <2>1 DEF WS_DigitalInputIrqHandler, clockVars
<1>14. CASE OtherTask \/ RunOther \/ WS_DigitalInputEventHandler
  <2>1. waiting' = waiting
    BY <1>4, <1>5, <1>14 DEF OtherTask, RunOther, WS_DigitalInputEventHandler, Task
  <2> QED BY <1>12, <1>14, <2>1
        DEF OtherTask, RunOther, WS_DigitalInputEventHandler, clockVars
<1>15. CASE Edge \/ EnablePin \/ EnterPin \/ ReadPin \/ UNCHANGED vars
  BY <1>6, <1>12, <1>15 DEF Edge, EnablePin, EnterPin, ReadPin, vars, clockVars
<1> QED
  BY <1>7, <1>8, <1>9, <1>10, <1>11, <1>13, <1>14, <1>15 DEF Next

(***************************************************************************)
(* The pin.  Every task that waits is going to toggle the status, so the   *)
(* parity of their number says how status and level differ; while the pin  *)
(* is registered the status is not read yet, and what was queued before    *)
(* then counts as lost.                                                    *)
(***************************************************************************)
Odd(n) == n % 2 = 1

LEMMA OddStep ==
  ASSUME NEW n \in Nat
  PROVE  /\ Odd(n) \in BOOLEAN
         /\ Odd(n + 1) <=> ~Odd(n)
         /\ n # 0 => (Odd(n - 1) <=> ~Odd(n))
         /\ ~Odd(0)
BY DEF Odd

StatusInv ==
  /\ ~registered => Pending("PIN") = 0 /\ ~inverted
  /\ at = "enabled" => ~registered
  /\ at = "entered" => registered /\ (inverted <=> Odd(Pending("PIN")))
  /\ InvertedByLoss

LEMMA StatusStep ==
  ASSUME Types, StatusInv, [Next]_vars
  PROVE  StatusInv'
<1> DEFINE waiting == Pending("PIN")
           odd == Odd(waiting)
<1>1. /\ queue \in Seq(Task) /\ waiting \in Nat /\ at \in Place
      /\ status \in BOOLEAN /\ sensed \in BOOLEAN /\ inverted \in BOOLEAN
      /\ registered \in BOOLEAN /\ pin \in BOOLEAN
  BY PendingType DEF Types
<1>2. /\ ~registered => waiting = 0 /\ ~inverted
      /\ at = "enabled" => ~registered
      /\ at = "entered" => registered /\ (inverted <=> odd)
      /\ registered /\ at # "entered" => ((status <=> sensed) <=> (odd <=> inverted))
  BY <1>1 DEF StatusInv, InvertedByLoss, Odd
<1>3. /\ status' \in BOOLEAN /\ sensed' \in BOOLEAN /\ inverted' \in BOOLEAN
  BY TypesStep DEF Types
<1>4. SUFFICES
      /\ ~registered' => waiting' = 0 /\ ~inverted'
      /\ at' = "enabled" => ~registered'
      /\ at' = "entered" => registered' /\ (inverted' <=> odd')
      /\ registered' /\ at' # "entered" => ((status' <=> sensed') <=> (odd' <=> inverted'))
  BY <1>3 DEF StatusInv, InvertedByLoss, Odd
<1>5. ASSUME NEW task \in Task, WS_TaskQueueAdd(task)
      PROVE  waiting' = IF ~Full /\ task = "PIN" THEN waiting + 1 ELSE waiting
  BY <1>1, <1>5, PendingAdd
<1>6. ASSUME NEW task \in Task, Take(task)
      PROVE  IF task = "PIN" THEN waiting # 0 /\ waiting' = waiting - 1
                             ELSE waiting' = waiting
  BY <1>1, <1>6, PendingTake
<1>7. UNCHANGED queue => waiting' = waiting
  BY PendingSame
<1> HIDE DEF waiting
<1>8. waiting' = waiting => (odd' <=> odd)
  OBVIOUS
<1>9. waiting' = waiting + 1 \/ (waiting # 0 /\ waiting' = waiting - 1) => (odd' <=> ~odd)
  BY <1>1, OddStep
<1>0. ~registered => ~odd
  BY <1>2, OddStep
<1> HIDE DEF odd
<1>10. CASE WS_DigitalInputIrqHandler /\ registered
  <2>1. /\ sensed # pin /\ sensed' = pin /\ WS_TaskQueueAdd("PIN")
        /\ inverted' = IF Full # (at = "entered") THEN ~inverted ELSE inverted
        /\ UNCHANGED << at, registered, status >>
    BY <1>10 DEF WS_DigitalInputIrqHandler
  <2>2. sensed' <=> ~sensed
    BY <1>1, <2>1
  <2>3. CASE Full
    <3>1. odd' <=> odd
      BY <1>5, <1>8, <2>1, <2>3 DEF Task
    <3>2. CASE at = "entered"
      <4>1. inverted' = inverted
        BY <2>1, <2>3, <3>2 DEF Full
      <4> QED BY <1>2, <1>10, <2>1, <3>1, <3>2, <4>1
    <3>3. CASE at # "entered"
      <4>1. inverted' = ~inverted
        BY <2>1, <2>3, <3>3
      <4> QED BY <1>2, <1>10, <2>1, <2>2, <3>1, <3>3, <4>1
    <3> QED BY <3>2, <3>3
  <2>4. CASE ~Full
    <3>1. odd' <=> ~odd
      BY <1>5, <1>9, <2>1, <2>4 DEF Task
    <3>2. CASE at = "entered"
      <4>1. inverted' = ~inverted
        BY <2>1, <2>4, <3>2
      <4> QED BY <1>2, <1>10, <2>1, <3>1, <3>2, <4>1
    <3>3. CASE at # "entered"
      <4>1. inverted' = inverted
        BY <2>1, <2>4, <3>3 DEF Full
      <4> QED BY <1>2, <1>10, <2>1, <2>2, <3>1, <3>3, <4>1
    <3> QED BY <3>2, <3>3
  <2> QED BY <2>3, <2>4
<1>11. CASE WS_DigitalInputEventHandler
  <2>1. /\ Take("PIN") /\ status' = ~status
        /\ UNCHANGED << sensed, registered, inverted, at >>
    BY <1>11 DEF WS_DigitalInputEventHandler, Toggled
  <2>2. waiting # 0 /\ at = "between" /\ (odd' <=> ~odd)
    BY <1>6, <1>9, <2>1 DEF Task, Take
  <2> QED BY <1>1, <1>2, <2>1, <2>2
<1>12. CASE EnablePin
  BY <1>2, <1>7, <1>12 DEF EnablePin
<1>13. CASE EnterPin
  BY <1>0, <1>2, <1>7, <1>8, <1>13 DEF EnterPin
<1>14. CASE ReadPin
  BY <1>2, <1>7, <1>8, <1>14 DEF ReadPin
<1>15. ASSUME waiting' = waiting, UNCHANGED << registered, status, inverted >>,
              \/ UNCHANGED << at, sensed >>
              \/ UNCHANGED at /\ ~registered
              \/ UNCHANGED sensed /\ {at, at'} \subseteq {"between", "client slot"}
       PROVE  <1>4!1
  <2>1. CASE UNCHANGED << at, sensed >>
    BY <1>2, <1>8, <1>15, <2>1
  <2>2. CASE UNCHANGED at /\ ~registered
    BY <1>2, <1>8, <1>15, <2>2
  <2>3. CASE UNCHANGED sensed /\ {at, at'} \subseteq {"between", "client slot"}
    <3>1. at \notin {"enabled", "entered"} /\ at' \notin {"enabled", "entered"}
      BY <2>3
    <3> QED BY <1>2, <1>8, <1>15, <2>3, <3>1
  <2> QED BY <1>15, <2>1, <2>2, <2>3
<1>16. CASE WS_DigitalInputIrqHandler /\ ~registered
  BY <1>7, <1>15, <1>16 DEF WS_DigitalInputIrqHandler
<1>17. CASE WS_TimerIrqHandler \/ OtherTask
  <2>1. waiting' = waiting
    BY <1>5, <1>17 DEF WS_TimerIrqHandler, OtherTask, Task
  <2> QED BY <1>15, <1>17, <2>1 DEF WS_TimerIrqHandler, OtherTask, pinVars
<1>18. CASE SystemSlot \/ RunOther
  <2>1. waiting' = waiting /\ at = "between"
    BY <1>6, <1>18 DEF SystemSlot, RunOther, Task, Take
  <2> QED BY <1>15, <1>18, <2>1 DEF SystemSlot, RunOther, pinVars
<1>19. CASE ClientSlot \/ WS_TimerCancel \/ \E i \in Intervals : WS_TimerSetTimer(i)
  <2>1. /\ UNCHANGED << pinVars, queue >>
        /\ UNCHANGED at \/ {at, at'} \subseteq {"between", "client slot"}
    BY <1>19 DEF ClientSlot, WS_TimerCancel, WS_TimerSetTimer
  <2> QED BY <1>7, <1>15, <2>1 DEF pinVars
<1>20. CASE Edge \/ UNCHANGED vars
  BY <1>7, <1>15, <1>20 DEF Edge, vars, pinVars
<1> QED
  BY <1>10, <1>11, <1>12, <1>13, <1>14, <1>16, <1>17, <1>18, <1>19, <1>20 DEF Next

(***************************************************************************)
(* Theorems.                                                               *)
(***************************************************************************)
LEMMA Begins == Init => Types /\ ClockLag /\ FireInv /\ StatusInv
<1> SUFFICES ASSUME Init PROVE Types /\ ClockLag /\ FireInv /\ StatusInv
  OBVIOUS
<1>1. queue = << >> /\ Where(queue, "TIMER") = {} /\ Where(queue, "PIN") = {}
  BY DEF Init, Where
<1>2. Pending("TIMER") = 0 /\ Pending("PIN") = 0
  BY <1>1, FS_EmptySet DEF Pending, Where
<1>3. Types
  <2>1. 0 \in 0 .. Word - 1 /\ Len(queue) <= QueueSize /\ queue \in Seq(Task)
    BY <1>1, Nrf51Assumption
  <2> QED BY <2>1 DEF Init, Types, Place
<1>4. ClockLag
  <2>1. (Word * 0) + 0 = 0 /\ 0 \in 0 .. Word - 1
    BY Nrf51Assumption
  <2>2. 0 % Word = 0
    BY <2>1, Remainder
  <2> QED BY <1>2, <2>2 DEF Init, ClockLag
<1>5. FireInv
  BY <1>2 DEF Init, FireInv, OnItsWay
<1>6. StatusInv
  BY <1>2 DEF Init, StatusInv, InvertedByLoss
<1> QED BY <1>3, <1>4, <1>5, <1>6

\* The types, and the queue never holds more than it has places.
THEOREM TypeCorrect == Spec => []TypeOK
<1>1. Types /\ FireInv => TypeOK
  <2>1. owed \in {0, 1} => owed \in -1 .. 1
    OBVIOUS
  <2> QED BY <2>1 DEF Types, FireInv, TypeOK
<1>2. Types /\ FireInv /\ [Next]_vars => (Types /\ FireInv)'
  BY TypesStep, FireStep
<1> QED BY <1>1, <1>2, Begins, PTL DEF Spec

\* ws_system.c's time is behind ws_timer.c's counter by the tasks that wait and
\* those that were refused, whatever the queue's size, counters that wrap included.
THEOREM ClockLags == Spec => []ClockLag
<1>1. Types /\ ClockLag /\ [Next]_vars => (Types /\ ClockLag)'
  BY TypesStep, LagStep
<1> QED BY <1>1, Begins, PTL DEF Spec

\* While no task is late, WS_TimerCallback calls a client once for each multiple
\* of its interval, for every interval.
THEOREM TimerFiresOnce == Spec => []FiresOnce
<1>1. Types /\ FireInv => FiresOnce
  BY DEF FireInv, OnItsWay, FiresOnce
<1>2. Types /\ FireInv /\ [Next]_vars => (Types /\ FireInv)'
  BY TypesStep, FireStep
<1> QED BY <1>1, <1>2, Begins, PTL DEF Spec

\* The status WS_DigitalInputEventHandler reports is the level, but for tasks that
\* wait and for an odd number of edges that were lost.
THEOREM StatusIsToggled == Spec => []InvertedByLoss
<1>1. Types /\ StatusInv /\ [Next]_vars => (Types /\ StatusInv)'
  BY TypesStep, StatusStep
<1>2. StatusInv => InvertedByLoss
  BY DEF StatusInv
<1> QED BY <1>1, <1>2, Begins, PTL DEF Spec
=============================================================================
