-------------------------------- MODULE Nrf51 --------------------------------
(***************************************************************************)
(* The nRF51 port's clock and pins: ws_timer.c, ws_system.c,               *)
(* ws_digital_input.c and the task queue they share, ws_task_queue.c.      *)
(*                                                                         *)
(* Unlike its successor this port counts.  The system time counts tasks of *)
(* the timer interrupt, a client's timer asks for the interrupts' counter  *)
(* when its task runs, and the status of a pin is toggled by every task of *)
(* the pin.  So a task the queue refuses, or one that runs late, is never  *)
(* made up for.  Interrupts come between any two steps of the main loop.   *)
(***************************************************************************)
EXTENDS Integers, Sequences, FiniteSets

CONSTANTS
  QueueSize,   \* TASK_QUEUE_CFG_QUEUE_SIZE
  Intervals,   \* intervals a client gives its timer
  Word         \* 2^32, the numbers of a counter

ASSUME Nrf51Assumption ==
  /\ QueueSize \in Nat \ {0}
  /\ Intervals \subseteq Nat \ {0}
  /\ Word \in Nat \ {0}

\* The tasks of the two interrupts, and those of other drivers.
Task == {"TIMER", "PIN", "OTHER"}

\* Where the main loop is: between two tasks, before the client's slot of
\* ws_timers in WS_TimerCallback (the system's slot is the first), or in
\* WS_DigitalInputRegisterCallback with the interrupt enabled, or with the
\* entry of ws_pinCallbacks written and its status still to be read.
Place == {"between", "client slot", "enabled", "entered"}

VARIABLES
  counter,        \* counter of ws_timer.c
  ws_timeCounter, \* the system time
  interval,       \* of the client's slot, 0: the slot is free
  queue,          \* the scheduler's queue, oldest first
  at,             \* where the main loop is
  pin,            \* level of the pin
  sensed,         \* level at the pin's last interrupt, or when it was enabled
  registered,     \* the pin's entry of ws_pinCallbacks is written
  status,         \* the status in that entry
  lostTicks,      \* history: refused tasks of the timer, % Word
  inverted,       \* history: an odd number of edges was refused, or had their
                  \* task queued before the first status was read
  owed,           \* history: multiples of the interval the counter has passed
                  \* since the client set its timer, less the calls it had,
                  \* until a task is late
  late            \* history: since then a timer task was refused, or the counter
                  \* went on before one had run

clockVars == << counter, ws_timeCounter, interval, lostTicks, owed, late >>
pinVars == << pin, sensed, registered, status, inverted >>
vars == << clockVars, pinVars, queue, at >>

Pending(task) == Cardinality({i \in 1 .. Len(queue) : queue[i] = task})

TypeOK ==
  /\ counter \in 0 .. Word - 1 /\ ws_timeCounter \in 0 .. Word - 1
  /\ interval \in Intervals \cup {0}
  /\ queue \in Seq(Task) /\ Len(queue) <= QueueSize
  /\ at \in Place
  /\ pin \in BOOLEAN /\ sensed \in BOOLEAN /\ registered \in BOOLEAN
  /\ status \in BOOLEAN /\ inverted \in BOOLEAN /\ late \in BOOLEAN
  /\ lostTicks \in 0 .. Word - 1
  /\ owed \in -1 .. 1

\* app_sched_event_put finds no place.
Full == Len(queue) = QueueSize

WS_TaskQueueAdd(task) == queue' = IF Full THEN queue ELSE Append(queue, task)

-----------------------------------------------------------------------------
(***************************************************************************)
(* Interrupts.                                                             *)
(***************************************************************************)
\* Mistake: an interrupt without a task is not counted.
BugTick == IF Full THEN counter ELSE (counter + 1) % Word

Tick == (counter + 1) % Word

\* WS_TimerIrqHandler.
WS_TimerIrqHandler ==
  /\ counter' = Tick
  /\ WS_TaskQueueAdd("TIMER")
  /\ lostTicks' = IF Full THEN (lostTicks + 1) % Word ELSE lostTicks
  /\ late' = (late \/ Full \/ Pending("TIMER") # 0 \/ at = "client slot")
  /\ owed' = IF ~late' /\ interval # 0 /\ counter' % interval = 0 THEN owed + 1 ELSE owed
  /\ UNCHANGED << ws_timeCounter, interval, at, pinVars >>

\* WS_DigitalInputIrqHandler: gpiote knows the pin before the driver does.
WS_DigitalInputIrqHandler ==
  /\ at # "between" \/ registered
  /\ sensed # pin
  /\ sensed' = pin
  /\ IF registered
       THEN /\ WS_TaskQueueAdd("PIN")
            /\ inverted' = IF Full # (at = "entered") THEN ~inverted ELSE inverted
       ELSE UNCHANGED << queue, inverted >>
  /\ UNCHANGED << clockVars, at, pin, registered, status >>

\* The level of the pin changes.
Edge ==
  /\ pin' = ~pin
  /\ UNCHANGED << clockVars, sensed, registered, status, inverted, queue, at >>

\* Tasks of the other drivers.
OtherTask ==
  /\ ~Full /\ WS_TaskQueueAdd("OTHER")
  /\ UNCHANGED << clockVars, pinVars, at >>

-----------------------------------------------------------------------------
(***************************************************************************)
(* The main loop: WS_TaskQueueExecute.                                     *)
(***************************************************************************)
Take(task) ==
  /\ at = "between"
  /\ queue # << >> /\ Head(queue) = task
  /\ queue' = Tail(queue)

\* WS_TimerCallback of ws_timer.c, the system's slot: its interval is 1, and its
\* callback counts.
SystemSlot ==
  /\ Take("TIMER")
  /\ ws_timeCounter' = (ws_timeCounter + 1) % Word
  /\ at' = "client slot"
  /\ UNCHANGED << counter, interval, lostTicks, owed, late, pinVars >>

\* Mistake: the interval is counted from zero.
BugDue == interval # 0 /\ counter % (interval + 1) = 0

Due == interval # 0 /\ counter % interval = 0

\* WS_TimerCallback, the slot of the client.
ClientSlot ==
  /\ at = "client slot" /\ at' = "between"
  /\ owed' = IF Due /\ ~late THEN owed - 1 ELSE owed
  /\ UNCHANGED << counter, ws_timeCounter, interval, lostTicks, late, pinVars, queue >>

\* Mistake: the level is read, and toggled as well.
BugToggled == ~pin

\* The status WS_DigitalInputEventHandler reports.
Toggled == ~status

\* WS_DigitalInputEventHandler.
WS_DigitalInputEventHandler ==
  /\ Take("PIN")
  /\ status' = Toggled
  /\ UNCHANGED << clockVars, pin, sensed, registered, inverted, at >>

RunOther == Take("OTHER") /\ UNCHANGED << clockVars, pinVars, at >>

-----------------------------------------------------------------------------
(***************************************************************************)
(* Calls of clients, in the main loop.                                     *)
(***************************************************************************)
\* A second timer finds no slot.
WS_TimerSetTimer(i) ==
  /\ at = "between"
  /\ interval = 0
  /\ interval' = i
  /\ owed' = 0 /\ late' = (Pending("TIMER") # 0)
  /\ UNCHANGED << counter, ws_timeCounter, lostTicks, pinVars, queue, at >>

WS_TimerCancel ==
  /\ at = "between"
  /\ interval # 0
  /\ interval' = 0
  /\ owed' = 0 /\ late' = FALSE
  /\ UNCHANGED << counter, ws_timeCounter, lostTicks, pinVars, queue, at >>

\* WS_DigitalInputRegisterCallback, in three steps.
EnablePin ==
  /\ at = "between" /\ ~registered
  /\ at' = "enabled" /\ sensed' = pin
  /\ UNCHANGED << clockVars, pin, registered, status, inverted, queue >>

EnterPin ==
  /\ at = "enabled"
  /\ at' = "entered" /\ registered' = TRUE
  /\ UNCHANGED << clockVars, pin, sensed, status, inverted, queue >>

\* An interrupt that is due comes before the main loop goes on.
ReadPin ==
  /\ at = "entered" /\ sensed = pin
  /\ at' = "between" /\ status' = pin
  /\ UNCHANGED << clockVars, pin, sensed, registered, inverted, queue >>

-----------------------------------------------------------------------------
\* After WS_SystemInit.
Init ==
  /\ counter = 0 /\ ws_timeCounter = 0 /\ interval = 0
  /\ queue = << >> /\ at = "between"
  /\ pin \in BOOLEAN /\ sensed = pin /\ registered = FALSE /\ status = FALSE
  /\ lostTicks = 0 /\ inverted = FALSE /\ owed = 0 /\ late = FALSE

Next ==
  \/ WS_TimerIrqHandler \/ WS_DigitalInputIrqHandler \/ Edge \/ OtherTask
  \/ SystemSlot \/ ClientSlot \/ WS_DigitalInputEventHandler \/ RunOther
  \/ \E i \in Intervals : WS_TimerSetTimer(i)
  \/ WS_TimerCancel
  \/ EnablePin \/ EnterPin \/ ReadPin

Spec == Init /\ [][Next]_vars

-----------------------------------------------------------------------------
(***************************************************************************)
(* Properties.                                                             *)
(***************************************************************************)
\* The system time is behind the interrupts by the tasks that wait and by those
\* the queue refused, and by nothing else, also when the counters wrap.  So one
\* refused task is an error of 100 ms for ever.
ClockLag == (ws_timeCounter + Pending("TIMER") + lostTicks) % Word = counter

\* A client's timer is called once for each multiple of its interval, as long as
\* no task of the timer is refused or overtaken by the next interrupt: a task
\* that finds the counter gone on would repeat a call, or omit one.
FiresOnce ==
  /\ ~late /\ Pending("TIMER") = 0 /\ at # "client slot" => owed = 0
  /\ ~late => owed \in {0, 1}

\* The status of a registered pin is its level, once its tasks are done, and the
\* opposite, for good, after an odd number of edges that were refused or that
\* came while the pin was registered.
InvertedByLoss ==
  registered /\ at # "entered" =>
    (status # sensed) = ((Pending("PIN") % 2 = 1) # inverted)

=============================================================================
