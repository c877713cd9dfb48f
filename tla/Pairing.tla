------------------------------- MODULE Pairing -------------------------------
(***************************************************************************)
(* The pairing button, from the pin to the connection state machine:       *)
(* digital_io.c, button.c, system.c and hmi.c, composed with BlePeripheral.*)
(*                                                                         *)
(* The interrupt of the pin posts a task that names the pin only.  The task*)
(* samples the level when it runs, and button.c measures a push between two*)
(* samples in ticks of the 100 ms timer, an interrupt of its own.  So the  *)
(* level may have changed again between edge and sample, a full task queue *)
(* drops an edge, and a release sampled without its push is measured from  *)
(* the push before it.                                                     *)
(***************************************************************************)
EXTENDS BlePeripheral

CONSTANTS
  NormalDuration,    \* BUTTON_PUSH_NORMAL_DURATION
  LongDuration,      \* BUTTON_PUSH_LONG_DURATION
  VeryLongDuration,  \* BUTTON_PUSH_VERY_LONG_DURATION
  TasksMax,          \* bound: tasks of the pin that wait
  QueueFills         \* whether the other tasks ever fill the queue

ASSUME PairingAssumption ==
  /\ NormalDuration \in Nat \ {0}
  /\ LongDuration \in Nat /\ NormalDuration < LongDuration
  /\ VeryLongDuration \in Nat /\ LongDuration < VeryLongDuration
  /\ TasksMax \in Nat \ {0}
  /\ QueueFills \in BOOLEAN

VARIABLES
  pushed,   \* the pin: TRUE while the button is held down
  sensed,   \* the level of the pin at the last interrupt
  tasks,    \* tasks of the pin, which all are alike
  status,   \* g_pin_callbacks[DIGITAL_IO_INPUT_PAIR_BTN].status
  since,    \* system_get_time() - onTime, all VeryLongDuration and more alike
  event,    \* the event the last task gave to hmi, or "none"
  held,     \* history: ticks from the interrupt of the last push to that of
            \* its release
  told,     \* history: the last push has given an event
  lost,     \* history: the task of the last edge was refused
  slipped,  \* history: since a push found no task waiting, an edge was refused,
            \* or came before the task of the edge before it had run
  late      \* history: since then, a task has waited through a tick

pinVars == << pushed, sensed, tasks, status >>
history == << held, told, lost, slipped, late >>
buttonVars == << pinVars, since, event, history >>
pairingVars == << vars, buttonVars >>

\* "none" is what a push shorter than a tick gives.
Push == {"none", "NORMAL", "LONG", "VERY_LONG"}

PairingTypeOK ==
  /\ pushed \in BOOLEAN /\ sensed \in BOOLEAN /\ status \in BOOLEAN
  /\ tasks \in 0..TasksMax
  /\ since \in 0..VeryLongDuration /\ held \in 0..VeryLongDuration
  /\ told \in BOOLEAN /\ lost \in BOOLEAN /\ slipped \in BOOLEAN /\ late \in BOOLEAN
  /\ event \in Push

-----------------------------------------------------------------------------
\* The finger.
Edge ==
  /\ pushed' = ~pushed
  /\ UNCHANGED << vars, sensed, tasks, status, since, event, history >>

\* digital_io_input_isr: the queue takes the task, or refuses it because it is
\* full, which is only logged.  A level that came back before the interrupt was
\* served is no edge.
DigitalIoInputIsr ==
  /\ sensed # pushed
  /\ sensed' = pushed
  /\ \E refused \in BOOLEAN :
       LET first == pushed /\ tasks = 0 /\ ~refused
       IN  /\ IF refused THEN QueueFills ELSE tasks < TasksMax
           /\ tasks' = IF refused THEN tasks ELSE tasks + 1
           /\ lost' = refused
           /\ slipped' = (~first /\ (slipped \/ refused \/ tasks # 0))
           /\ late' = (~first /\ late)
  /\ held' = IF pushed THEN 0 ELSE held
  /\ told' = (~pushed /\ told)
  /\ UNCHANGED << vars, pushed, status, since, event >>

\* tmt_evt_handler of system.c, an interrupt.
Tick ==
  LET later(n) == IF n < VeryLongDuration THEN n + 1 ELSE n
  IN  /\ since' = later(since)
      /\ held' = IF sensed THEN later(held) ELSE held
      /\ late' = (late \/ tasks # 0)
      /\ UNCHANGED << vars, pinVars, event, told, lost, slipped >>

-----------------------------------------------------------------------------
\* Mistake: the thresholds are asked for in the order of their length.
BugPushOf(duration) == IF NormalDuration <= duration THEN "NORMAL" ELSE "none"

\* The event a duration stands for.
PushOf(duration) ==
  CASE VeryLongDuration <= duration -> "VERY_LONG"
    [] LongDuration <= duration /\ duration < VeryLongDuration -> "LONG"
    [] NormalDuration <= duration /\ duration < LongDuration -> "NORMAL"
    [] OTHER -> "none"

\* Mistake: the level is not read, every task stands for a change.
BugInIsSet == ~status

\* nrfx_gpiote_in_is_set.
InIsSet == pushed

\* digital_input_callback of button.c, called with the sampled level.
DigitalInputCallback(isActive) ==
  /\ since' = IF isActive THEN 0 ELSE since
  /\ event' = IF isActive THEN "none" ELSE PushOf(since)

\* digital_io_input_event_handler, down to hmi.c and the state machine.  An
\* interrupt that is due is served before the main loop goes on.
DigitalIoInputEventHandler ==
  /\ tasks # 0 /\ sensed = pushed
  /\ tasks' = tasks - 1
  /\ status' = InIsSet
  /\ DigitalInputCallback(status')
  /\ Becomes(ButtonCallback(Machine, event'))
  /\ told' = (told \/ event' # "none")
  /\ UNCHANGED << evts, spoilt, pushed, sensed, held, lost, slipped, late >>

-----------------------------------------------------------------------------
\* A node that starts with the button released, or held down: the level is read
\* when hmi_init registers the callback, and onTime is the time of the start.
PairingInit ==
  /\ Init
  /\ pushed \in BOOLEAN /\ sensed = pushed /\ status = pushed
  /\ tasks = 0
  /\ since = 0 /\ event = "none"
  /\ held = 0 /\ told = FALSE /\ lost = FALSE
  /\ slipped = TRUE /\ late = FALSE

PairingNext ==
  \/ LinkNext /\ UNCHANGED buttonVars
  \/ Edge \/ DigitalIoInputIsr \/ Tick
  \/ DigitalIoInputEventHandler

PairingSpec == PairingInit /\ [][PairingNext]_pairingVars

FairPairingSpec == PairingSpec /\ Fairness

-----------------------------------------------------------------------------
(***************************************************************************)
(* Properties.                                                             *)
(***************************************************************************)
\* Once every task of the pin is done, the level the firmware knows is that of
\* the pin, however the level changed between edges and samples, unless the
\* queue refused the task of the last edge: nothing reads the pin again then.
LevelIsKnown ==
  status = pushed \/ tasks # 0 \/ sensed # pushed \/ lost

\* What the comments on the durations promise, in ticks.
Durations == [NORMAL    |-> NormalDuration..(LongDuration - 1),
              LONG      |-> LongDuration..(VeryLongDuration - 1),
              VERY_LONG |-> {VeryLongDuration}]

\* A task of the pin gives hmi an event.
GivesEvent == tasks' < tasks /\ event' # "none"

\* A push gives one event, that of the time between its two interrupts, for as
\* long as no edge is lost, every task runs before the next edge and none waits
\* through a tick.
PushIsMeasured ==
  [][GivesEvent /\ ~slipped /\ ~late => held \in Durations[event'] /\ ~told]_pairingVars

\* "BUTTON_EVENT_LONG, // 1500ms": whatever the order of edges and samples, a
\* LONG event, with which hmi disconnects, comes of a push that long, if only
\* its tasks run at once.
LongIsLong ==
  [][GivesEvent /\ event' = "LONG" /\ ~late => held >= LongDuration]_pairingVars

=============================================================================
