----------------------------- MODULE AccDriver -----------------------------
(***************************************************************************)
(* The LIS3DH accelerometer driver (hardware/acc/lis3dh/acc.c) on top of   *)
(* the interrupt driven bus (hal/i2c/nrf52/i2c.c).                         *)
(*                                                                         *)
(* The driver is a queue of register commands (g_cmd_buf) and a two state  *)
(* machine (g_current_state).  Two contexts work on it:                    *)
(*                                                                         *)
(*   - the main loop: start-up, tasks of the task queue, writes of a       *)
(*     threshold.  Every circular_buf_push and every execute_one_cmd is a  *)
(*     critical region, so a main loop function is a list of steps (todo)  *)
(*     between which an interrupt may run;                                 *)
(*   - the TWI and GPIOTE interrupts, which share one priority: a handler  *)
(*     is one step, it runs to its end before the main loop continues.     *)
(*                                                                         *)
(* The sensor, the wires and the nrfx drivers are external: they are       *)
(* modelled as acc.c, i2c.c and digital_io.c use them.                     *)
(*                                                                         *)
(* A definition named Bug... is the definition below it with a plausible   *)
(* mistake; no specification uses it.  Replacing the one by the other shows*)
(* that the properties notice.                                             *)
(***************************************************************************)
EXTENDS Integers, Sequences

CONSTANTS
  CommandsMax,     \* ACC_COMMANDS_MAX, the commands g_cmd_raw_buf holds
  TasksMax,        \* TASK_QUEUE_CFG_QUEUE_SIZE
  SamplesMax,      \* samples that fit into g_read_raw_buf
  FifoSamplesNum,  \* ACC_CFG_FIFO_SAMPLES_NUM
  FifoLevels,      \* the fill levels the sensor may report in FIFO_SRC
  Thresholds,      \* the thresholds (mg) a client may set
  BootThreshold,   \* ACC_CFG_HIPASS_THRESHOLD, ACC_CFG_FREEFALL_THRESHOLD
  SetsMax,         \* bound: threshold writes in a behaviour
  FailsMax         \* bound: transfers that the bus fails in a behaviour

Pin == {"HPF", "FF"}  \* DIGITAL_IO_INPUT_ACC_INT_HPF, DIGITAL_IO_INPUT_ACC_INT_FF

ASSUME DriverAssumption ==
  /\ CommandsMax \in Nat \ {0}
  /\ TasksMax \in Nat
  /\ SamplesMax \in Nat \ {0}
  /\ FifoSamplesNum \in Nat
  /\ FifoLevels \subseteq Nat
  /\ Thresholds \subseteq Nat
  /\ BootThreshold \in [Pin -> Nat]
  /\ SetsMax \in Nat
  /\ FailsMax \in Nat

(***************************************************************************)
(* Commands.  A read names the length it asks for (bytes of a register,    *)
(* samples of OUT_X_L), a write the value.  The registers whose content    *)
(* the driver only logs, or only writes, are all "OTHER", but for the one  *)
(* that ends the start-up list.                                            *)
(***************************************************************************)
SrcReg == [p \in Pin |-> IF p = "HPF" THEN "INT1_SRC" ELSE "INT2_SRC"]
ThsReg == [p \in Pin |-> IF p = "HPF" THEN "INT1_THS" ELSE "INT2_THS"]
CfgReg == [p \in Pin |-> IF p = "HPF" THEN "INT1_CFG" ELSE "INT2_CFG"]

Register == {"INT1_SRC", "INT2_SRC", "INT1_THS", "INT2_THS", "INT1_CFG",
             "INT2_CFG", "FIFO_SRC", "OUT_X_L", "REFERENCE", "OTHER"}

Command == [reg : Register, read : BOOLEAN, arg : Nat]

ReadReg(r, n) == [reg |-> r, read |-> TRUE, arg |-> n]

WriteReg(r, v) == [reg |-> r, read |-> FALSE, arg |-> v]

\* The zeroed g_tx_buffer: a register the driver does not react to.
ZeroCmd == WriteReg("OTHER", 0)

\* get_hp_threshold_cfg, get_ff_threshold_cfg at ACC_CFG_RANGE 2.
RegVal(threshold) == IF 127 < threshold \div 16 THEN 127 ELSE threshold \div 16

(***************************************************************************)
(* Steps of the main loop.                                                 *)
(***************************************************************************)
Step == [op : {"push", "exec", "fss"}, cmd : Command]

Push(c) == [op |-> "push", cmd |-> c]

Exec == [op |-> "exec", cmd |-> ZeroCmd]

OneSample == [op |-> "fss", cmd |-> ZeroCmd]

\* Mistake: the block of the second interrupt repeats the first one.
BugLis3dhInit ==
  LET other   == Push(ReadReg("OTHER", 1))
      written == Push(WriteReg("OTHER", 0))
      Irq(p)  == << Push(WriteReg(ThsReg[p], RegVal(BootThreshold[p]))),
                    Push(WriteReg(CfgReg[p], 0)), written >>
  IN  << other, other, written, written, written, written, written, written,
         written >>
      \o Irq("HPF") \o Irq("HPF")
      \o << Push(ReadReg("INT1_SRC", 1)), Push(ReadReg("INT2_SRC", 1)),
            Push(ReadReg("FIFO_SRC", 1)), Push(ReadReg("REFERENCE", 1)), Exec >>

\* lis3dh_init: the configuration, then one read of every status register.
Lis3dhInit ==
  LET other   == Push(ReadReg("OTHER", 1))
      written == Push(WriteReg("OTHER", 0))
      Irq(p)  == << Push(WriteReg(ThsReg[p], RegVal(BootThreshold[p]))),
                    Push(WriteReg(CfgReg[p], 0)), written >>
  IN  << other, other, written, written, written, written, written, written,
         written >>
      \o Irq("HPF") \o Irq("FF")
      \o << Push(ReadReg("INT1_SRC", 1)), Push(ReadReg("INT2_SRC", 1)),
            Push(ReadReg("FIFO_SRC", 1)), Push(ReadReg("REFERENCE", 1)), Exec >>

\* Mistake: the status read of the free fall pin is queued and never started.
BugDioCallback(p, on) ==
  CASE on /\ p = "HPF" -> << Push(ReadReg("FIFO_SRC", 1)),
                             Push(ReadReg("INT1_SRC", 1)), Exec >>
    [] on /\ p = "FF"  -> << Push(ReadReg("INT2_SRC", 1)) >>
    [] ~on             -> << >>

\* dio_callback: what the level of the pin, sampled by the task, asks for.
DioCallback(p, on) ==
  CASE on /\ p = "HPF" -> << Push(ReadReg("FIFO_SRC", 1)),
                             Push(ReadReg("INT1_SRC", 1)), Exec >>
    [] on /\ p = "FF"  -> << Push(ReadReg("INT2_SRC", 1)), Exec >>
    [] ~on             -> << >>

\* hpf_task queues a read of one sample; ff_task only logs.
SrcTask(p) ==
  IF p = "HPF" THEN << OneSample, Push(ReadReg("OUT_X_L", 1)) >> ELSE << >>

Task == [fn : {"dio", "src"}, pin : Pin]

VARIABLES
  cmdBuf,     \* g_cmd_buf: the queued commands, oldest first
  accState,   \* g_current_state
  txBuf,      \* g_tx_buffer: the command written to it last
  rxBuf,      \* g_rx_buffer[0]: the IA bit or the fill level read last
  gFss,       \* g_fss
  threshold,  \* g_hp_threshold, g_ff_threshold
  readBuf,    \* g_read_buf: samples in it and its full flag
  tasks,      \* the task queue of the main loop
  todo,       \* what the running main loop function still has to do
  undefined,  \* an uninitialised command was called
  lost,       \* a command was refused by a full g_cmd_buf
  sets,       \* threshold writes so far
  bus,        \* the TWI peripheral: idle, busy, or done (interrupt pending)
  wire,       \* the command of the transfer on the bus
  latched,    \* the sensor's latched interrupts, the levels of the two pins
  armed,      \* the interrupts the sensor is configured to raise
  ths,        \* the sensor's INT1_THS and INT2_THS
  sensed,     \* the level of each pin at its last GPIOTE interrupt
  fails       \* transfers that failed so far

driverVars == << cmdBuf, accState, txBuf, rxBuf, gFss, threshold, readBuf, tasks,
                 todo, undefined, lost, sets >>
deviceVars == << bus, wire, latched, armed, ths, sensed, fails >>
vars == << driverVars, deviceVars >>

TypeOK ==
  /\ cmdBuf \in Seq(Command) /\ Len(cmdBuf) <= CommandsMax
  /\ accState \in {"IDLE", "WAIT_FOR_DATA"}
  /\ txBuf \in Command
  /\ rxBuf \in Nat
  /\ gFss \in Nat
  /\ threshold \in [Pin -> Nat]
  /\ readBuf \in [len : 0 .. SamplesMax, full : BOOLEAN]
  /\ tasks \in Seq(Task) /\ Len(tasks) <= TasksMax
  /\ todo \in Seq(Step)
  /\ undefined \in BOOLEAN
  /\ lost \in BOOLEAN
  /\ sets \in 0 .. SetsMax
  /\ bus \in {"idle", "busy", "done"}
  /\ wire \in Command
  /\ latched \in [Pin -> BOOLEAN]
  /\ armed \in [Pin -> BOOLEAN]
  /\ ths \in [Pin -> Nat]
  /\ sensed \in [Pin -> BOOLEAN]
  /\ fails \in 0 .. FailsMax

-----------------------------------------------------------------------------
(***************************************************************************)
(* The command queue.                                                      *)
(***************************************************************************)
\* Mistake: the ring is sized in bytes for commands a third larger.
BugFull(buf) == Len(buf) = (3 * CommandsMax) \div 4

Full(buf) == Len(buf) = CommandsMax

\* Mistake: the ring overtakes its tail.
BugPushed(buf, c) == Append(buf, c)

\* Mistake: a new command is put where the next one is taken.
BugPushedInFront(buf, c) == IF Full(buf) THEN buf ELSE << c >> \o buf

Pushed(buf, c) == IF Full(buf) THEN buf ELSE Append(buf, c)

\* task_queue_add: a full scheduler queue refuses the task.
Posted(t) == IF Len(tasks) < TasksMax THEN Append(tasks, t) ELSE tasks

\* The part execute_one_cmd and execute_one_cmd_force share.  Popping a full
\* ring buffer copies nothing and empties it: the command called next was
\* never written.  nrfx_twi_xfer ignores a request while a transfer runs.
ExecuteOldest(buf, busFree) ==
  /\ accState' = "WAIT_FOR_DATA"
  /\ \/ /\ Full(buf)
        /\ cmdBuf' = << >>
        /\ undefined' = TRUE
        /\ UNCHANGED << txBuf, bus, wire >>
     \/ /\ ~Full(buf)
        /\ cmdBuf' = Tail(buf)
        /\ txBuf' = Head(buf)
        /\ bus' = IF busFree THEN "busy" ELSE bus
        /\ wire' = IF busFree THEN Head(buf) ELSE wire
        /\ UNCHANGED undefined

\* Mistake: the state stays WAIT_FOR_DATA when nothing is left to execute.
BugExecuteOneCmdForce(buf) ==
  \/ buf # << >> /\ ExecuteOldest(buf, TRUE)
  \/ /\ buf = << >>
     /\ bus' = "idle"
     /\ UNCHANGED << accState, cmdBuf, txBuf, wire, undefined >>

\* execute_one_cmd_force, in the TWI interrupt: the transfer has ended.
ExecuteOneCmdForce(buf) ==
  \/ buf # << >> /\ ExecuteOldest(buf, TRUE)
  \/ /\ buf = << >>
     /\ cmdBuf' = buf
     /\ accState' = "IDLE"
     /\ bus' = "idle"
     /\ UNCHANGED << txBuf, wire, undefined >>

\* Mistake: g_current_state is not looked at.
BugExecuteOneCmd ==
  IF cmdBuf # << >>
    THEN ExecuteOldest(cmdBuf, bus = "idle")
    ELSE UNCHANGED << accState, cmdBuf, txBuf, bus, wire, undefined >>

\* execute_one_cmd, in the main loop.  An empty queue leaves the state alone.
ExecuteOneCmd ==
  IF accState = "IDLE" /\ cmdBuf # << >>
    THEN ExecuteOldest(cmdBuf, bus = "idle")
    ELSE UNCHANGED << accState, cmdBuf, txBuf, bus, wire, undefined >>

\* circular_buf_push of n samples into g_read_buf, which nothing pops.
Stored(n) ==
  LET copied == IF n < SamplesMax - readBuf.len THEN n ELSE SamplesMax - readBuf.len
      head   == (readBuf.len + copied) % SamplesMax
  IN  IF readBuf.full THEN readBuf ELSE [len |-> head, full |-> head = 0]

-----------------------------------------------------------------------------
(***************************************************************************)
(* The TWI interrupt: i2c.c forwards the end of a transfer and event_handler*)
(* of acc.c reacts to the register named in g_tx_buffer.                   *)
(***************************************************************************)
FifoSrcDone ==
  /\ txBuf.reg = "FIFO_SRC"
  /\ gFss' = rxBuf
  /\ LET more == FifoSamplesNum < rxBuf
     IN  /\ lost' = (lost \/ (more /\ Full(cmdBuf)))
         /\ ExecuteOneCmdForce(IF more THEN Pushed(cmdBuf, ReadReg("OUT_X_L", rxBuf))
                                       ELSE cmdBuf)
  /\ UNCHANGED << readBuf, tasks >>

\* IA set: the subscribers get ACC_EVT_HIPASS_INT or ACC_EVT_FREEFALL_INT.
Publishes(p) == txBuf.reg = SrcReg[p] /\ rxBuf # 0

\* INTx_SRC read: with IA set, the subscribers, then hpf_task or ff_task.
IntSrcDone(p) ==
  /\ txBuf.reg = SrcReg[p]
  /\ tasks' = IF Publishes(p) THEN Posted([fn |-> "src", pin |-> p]) ELSE tasks
  /\ ExecuteOneCmdForce(cmdBuf)
  /\ UNCHANGED << gFss, readBuf, lost >>

SamplesDone ==
  /\ txBuf.reg = "OUT_X_L"
  /\ readBuf' = Stored(gFss)
  /\ ExecuteOneCmdForce(cmdBuf)
  /\ UNCHANGED << gFss, tasks, lost >>

OtherDone ==
  /\ txBuf.reg \notin {"FIFO_SRC", "INT1_SRC", "INT2_SRC", "OUT_X_L"}
  /\ ExecuteOneCmdForce(cmdBuf)
  /\ UNCHANGED << gFss, readBuf, tasks, lost >>

TwiIsr ==
  /\ bus = "done"
  /\ \/ FifoSrcDone
     \/ \E p \in Pin : IntSrcDone(p)
     \/ SamplesDone
     \/ OtherDone
  /\ UNCHANGED << rxBuf, threshold, todo, sets, latched, armed, ths, sensed, fails >>

(***************************************************************************)
(* The GPIOTE interrupt of digital_io.c: a changed level posts a task.  A  *)
(* level that changes back before the interrupt runs is never seen.        *)
(***************************************************************************)
GpioIsr(p) ==
  /\ sensed[p] # latched[p]
  /\ sensed' = [sensed EXCEPT ![p] = latched[p]]
  /\ tasks' = Posted([fn |-> "dio", pin |-> p])
  /\ UNCHANGED << cmdBuf, accState, txBuf, rxBuf, gFss, threshold, readBuf, todo,
                  undefined, lost, sets, bus, wire, latched, armed, ths, fails >>

-----------------------------------------------------------------------------
(***************************************************************************)
(* The main loop.                                                          *)
(***************************************************************************)
\* circular_buf_push of a command: a full buffer refuses it silently.
PushStep ==
  /\ todo # << >> /\ Head(todo).op = "push"
  /\ todo' = Tail(todo)
  /\ cmdBuf' = Pushed(cmdBuf, Head(todo).cmd)
  /\ lost' = (lost \/ Full(cmdBuf))
  /\ UNCHANGED << accState, txBuf, rxBuf, gFss, threshold, readBuf, tasks,
                  undefined, sets, deviceVars >>

ExecStep ==
  /\ todo # << >> /\ Head(todo).op = "exec"
  /\ todo' = Tail(todo)
  /\ ExecuteOneCmd
  /\ UNCHANGED << rxBuf, gFss, threshold, readBuf, tasks, lost, sets, latched,
                  armed, ths, sensed, fails >>

\* hpf_task: g_fss = 1, while an interrupt may be about to use g_fss.
FssStep ==
  /\ todo # << >> /\ Head(todo).op = "fss"
  /\ todo' = Tail(todo)
  /\ gFss' = 1
  /\ UNCHANGED << cmdBuf, accState, txBuf, rxBuf, threshold, readBuf, tasks,
                  undefined, lost, sets, deviceVars >>

\* The scheduler starts the oldest task once the main loop is free.
RunTask ==
  /\ todo = << >> /\ tasks # << >>
  /\ tasks' = Tail(tasks)
  /\ LET t == Head(tasks)
     IN  todo' = IF t.fn = "dio" THEN DioCallback(t.pin, latched[t.pin])
                                 ELSE SrcTask(t.pin)
  /\ UNCHANGED << cmdBuf, accState, txBuf, rxBuf, gFss, threshold, readBuf,
                  undefined, lost, sets, deviceVars >>

\* acc_set_hp_threshold, acc_set_ff_threshold, from a BLE event.
SetThreshold(p, t) ==
  /\ todo = << >> /\ sets < SetsMax
  /\ t # threshold[p]
  /\ threshold' = [threshold EXCEPT ![p] = t]
  /\ todo' = << Push(WriteReg(ThsReg[p], RegVal(t))), Exec >>
  /\ sets' = sets + 1
  /\ UNCHANGED << cmdBuf, accState, txBuf, rxBuf, gFss, readBuf, tasks, undefined,
                  lost, deviceVars >>

Main ==
  \/ PushStep
  \/ ExecStep
  \/ FssStep
  \/ RunTask
  \/ \E p \in Pin, t \in Thresholds : SetThreshold(p, t)

-----------------------------------------------------------------------------
(***************************************************************************)
(* The sensor and the bus.                                                 *)
(***************************************************************************)
\* Motion (or a free fall) latches an interrupt the sensor is armed for.
Motion(p) ==
  /\ armed[p] /\ ~latched[p]
  /\ latched' = [latched EXCEPT ![p] = TRUE]
  /\ UNCHANGED << driverVars, bus, wire, armed, ths, sensed, fails >>

\* Reading INTx_SRC returns the latch and clears it.
Transfer ==
  /\ bus = "busy"
  /\ bus' = "done"
  /\ \/ \E p \in Pin :
          /\ wire.reg = SrcReg[p]
          /\ rxBuf' = IF latched[p] THEN 1 ELSE 0
          /\ latched' = [latched EXCEPT ![p] = FALSE]
          /\ UNCHANGED << armed, ths >>
     \/ /\ wire.reg = "FIFO_SRC"
        /\ rxBuf' \in FifoLevels
        /\ UNCHANGED << latched, armed, ths >>
     \/ \E p \in Pin :
          /\ wire.reg = ThsReg[p]
          /\ ths' = [ths EXCEPT ![p] = wire.arg]
          /\ UNCHANGED << rxBuf, latched, armed >>
     \/ \E p \in Pin :
          /\ wire.reg = CfgReg[p]
          /\ armed' = [armed EXCEPT ![p] = TRUE]
          /\ UNCHANGED << rxBuf, latched, ths >>
     \/ /\ wire.reg \in {"OUT_X_L", "REFERENCE", "OTHER"}
        /\ rxBuf' = 0
        /\ UNCHANGED << latched, armed, ths >>
  /\ UNCHANGED << cmdBuf, accState, txBuf, gFss, threshold, readBuf, tasks, todo,
                  undefined, lost, sets, wire, sensed, fails >>

\* A NACK: i2c.c does not forward it, so g_current_state waits for ever.
TransferFails ==
  /\ bus = "busy" /\ fails < FailsMax
  /\ bus' = "idle"
  /\ fails' = fails + 1
  /\ UNCHANGED << driverVars, wire, latched, armed, ths, sensed >>

\* acc_init, after the pins are registered; the sensor was just powered.
Init ==
  /\ cmdBuf = << >> /\ accState = "IDLE"
  /\ txBuf = ZeroCmd /\ rxBuf = 0 /\ gFss = 0
  /\ threshold = BootThreshold
  /\ readBuf = [len |-> 0, full |-> FALSE]
  /\ tasks = << >> /\ todo = Lis3dhInit
  /\ undefined = FALSE /\ lost = FALSE /\ sets = 0
  /\ bus = "idle" /\ wire = ZeroCmd
  /\ latched = [p \in Pin |-> FALSE] /\ armed = [p \in Pin |-> FALSE]
  /\ ths = [p \in Pin |-> 0] /\ sensed = [p \in Pin |-> FALSE]
  /\ fails = 0

\* The driver at rest after a start-up: a state every run of Init reaches
\* when nothing moves, from which smaller queues than the one of the start-up
\* can be examined.
InitAtRest ==
  /\ cmdBuf = << >> /\ accState = "IDLE"
  /\ txBuf = ZeroCmd /\ rxBuf = 0 /\ gFss = 0
  /\ threshold = BootThreshold
  /\ readBuf = [len |-> 0, full |-> FALSE]
  /\ tasks = << >> /\ todo = << >>
  /\ undefined = FALSE /\ lost = FALSE /\ sets = 0
  /\ bus = "idle" /\ wire = ZeroCmd
  /\ latched = [p \in Pin |-> FALSE] /\ armed = [p \in Pin |-> TRUE]
  /\ ths = [p \in Pin |-> RegVal(BootThreshold[p])]
  /\ sensed = [p \in Pin |-> FALSE]
  /\ fails = 0

Isr == TwiIsr \/ \E p \in Pin : GpioIsr(p)

Sensor == Transfer \/ TransferFails \/ \E p \in Pin : Motion(p)

\* After an undefined call the model says nothing.
Next == ~undefined /\ (Main \/ Isr \/ Sensor)

\* An interrupt is taken, the main loop runs, a started transfer ends.
Fairness ==
  /\ WF_vars(~undefined /\ TwiIsr)
  /\ \A p \in Pin : WF_vars(~undefined /\ GpioIsr(p))
  /\ WF_vars(~undefined /\ (PushStep \/ ExecStep \/ FssStep))
  /\ WF_vars(~undefined /\ RunTask)
  /\ WF_vars(~undefined /\ (Transfer \/ TransferFails))

Spec == Init /\ [][Next]_vars

AtRestSpec == InitAtRest /\ [][Next]_vars

FairAtRestSpec == AtRestSpec /\ Fairness

-----------------------------------------------------------------------------
(***************************************************************************)
(* Properties.                                                             *)
(***************************************************************************)
\* A reply is decoded as the answer to the command that was sent: from the
\* start of a transfer to its interrupt nobody overwrites g_tx_buffer, though
\* event_handler and every caller of execute_one_cmd may start a transfer.
ReplyMatchesRequest == ~undefined /\ bus # "idle" => txBuf = wire

\* The driver is never idle over a queued register write or status read: only
\* the sample reads of hpf_task, which does not call execute_one_cmd, may lie
\* in g_cmd_buf while nothing is going to execute them.
NoStrandedCommand ==
  ~undefined /\ accState = "IDLE" =>
    \A i \in 1 .. Len(cmdBuf) :
      \/ cmdBuf[i].reg = "OUT_X_L"
      \/ \E j \in 1 .. Len(todo) : todo[j].op = "exec"

\* ACC_STATE_WAIT_FOR_DATA always has a transfer to wait for, unless the bus
\* failed one: the end of every transfer either starts another or goes idle.
WaitsForTransfer ==
  ~undefined /\ accState = "WAIT_FOR_DATA" => bus # "idle" \/ fails > 0

\* The value INTx_THS will hold once everything queued has been executed.
FinalThs(p) ==
  LET toCome == (IF bus = "busy" THEN << wire >> ELSE << >>) \o cmdBuf
                  \o [i \in 1 .. Len(todo) |-> todo[i].cmd]
      writes == {i \in 1 .. Len(toCome) : toCome[i].reg = ThsReg[p]}
  IN  IF writes = {} THEN ths[p]
                     ELSE toCome[CHOOSE i \in writes : \A j \in writes : j <= i].arg

\* The sensor and the driver agree on the threshold as soon as the queue is
\* drained, however writes, start-up and interrupts interleave, unless a
\* command was refused or a transfer failed.
ThresholdFaithful ==
  ~undefined /\ ~lost /\ fails = 0 =>
    \A p \in Pin : FinalThs(p) = RegVal(threshold[p])

\* The last threshold that was set reaches the sensor.
ThresholdApplied ==
  <>[](\A p \in Pin : \/ ths[p] = RegVal(threshold[p])
                      \/ undefined \/ lost \/ fails > 0)

\* The driver implements the command pipe: what is on the wire followed by
\* what is queued is served in the order of acceptance.
Pipe == INSTANCE CommandPipe WITH
          Capacity  <- CommandsMax,
          pipe      <- (IF bus = "busy" THEN << wire >> ELSE << >>) \o cmdBuf,
          collapsed <- undefined

PipeSpec == Pipe!Spec
=============================================================================
