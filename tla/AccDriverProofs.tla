-------------------------- MODULE AccDriverProofs --------------------------
(***************************************************************************)
(* Proofs about the accelerometer driver, and about the node built on it,  *)
(* for every capacity, threshold, fill level and bound that                *)
(* DriverAssumption allows.                                                *)
(***************************************************************************)
EXTENDS WakeOnMotion, SequenceTheorems, TLAPS

(***************************************************************************)
(* The inductive invariant.                                                *)
(***************************************************************************)
\* While a transfer is under way the driver waits for it, with its command in
\* g_tx_buffer: a second transfer cannot be started from the main loop.
OneTransfer == bus # "idle" => accState = "WAIT_FOR_DATA" /\ txBuf = wire

\* Waiting is for a transfer, but after a failure or an undefined call.
WaitIsFounded == accState = "WAIT_FOR_DATA" => bus # "idle" \/ fails > 0 \/ undefined

\* A list of steps executes what it queues, samples apart.
Executes(steps) ==
  \A i \in 1 .. Len(steps) :
    steps[i].op = "push" /\ steps[i].cmd.reg # "OUT_X_L" =>
      \E j \in i + 1 .. Len(steps) : steps[j].op = "exec"

\* An idle driver has nothing queued that nobody will execute.
NothingForgotten ==
  accState = "IDLE" =>
    \A i \in 1 .. Len(cmdBuf) :
      \/ cmdBuf[i].reg = "OUT_X_L"
      \/ \E j \in 1 .. Len(todo) : todo[j].op = "exec"

DriverInv ==
  /\ TypeOK
  /\ OneTransfer
  /\ WaitIsFounded
  /\ Executes(todo)
  /\ NothingForgotten

-----------------------------------------------------------------------------
(***************************************************************************)
(* Commands and lists of steps.                                            *)
(***************************************************************************)
\* The registers of a pin are registers, and commands on them are commands.
LEMMA CommandTypes ==
  /\ \A p \in Pin : SrcReg[p] \in Register /\ ThsReg[p] \in Register /\ CfgReg[p] \in Register
  /\ \A r \in Register, n \in Nat : ReadReg(r, n) \in Command /\ WriteReg(r, n) \in Command
  /\ ZeroCmd \in Command
  /\ \A c \in Command : Push(c) \in Step
  /\ Exec \in Step /\ OneSample \in Step
BY DEF SrcReg, ThsReg, CfgReg, Pin, Register, ReadReg, WriteReg, Command, ZeroCmd,
       Push, Exec, OneSample, Step

\* A threshold becomes a natural number of the register's unit.
LEMMA RegValType == \A t \in Nat : RegVal(t) \in Nat
BY SMT DEF RegVal

\* The start-up list is a list of steps that ends by executing it.
LEMMA StartUpList == Lis3dhInit \in Seq(Step) /\ Executes(Lis3dhInit)
<1> DEFINE other   == Push(ReadReg("OTHER", 1))
           written == Push(WriteReg("OTHER", 0))
           Irq(p)  == << Push(WriteReg(ThsReg[p], RegVal(BootThreshold[p]))),
                         Push(WriteReg(CfgReg[p], 0)), written >>
           config  == << other, other, written, written, written, written, written,
                         written, written >>
           status  == << Push(ReadReg("INT1_SRC", 1)), Push(ReadReg("INT2_SRC", 1)),
                         Push(ReadReg("FIFO_SRC", 1)), Push(ReadReg("REFERENCE", 1)), Exec >>
<1>1. other \in Step /\ written \in Step
  BY CommandTypes DEF Register
<1>2. config \in Seq(Step)
  <2> HIDE DEF other, written
  <2> QED BY <1>1
<1>3. ASSUME NEW p \in Pin PROVE Irq(p) \in Seq(Step)
  <2>1. BootThreshold[p] \in Nat
    BY DriverAssumption
  <2>2. Push(WriteReg(ThsReg[p], RegVal(BootThreshold[p]))) \in Step
    BY <2>1, RegValType, CommandTypes
  <2>3. Push(WriteReg(CfgReg[p], 0)) \in Step
    BY CommandTypes
  <2> QED BY <1>1, <2>2, <2>3
<1>4. status \in Seq(Step) /\ Len(status) = 5 /\ status[5] = Exec
  <2>1. \A r \in Register : Push(ReadReg(r, 1)) \in Step
    BY CommandTypes
  <2>2. /\ Push(ReadReg("INT1_SRC", 1)) \in Step /\ Push(ReadReg("INT2_SRC", 1)) \in Step
        /\ Push(ReadReg("FIFO_SRC", 1)) \in Step /\ Push(ReadReg("REFERENCE", 1)) \in Step
        /\ Exec \in Step
    BY <2>1, CommandTypes DEF Register
  <2> QED BY <2>2
<1> DEFINE front == (config \o Irq("HPF")) \o Irq("FF")
<1>5. front \in Seq(Step)
  <2>1. Irq("HPF") \in Seq(Step) /\ Irq("FF") \in Seq(Step)
    BY <1>3 DEF Pin
  <2> HIDE DEF config, Irq
  <2> QED BY <1>2, <2>1, ConcatProperties
<1>6. Lis3dhInit = front \o status
  BY DEF Lis3dhInit
<1> HIDE DEF front, status
<1>7. /\ front \o status \in Seq(Step)
      /\ Len(front \o status) = Len(front) + 5
      /\ (front \o status)[Len(front) + 5] = Exec
      /\ \A i \in 1 .. Len(front) + 5 : (front \o status)[i] =
             IF i <= Len(front) THEN front[i] ELSE status[i - Len(front)]
  <2>1. Len(front) \in Nat
    BY <1>5
  <2>2. /\ front \o status \in Seq(Step)
        /\ Len(front \o status) = Len(front) + Len(status)
        /\ \A i \in 1 .. Len(front) + Len(status) : (front \o status)[i] =
              IF i <= Len(front) THEN front[i] ELSE status[i - Len(front)]
    BY <1>4, <1>5, ConcatProperties, Zenon
  <2>3. (Len(front) + 5) - Len(front) = 5 /\ ~(Len(front) + 5 <= Len(front))
    BY <2>1
  <2>4. Len(front) + 5 \in 1 .. Len(front) + 5
    BY <2>1
  <2>5. (front \o status)[Len(front) + 5] = status[(Len(front) + 5) - Len(front)]
    BY <1>4, <2>2, <2>3, <2>4, Zenon
  <2> QED BY <1>4, <2>2, <2>3, <2>5, Zenon
<1>8. ASSUME NEW i \in 1 .. Len(Lis3dhInit), Lis3dhInit[i].op = "push"
      PROVE  \E j \in i + 1 .. Len(Lis3dhInit) : Lis3dhInit[j].op = "exec"
  <2>1. Len(front) \in Nat
    BY <1>5
  <2>2. Exec.op = "exec"
    BY DEF Exec
  <2>3. i # Len(front) + 5
    BY <1>6, <1>7, <1>8, <2>2
  <2>4. Len(front) + 5 \in i + 1 .. Len(Lis3dhInit)
    BY <1>6, <1>7, <2>1, <2>3
  <2> QED BY <1>6, <1>7, <2>2, <2>4
<1> QED BY <1>6, <1>7, <1>8 DEF Executes

\* The steps of dio_callback and of hpf_task, and those of a threshold write.
LEMMA TaskLists ==
  ASSUME NEW p \in Pin, NEW on \in BOOLEAN, NEW t \in Nat
  PROVE  /\ DioCallback(p, on) \in Seq(Step) /\ Executes(DioCallback(p, on))
         /\ SrcTask(p) \in Seq(Step) /\ Executes(SrcTask(p))
         /\ << Push(WriteReg(ThsReg[p], RegVal(t))), Exec >> \in Seq(Step)
         /\ Executes(<< Push(WriteReg(ThsReg[p], RegVal(t))), Exec >>)
<1>1. /\ Push(ReadReg("FIFO_SRC", 1)) \in Step /\ Push(ReadReg("INT1_SRC", 1)) \in Step
      /\ Push(ReadReg("INT2_SRC", 1)) \in Step /\ Push(ReadReg("OUT_X_L", 1)) \in Step
      /\ Push(WriteReg(ThsReg[p], RegVal(t))) \in Step
      /\ Exec \in Step /\ OneSample \in Step
  <2>1. RegVal(t) \in Nat
    BY RegValType
  <2>2. \A r \in Register, n \in Nat : Push(ReadReg(r, n)) \in Step /\ Push(WriteReg(r, n)) \in Step
    BY CommandTypes
  <2> QED BY <2>1, <2>2, CommandTypes DEF Register
<1>2. Exec.op = "exec"
  BY DEF Exec
<1>3. \A a \in Step : << a, Exec >> \in Seq(Step) /\ Executes(<< a, Exec >>)
  <2> SUFFICES ASSUME NEW a \in Step
               PROVE  << a, Exec >> \in Seq(Step) /\ Executes(<< a, Exec >>)
    OBVIOUS
  <2>1. << a, Exec >> \in Seq(Step) /\ Len(<< a, Exec >>) = 2 /\ << a, Exec >>[2] = Exec
    BY <1>1
  <2>2. \A i \in 1 .. 2 : i # 2 => 2 \in i + 1 .. 2
    OBVIOUS
  <2>3. << a, Exec >>[2].op # "push"
    BY <2>1, <1>2
  <2> QED BY <2>1, <2>2, <2>3, <1>2 DEF Executes
<1>4. \A a, b \in Step : << a, b, Exec >> \in Seq(Step) /\ Executes(<< a, b, Exec >>)
  <2> SUFFICES ASSUME NEW a \in Step, NEW b \in Step
               PROVE  << a, b, Exec >> \in Seq(Step) /\ Executes(<< a, b, Exec >>)
    OBVIOUS
  <2>1. /\ << a, b, Exec >> \in Seq(Step) /\ Len(<< a, b, Exec >>) = 3
        /\ << a, b, Exec >>[3] = Exec
    BY <1>1
  <2>2. \A i \in 1 .. 3 : i # 3 => 3 \in i + 1 .. 3
    OBVIOUS
  <2>3. << a, b, Exec >>[3].op # "push"
    BY <2>1, <1>2
  <2> QED BY <2>1, <2>2, <2>3, <1>2 DEF Executes
<1>5. << >> \in Seq(Step) /\ Executes(<< >>)
  BY DEF Executes
<1>6. DioCallback(p, on) \in Seq(Step) /\ Executes(DioCallback(p, on))
  <2>1. CASE on /\ p = "HPF"
    BY <2>1, <1>1, <1>4 DEF DioCallback
  <2>2. CASE on /\ p = "FF"
    BY <2>2, <1>1, <1>3 DEF DioCallback
  <2>3. CASE ~on
    BY <2>3, <1>5 DEF DioCallback
  <2> QED BY <2>1, <2>2, <2>3 DEF Pin
<1>7. SrcTask(p) \in Seq(Step) /\ Executes(SrcTask(p))
  <2>1. << OneSample, Push(ReadReg("OUT_X_L", 1)) >> \in Seq(Step)
    BY <1>1
  <2>2. Executes(<< OneSample, Push(ReadReg("OUT_X_L", 1)) >>)
    BY DEF Executes, OneSample, Push, ReadReg
  <2> QED BY <2>1, <2>2, <1>5 DEF SrcTask
<1> QED BY <1>1, <1>3, <1>6, <1>7

\* A list of steps goes on being one when its first step has been taken.
LEMMA RestOfList ==
  ASSUME NEW steps \in Seq(Step), steps # << >>, Executes(steps)
  PROVE  /\ Head(steps) \in Step
         /\ Tail(steps) \in Seq(Step)
         /\ Executes(Tail(steps))
         /\ Head(steps).op = "push" /\ Head(steps).cmd.reg # "OUT_X_L" =>
              \E j \in 1 .. Len(Tail(steps)) : Tail(steps)[j].op = "exec"
<1>1. /\ Head(steps) \in Step /\ Head(steps) = steps[1] /\ Tail(steps) \in Seq(Step)
      /\ Len(steps) \in Nat /\ Len(Tail(steps)) = Len(steps) - 1 /\ 1 \in 1 .. Len(steps)
      /\ \A i \in 1 .. Len(steps) - 1 : Tail(steps)[i] = steps[i + 1]
  OBVIOUS
<1>2. \A i, j \in Int : j \in i + 1 .. Len(steps) /\ 1 <= i =>
                          j - 1 \in i .. Len(steps) - 1 /\ Tail(steps)[j - 1] = steps[j]
  BY <1>1
<1>3. Executes(Tail(steps))
  <2> SUFFICES ASSUME NEW i \in 1 .. Len(steps) - 1,
                      Tail(steps)[i].op = "push", Tail(steps)[i].cmd.reg # "OUT_X_L"
               PROVE  \E j \in i + 1 .. Len(steps) - 1 : Tail(steps)[j].op = "exec"
    BY <1>1 DEF Executes
  <2>1. i + 1 \in 1 .. Len(steps) /\ steps[i + 1] = Tail(steps)[i]
    BY <1>1
  <2>2. PICK j \in (i + 1) + 1 .. Len(steps) : steps[j].op = "exec"
    BY <2>1 DEF Executes
  <2>3. j - 1 \in i + 1 .. Len(steps) - 1 /\ Tail(steps)[j - 1] = steps[j]
    BY <1>1, <1>2, <2>1, <2>2
  <2> QED BY <2>2, <2>3
<1>4. ASSUME Head(steps).op = "push", Head(steps).cmd.reg # "OUT_X_L"
      PROVE  \E j \in 1 .. Len(Tail(steps)) : Tail(steps)[j].op = "exec"
  <2>1. PICK j \in 1 + 1 .. Len(steps) : steps[j].op = "exec"
    BY <1>1, <1>4 DEF Executes
  <2>2. j - 1 \in 1 .. Len(steps) - 1 /\ Tail(steps)[j - 1] = steps[j]
    BY <1>1, <1>2, <2>1
  <2> QED BY <1>1, <2>1, <2>2
<1> QED BY <1>1, <1>3, <1>4

-----------------------------------------------------------------------------
(***************************************************************************)
(* The command queue.                                                      *)
(***************************************************************************)
Queue == {buf \in Seq(Command) : Len(buf) <= CommandsMax}

\* A push keeps the queue within its capacity and adds at most its command.
LEMMA PushKeepsQueue ==
  ASSUME NEW buf \in Queue, NEW c \in Command
  PROVE  /\ Pushed(buf, c) \in Queue
         /\ \A i \in 1 .. Len(Pushed(buf, c)) :
              (i \in 1 .. Len(buf) /\ Pushed(buf, c)[i] = buf[i]) \/ Pushed(buf, c)[i] = c
<1>1. CASE Full(buf)
  BY <1>1 DEF Pushed
<1>2. CASE ~Full(buf)
  <2>1. Pushed(buf, c) = Append(buf, c) /\ buf \in Seq(Command) /\ Len(buf) <= CommandsMax
    BY <1>2 DEF Pushed, Queue
  <2>2. Len(buf) + 1 <= CommandsMax
    BY <1>2, <2>1, DriverAssumption DEF Full
  <2> QED BY <2>1, <2>2 DEF Queue
<1> QED BY <1>1, <1>2

\* Whoever executes the oldest command leaves a queue and, unless the call was
\* undefined, has its command both in g_tx_buffer and on the free bus.
LEMMA ExecuteOldestEffect ==
  ASSUME TypeOK, NEW buf \in Queue, buf # << >>, ExecuteOldest(buf, TRUE)
  PROVE  /\ cmdBuf' \in Queue
         /\ accState' = "WAIT_FOR_DATA"
         /\ txBuf' \in Command /\ wire' \in Command
         /\ undefined' \in BOOLEAN
         /\ \/ undefined' /\ UNCHANGED << txBuf, bus, wire >>
            \/ bus' = "busy" /\ txBuf' = wire'
<1>1. CASE Full(buf)
  <2>1. << >> \in Queue
    BY DriverAssumption DEF Queue
  <2> QED BY <1>1, <2>1 DEF ExecuteOldest, TypeOK
<1>2. CASE ~Full(buf)
  <2>1. Head(buf) \in Command /\ Tail(buf) \in Queue
    BY DriverAssumption DEF Queue
  <2> QED BY <1>2, <2>1 DEF ExecuteOldest, TypeOK
<1> QED BY <1>1, <1>2

\* What every end of a transfer does to the queue and to the bus.
LEMMA ForceEffect ==
  ASSUME TypeOK, OneTransfer, bus = "done", NEW buf \in Queue, ExecuteOneCmdForce(buf),
         UNCHANGED << todo, fails >>
  PROVE  /\ cmdBuf' \in Queue
         /\ accState' \in {"IDLE", "WAIT_FOR_DATA"}
         /\ txBuf' \in Command /\ wire' \in Command
         /\ undefined' \in BOOLEAN
         /\ bus' \in {"idle", "busy", "done"}
         /\ OneTransfer' /\ WaitIsFounded' /\ NothingForgotten'
<1>1. CASE buf # << >> /\ ExecuteOldest(buf, TRUE)
  BY <1>1, ExecuteOldestEffect DEF OneTransfer, WaitIsFounded, NothingForgotten, TypeOK
<1>2. CASE /\ buf = << >> /\ accState' = "IDLE" /\ bus' = "idle"
           /\ cmdBuf' = buf /\ UNCHANGED << txBuf, wire, undefined >>
  BY <1>2 DEF OneTransfer, WaitIsFounded, NothingForgotten, TypeOK, Queue
<1> QED BY <1>1, <1>2 DEF ExecuteOneCmdForce

\* What execute_one_cmd in the main loop does to them.
LEMMA ExecuteOneCmdEffect ==
  ASSUME DriverInv, ExecuteOneCmd, UNCHANGED fails
  PROVE  /\ cmdBuf' \in Queue
         /\ accState' \in {"IDLE", "WAIT_FOR_DATA"}
         /\ txBuf' \in Command /\ wire' \in Command
         /\ undefined' \in BOOLEAN
         /\ bus' \in {"idle", "busy", "done"}
         /\ OneTransfer' /\ WaitIsFounded' /\ NothingForgotten'
<1>1. cmdBuf \in Queue
  BY DEF DriverInv, TypeOK, Queue
<1>2. CASE accState = "IDLE" /\ cmdBuf # << >>
  <2>1. bus = "idle"
    BY <1>2 DEF DriverInv, OneTransfer
  <2>2. ExecuteOldest(cmdBuf, TRUE)
    BY <1>2, <2>1 DEF ExecuteOneCmd
  <2> QED BY <1>1, <1>2, <2>1, <2>2, ExecuteOldestEffect
          DEF DriverInv, OneTransfer, WaitIsFounded, NothingForgotten, TypeOK
<1>3. CASE ~(accState = "IDLE" /\ cmdBuf # << >>)
  <2>1. UNCHANGED << accState, cmdBuf, txBuf, bus, wire, undefined >>
    BY <1>3 DEF ExecuteOneCmd
  <2>2. accState = "IDLE" => cmdBuf = << >>
    BY <1>3
  <2> QED BY <1>1, <2>1, <2>2 DEF DriverInv, OneTransfer, WaitIsFounded, NothingForgotten, TypeOK
<1> QED BY <1>2, <1>3

\* The samples and the full flag of g_read_buf stay within its size.
LEMMA StoredType ==
  ASSUME readBuf \in [len : 0 .. SamplesMax, full : BOOLEAN], NEW n \in Nat
  PROVE  Stored(n) \in [len : 0 .. SamplesMax, full : BOOLEAN]
<1> DEFINE copied == IF n < SamplesMax - readBuf.len THEN n ELSE SamplesMax - readBuf.len
           head   == (readBuf.len + copied) % SamplesMax
<1>1. readBuf.len \in 0 .. SamplesMax /\ SamplesMax \in Nat \ {0}
  BY DriverAssumption
<1>2. readBuf.len + copied \in Nat
  BY <1>1
<1>3. head \in 0 .. SamplesMax
  <2> HIDE DEF copied
  <2>1. \A k \in Nat : k % SamplesMax \in 0 .. SamplesMax
    BY <1>1
  <2> QED BY <1>2, <2>1
<1> HIDE DEF head
<1>4. [len |-> head, full |-> head = 0] \in [len : 0 .. SamplesMax, full : BOOLEAN]
  BY <1>3
<1>5. Stored(n) = IF readBuf.full THEN readBuf ELSE [len |-> head, full |-> head = 0]
  BY DEF Stored, head
<1> QED BY <1>4, <1>5

\* A task that is posted keeps the task queue within its size.
LEMMA PostedType ==
  ASSUME TypeOK, NEW t \in Task
  PROVE  Posted(t) \in Seq(Task) /\ Len(Posted(t)) <= TasksMax
BY DriverAssumption DEF TypeOK, Posted

-----------------------------------------------------------------------------
(***************************************************************************)
(* The invariant holds in every step.                                      *)
(***************************************************************************)
\* An interrupt of the bus keeps the invariant: one case per register.
LEMMA TwiIsrKeeps == ASSUME DriverInv, TwiIsr PROVE DriverInv'
<1> USE DEF DriverInv
<1>1. /\ bus = "done"
      /\ UNCHANGED << rxBuf, threshold, todo, sets, latched, armed, ths, sensed, fails >>
  BY DEF TwiIsr
<1>2. cmdBuf \in Queue
  BY DEF TypeOK, Queue
<1>3. Executes(todo)'
  BY <1>1 DEF Executes
<1>4. ASSUME NEW buf \in Queue, ExecuteOneCmdForce(buf),
             gFss' \in Nat, readBuf' \in [len : 0 .. SamplesMax, full : BOOLEAN],
             tasks' \in Seq(Task), Len(tasks') <= TasksMax, lost' \in BOOLEAN
      PROVE  DriverInv'
  <2>1. /\ cmdBuf' \in Queue /\ accState' \in {"IDLE", "WAIT_FOR_DATA"}
        /\ txBuf' \in Command /\ wire' \in Command /\ undefined' \in BOOLEAN
        /\ bus' \in {"idle", "busy", "done"}
        /\ OneTransfer' /\ WaitIsFounded' /\ NothingForgotten'
    BY <1>1, <1>4, ForceEffect
  <2>2. TypeOK'
    BY <1>1, <1>4, <2>1 DEF TypeOK, Queue
  <2> QED BY <1>3, <2>1, <2>2
<1>5. CASE FifoSrcDone
  <2> DEFINE more == FifoSamplesNum < rxBuf
             buf  == IF more THEN Pushed(cmdBuf, ReadReg("OUT_X_L", rxBuf)) ELSE cmdBuf
  <2>1. ReadReg("OUT_X_L", rxBuf) \in Command
    BY CommandTypes DEF Register, TypeOK
  <2>2. buf \in Queue
    BY <1>2, <2>1, PushKeepsQueue
  <2>3. ExecuteOneCmdForce(buf) /\ gFss' = rxBuf /\ lost' \in BOOLEAN /\ UNCHANGED << readBuf, tasks >>
    BY <1>5 DEF FifoSrcDone, TypeOK
  <2> QED BY <1>4, <2>2, <2>3 DEF TypeOK
<1>6. ASSUME NEW p \in Pin, IntSrcDone(p) PROVE DriverInv'
  <2>1. [fn |-> "src", pin |-> p] \in Task
    BY DEF Task
  <2>2. tasks' \in Seq(Task) /\ Len(tasks') <= TasksMax
    BY <1>6, <2>1, PostedType DEF IntSrcDone, TypeOK
  <2> QED BY <1>2, <1>4, <1>6, <2>2 DEF IntSrcDone, TypeOK
<1>7. CASE SamplesDone
  <2>1. readBuf' \in [len : 0 .. SamplesMax, full : BOOLEAN]
    BY <1>7, StoredType DEF SamplesDone, TypeOK
  <2> QED BY <1>2, <1>4, <1>7, <2>1 DEF SamplesDone, TypeOK
<1>8. CASE OtherDone
  BY <1>2, <1>4, <1>8 DEF OtherDone, TypeOK
<1> QED BY <1>5, <1>6, <1>7, <1>8 DEF TwiIsr

\* A pin's interrupt only remembers a level and posts a task.
LEMMA GpioIsrKeeps == ASSUME DriverInv, NEW p \in Pin, GpioIsr(p) PROVE DriverInv'
<1>1. [fn |-> "dio", pin |-> p] \in Task
  BY DEF Task
<1>2. TypeOK'
  BY <1>1, PostedType DEF GpioIsr, DriverInv, TypeOK
<1>3. OneTransfer' /\ WaitIsFounded' /\ Executes(todo)' /\ NothingForgotten'
  BY DEF GpioIsr, DriverInv, OneTransfer, WaitIsFounded, Executes, NothingForgotten
<1> QED BY <1>2, <1>3 DEF DriverInv

\* A command is queued: if the driver is idle, an execution is still to come.
LEMMA PushStepKeeps == ASSUME DriverInv, PushStep PROVE DriverInv'
<1> DEFINE c == Head(todo).cmd
<1>1. /\ todo \in Seq(Step) /\ todo # << >> /\ Head(todo).op = "push" /\ Executes(todo)
      /\ cmdBuf \in Queue
  BY DEF PushStep, DriverInv, TypeOK, Queue
<1>2. /\ Head(todo) \in Step /\ Tail(todo) \in Seq(Step) /\ Executes(Tail(todo))
      /\ c.reg # "OUT_X_L" => \E j \in 1 .. Len(Tail(todo)) : Tail(todo)[j].op = "exec"
  BY <1>1, RestOfList
<1>3. c \in Command
  BY <1>2 DEF Step
<1>4. /\ cmdBuf' = Pushed(cmdBuf, c) /\ todo' = Tail(todo) /\ lost' = (lost \/ Full(cmdBuf))
      /\ UNCHANGED << accState, txBuf, rxBuf, gFss, threshold, readBuf, tasks,
                      undefined, sets, bus, wire, latched, armed, ths, sensed, fails >>
  BY DEF PushStep, deviceVars
<1> HIDE DEF c
<1>5. /\ Pushed(cmdBuf, c) \in Queue
      /\ \A i \in 1 .. Len(Pushed(cmdBuf, c)) :
           \/ i \in 1 .. Len(cmdBuf) /\ Pushed(cmdBuf, c)[i] = cmdBuf[i]
           \/ Pushed(cmdBuf, c)[i] = c
  BY <1>1, <1>3, PushKeepsQueue
<1>6. TypeOK'
  BY <1>2, <1>4, <1>5 DEF DriverInv, TypeOK, Queue, Full
<1>7. OneTransfer' /\ WaitIsFounded' /\ Executes(todo)'
  BY <1>2, <1>4 DEF DriverInv, OneTransfer, WaitIsFounded, Executes
<1>8. NothingForgotten'
  <2> SUFFICES ASSUME accState = "IDLE", NEW i \in 1 .. Len(Pushed(cmdBuf, c)),
                      Pushed(cmdBuf, c)[i].reg # "OUT_X_L"
               PROVE  \E j \in 1 .. Len(Tail(todo)) : Tail(todo)[j].op = "exec"
    BY <1>4 DEF NothingForgotten
  <2>1. CASE Pushed(cmdBuf, c)[i] = c
    BY <2>1, <1>2 DEF c
  <2>2. CASE i \in 1 .. Len(cmdBuf) /\ Pushed(cmdBuf, c)[i] = cmdBuf[i]
    <3>1. PICK j \in 1 .. Len(todo) : todo[j].op = "exec"
      BY <2>2 DEF DriverInv, NothingForgotten
    <3>2. j # 1
      BY <1>1, <3>1
    <3>3. j - 1 \in 1 .. Len(Tail(todo)) /\ Tail(todo)[j - 1] = todo[j]
      BY <1>1, <3>2
    <3> QED BY <3>1, <3>3
  <2> QED BY <1>5, <2>1, <2>2
<1> QED BY <1>6, <1>7, <1>8 DEF DriverInv

\* An execution is the last step of its list that anybody waits for.
LEMMA ExecStepKeeps == ASSUME DriverInv, ExecStep PROVE DriverInv'
<1>1. /\ todo \in Seq(Step) /\ todo # << >> /\ Executes(todo) /\ ExecuteOneCmd
      /\ todo' = Tail(todo)
      /\ UNCHANGED << rxBuf, gFss, threshold, readBuf, tasks, lost, sets, latched,
                      armed, ths, sensed, fails >>
  BY DEF ExecStep, DriverInv, TypeOK
<1>2. /\ cmdBuf' \in Queue /\ accState' \in {"IDLE", "WAIT_FOR_DATA"}
      /\ txBuf' \in Command /\ wire' \in Command /\ undefined' \in BOOLEAN
      /\ bus' \in {"idle", "busy", "done"}
      /\ OneTransfer' /\ WaitIsFounded' /\ NothingForgotten'
  BY <1>1, ExecuteOneCmdEffect
<1>3. Tail(todo) \in Seq(Step) /\ Executes(Tail(todo))
  BY <1>1, RestOfList
<1>4. TypeOK'
  BY <1>1, <1>2, <1>3 DEF DriverInv, TypeOK, Queue
<1> QED BY <1>1, <1>2, <1>3, <1>4 DEF DriverInv, Executes

\* hpf_task's store to g_fss disturbs nothing the invariant speaks of.
LEMMA FssStepKeeps == ASSUME DriverInv, FssStep PROVE DriverInv'
<1>1. /\ todo \in Seq(Step) /\ todo # << >> /\ Head(todo).op = "fss" /\ Executes(todo)
      /\ todo' = Tail(todo) /\ gFss' = 1
      /\ UNCHANGED << cmdBuf, accState, txBuf, rxBuf, threshold, readBuf, tasks, undefined,
                      lost, sets, bus, wire, latched, armed, ths, sensed, fails >>
  BY DEF FssStep, DriverInv, TypeOK, deviceVars
<1>2. Tail(todo) \in Seq(Step) /\ Executes(Tail(todo))
  BY <1>1, RestOfList
<1>3. TypeOK'
  BY <1>1, <1>2 DEF DriverInv, TypeOK
<1>4. NothingForgotten'
  <2> SUFFICES ASSUME accState = "IDLE", NEW i \in 1 .. Len(cmdBuf), cmdBuf[i].reg # "OUT_X_L"
               PROVE  \E j \in 1 .. Len(Tail(todo)) : Tail(todo)[j].op = "exec"
    BY <1>1 DEF NothingForgotten
  <2>1. PICK j \in 1 .. Len(todo) : todo[j].op = "exec"
    BY DEF DriverInv, NothingForgotten
  <2>2. j # 1
    BY <1>1, <2>1
  <2>3. j - 1 \in 1 .. Len(Tail(todo)) /\ Tail(todo)[j - 1] = todo[j]
    BY <1>1, <2>2
  <2> QED BY <2>1, <2>3
<1> QED BY <1>1, <1>2, <1>3, <1>4 DEF DriverInv, OneTransfer, WaitIsFounded, Executes

\* The main loop takes up a new list only when it has finished the last one.
LEMMA NewListKeeps ==
  ASSUME DriverInv, todo = << >>, NEW steps \in Seq(Step), Executes(steps), todo' = steps,
         TypeOK', UNCHANGED << cmdBuf, accState, txBuf, undefined, deviceVars >>
  PROVE  DriverInv'
<1>1. OneTransfer' /\ WaitIsFounded' /\ Executes(todo)'
  BY DEF DriverInv, OneTransfer, WaitIsFounded, Executes, deviceVars
<1>2. NothingForgotten'
  BY DEF DriverInv, NothingForgotten
<1> QED BY <1>1, <1>2 DEF DriverInv

\* A task of the queue starts.
LEMMA RunTaskKeeps == ASSUME DriverInv, RunTask PROVE DriverInv'
<1> DEFINE t     == Head(tasks)
           steps == IF t.fn = "dio" THEN DioCallback(t.pin, latched[t.pin]) ELSE SrcTask(t.pin)
<1>1. t \in Task /\ Tail(tasks) \in Seq(Task) /\ Len(Tail(tasks)) <= TasksMax
  BY DriverAssumption DEF RunTask, DriverInv, TypeOK
<1>2. t.pin \in Pin /\ latched[t.pin] \in BOOLEAN
  BY <1>1 DEF Task, DriverInv, TypeOK
<1>3. steps \in Seq(Step) /\ Executes(steps)
  BY <1>2, TaskLists
<1>4. /\ todo = << >> /\ todo' = steps /\ tasks' = Tail(tasks)
      /\ UNCHANGED << cmdBuf, accState, txBuf, rxBuf, gFss, threshold, readBuf,
                      undefined, lost, sets, deviceVars >>
  BY DEF RunTask
<1>5. TypeOK'
  BY <1>1, <1>3, <1>4 DEF DriverInv, TypeOK, deviceVars
<1> QED BY <1>3, <1>4, <1>5, NewListKeeps

\* A client writes a threshold.
LEMMA SetThresholdKeeps ==
  ASSUME DriverInv, NEW p \in Pin, NEW t \in Thresholds, SetThreshold(p, t)
  PROVE  DriverInv'
<1> DEFINE steps == << Push(WriteReg(ThsReg[p], RegVal(t))), Exec >>
<1>1. t \in Nat
  BY DriverAssumption
<1>2. steps \in Seq(Step) /\ Executes(steps)
  BY <1>1, TaskLists
<1>3. /\ todo = << >> /\ todo' = steps /\ threshold' = [threshold EXCEPT ![p] = t]
      /\ sets < SetsMax /\ sets' = sets + 1
      /\ UNCHANGED << cmdBuf, accState, txBuf, rxBuf, gFss, readBuf, tasks, undefined,
                      lost, deviceVars >>
  BY DEF SetThreshold
<1>4. threshold' \in [Pin -> Nat] /\ sets' \in 0 .. SetsMax
  BY <1>1, <1>3, DriverAssumption DEF DriverInv, TypeOK
<1> HIDE DEF steps
<1>5. TypeOK'
  BY <1>2, <1>3, <1>4 DEF DriverInv, TypeOK, deviceVars
<1> QED BY <1>2, <1>3, <1>5, NewListKeeps

\* The sensor and the bus do not touch the driver's variables, but for the
\* byte a read delivers; a transfer ends with an interrupt or, failing, without.
LEMMA SensorKeeps == ASSUME DriverInv, Sensor PROVE DriverInv'
<1>1. ASSUME NEW p \in Pin, Motion(p) PROVE DriverInv'
  <2>1. TypeOK'
    BY <1>1 DEF Motion, driverVars, DriverInv, TypeOK
  <2> QED BY <1>1, <2>1 DEF Motion, driverVars, DriverInv, OneTransfer, WaitIsFounded,
                            Executes, NothingForgotten
<1>2. CASE Transfer
  <2>1. /\ bus = "busy" /\ bus' = "done"
        /\ UNCHANGED << cmdBuf, accState, txBuf, gFss, threshold, readBuf, tasks, todo,
                        undefined, lost, sets, wire, sensed, fails >>
    BY <1>2 DEF Transfer
  <2>2. /\ rxBuf' \in Nat /\ latched' \in [Pin -> BOOLEAN] /\ armed' \in [Pin -> BOOLEAN]
        /\ ths' \in [Pin -> Nat]
    <3>1. wire \in Command /\ wire.arg \in Nat
      BY DEF DriverInv, TypeOK, Command
    <3>2. \A x \in FifoLevels : x \in Nat
      BY DriverAssumption
    <3>3. /\ rxBuf \in Nat /\ latched \in [Pin -> BOOLEAN] /\ armed \in [Pin -> BOOLEAN]
          /\ ths \in [Pin -> Nat]
      BY DEF DriverInv, TypeOK
    <3>4. CASE \E p \in Pin : /\ rxBuf' = IF latched[p] THEN 1 ELSE 0
                             /\ latched' = [latched EXCEPT ![p] = FALSE]
                             /\ UNCHANGED << armed, ths >>
      BY <3>3, <3>4
    <3>5. CASE rxBuf' \in FifoLevels /\ UNCHANGED << latched, armed, ths >>
      BY <3>2, <3>3, <3>5
    <3>6. CASE \E p \in Pin : /\ ths' = [ths EXCEPT ![p] = wire.arg]
                             /\ UNCHANGED << rxBuf, latched, armed >>
      BY <3>1, <3>3, <3>6
    <3>7. CASE \E p \in Pin : /\ armed' = [armed EXCEPT ![p] = TRUE]
                             /\ UNCHANGED << rxBuf, latched, ths >>
      BY <3>3, <3>7
    <3>8. CASE rxBuf' = 0 /\ UNCHANGED << latched, armed, ths >>
      BY <3>3, <3>8
    <3> QED BY <1>2, <3>4, <3>5, <3>6, <3>7, <3>8 DEF Transfer
  <2>3. TypeOK'
    BY <2>1, <2>2 DEF DriverInv, TypeOK
  <2> QED BY <2>1, <2>3 DEF DriverInv, OneTransfer, WaitIsFounded, Executes, NothingForgotten
<1>3. CASE TransferFails
  <2>1. /\ bus = "busy" /\ bus' = "idle" /\ fails < FailsMax /\ fails' = fails + 1
        /\ UNCHANGED << cmdBuf, accState, txBuf, rxBuf, gFss, threshold, readBuf, tasks, todo,
                        undefined, lost, sets, wire, latched, armed, ths, sensed >>
    BY <1>3 DEF TransferFails, driverVars
  <2>2. TypeOK' /\ fails' > 0
    BY <2>1, DriverAssumption DEF DriverInv, TypeOK
  <2> QED BY <2>1, <2>2 DEF DriverInv, OneTransfer, WaitIsFounded, Executes, NothingForgotten
<1> QED BY <1>1, <1>2, <1>3 DEF Sensor

-----------------------------------------------------------------------------
(***************************************************************************)
(* The theorems.                                                           *)
(***************************************************************************)
\* Both the start-up and the driver at rest satisfy the invariant.
LEMMA InitHolds == (Init \/ InitAtRest) => DriverInv
<1>1. << >> \in Seq(Step) /\ Executes(<< >>)
  BY DEF Executes
<1>2. \A p \in Pin : RegVal(BootThreshold[p]) \in Nat
  BY DriverAssumption, RegValType
<1> DEFINE off == [p \in Pin |-> FALSE]
<1>3. /\ << >> \in Seq(Command) /\ Len(<< >>) <= CommandsMax
      /\ << >> \in Seq(Task) /\ Len(<< >>) <= TasksMax
      /\ [len |-> 0, full |-> FALSE] \in [len : 0 .. SamplesMax, full : BOOLEAN]
      /\ 0 \in 0 .. SetsMax /\ 0 \in 0 .. FailsMax
      /\ off \in [Pin -> BOOLEAN] /\ [p \in Pin |-> 0] \in [Pin -> Nat]
      /\ BootThreshold \in [Pin -> Nat]
  BY DriverAssumption
<1>4. ASSUME Init PROVE DriverInv
  <2>1. TypeOK
    BY <1>4, <1>3, StartUpList, CommandTypes DEF Init, TypeOK
  <2> QED BY <1>4, <2>1, StartUpList
          DEF Init, DriverInv, OneTransfer, WaitIsFounded, NothingForgotten
<1>5. ASSUME InitAtRest PROVE DriverInv
  <2>1. ths \in [Pin -> Nat]
    BY <1>2, <1>5 DEF InitAtRest
  <2>2. TypeOK
    <3>1. [p \in Pin |-> TRUE] \in [Pin -> BOOLEAN]
      OBVIOUS
    <3> QED BY <1>1, <1>5, <1>3, <2>1, <3>1, CommandTypes DEF InitAtRest, TypeOK
  <2> QED BY <1>1, <1>5, <2>2
          DEF InitAtRest, DriverInv, OneTransfer, WaitIsFounded, NothingForgotten
<1> QED BY <1>4, <1>5

\* Every step of the driver, its interrupts and its sensor keeps it.
LEMMA StepKeeps == DriverInv /\ [Next]_vars => DriverInv'
<1> SUFFICES ASSUME DriverInv, [Next]_vars PROVE DriverInv'
  OBVIOUS
<1>1. CASE Main
  BY <1>1, PushStepKeeps, ExecStepKeeps, FssStepKeeps, RunTaskKeeps, SetThresholdKeeps DEF Main
<1>2. CASE Isr
  BY <1>2, TwiIsrKeeps, GpioIsrKeeps DEF Isr
<1>3. CASE Sensor
  BY <1>3, SensorKeeps
<1>4. CASE UNCHANGED vars
  BY <1>4 DEF vars, driverVars, deviceVars, DriverInv, TypeOK, OneTransfer, WaitIsFounded,
              Executes, NothingForgotten
<1> QED BY <1>1, <1>2, <1>3, <1>4 DEF Next

\* The invariant is one of the start-up and of the driver at rest.
THEOREM Invariance == Spec \/ AtRestSpec => []DriverInv
<1>1. Init \/ InitAtRest => DriverInv
  BY InitHolds
<1>2. DriverInv /\ [Next]_vars => DriverInv'
  BY StepKeeps
<1> QED BY <1>1, <1>2, PTL DEF Spec, AtRestSpec

\* The variables stay in their types: neither the command queue nor the task
\* queue nor g_read_buf ever holds more than its size.
THEOREM TypeCorrect == Spec \/ AtRestSpec => []TypeOK
<1>1. DriverInv => TypeOK
  BY DEF DriverInv
<1> QED BY <1>1, Invariance, PTL

\* event_handler decodes every reply as the answer to the command that was
\* sent, whatever the main loop and the other interrupts do meanwhile.
THEOREM RepliesMatch == Spec \/ AtRestSpec => []ReplyMatchesRequest
<1>1. DriverInv => ReplyMatchesRequest
  BY DEF DriverInv, OneTransfer, ReplyMatchesRequest
<1> QED BY <1>1, Invariance, PTL

\* The driver waits only for a transfer that is under way, but after a failure.
THEOREM WaitingIsFounded == Spec \/ AtRestSpec => []WaitsForTransfer
<1>1. DriverInv => WaitsForTransfer
  BY DEF DriverInv, WaitIsFounded, WaitsForTransfer
<1> QED BY <1>1, Invariance, PTL

\* No register write and no status read is left in the queue of an idle driver.
THEOREM NothingStranded == Spec \/ AtRestSpec => []NoStrandedCommand
<1>1. DriverInv => NoStrandedCommand
  BY DEF DriverInv, NothingForgotten, NoStrandedCommand
<1> QED BY <1>1, Invariance, PTL

-----------------------------------------------------------------------------
(***************************************************************************)
(* The driver implements the command pipe.                                 *)
(***************************************************************************)
PipeOf == (IF bus = "busy" THEN << wire >> ELSE << >>) \o cmdBuf

\* Appending a command to a sequence submits it.
LEMMA AppendSubmits ==
  ASSUME NEW s \in Seq(Command), NEW c \in Command
  PROVE  /\ Len(Append(s, c)) = Len(s) + 1
         /\ Append(s, c)[Len(Append(s, c))] \in Command
         /\ SubSeq(Append(s, c), 1, Len(s)) = s
OBVIOUS

\* What the driver has accepted, read off its state.
LEMMA PipeContents ==
  ASSUME TypeOK
  PROVE  /\ PipeOf \in Seq(Command)
         /\ bus # "busy" => PipeOf = cmdBuf
         /\ bus = "busy" => /\ PipeOf # << >> /\ Tail(PipeOf) = cmdBuf
                            /\ Len(PipeOf) = Len(cmdBuf) + 1
<1>1. cmdBuf \in Seq(Command) /\ wire \in Command
  BY DEF TypeOK
<1>2. CASE bus = "busy"
  <2>1. PipeOf = << wire >> \o cmdBuf
    BY <1>2 DEF PipeOf
  <2> QED BY <1>1, <1>2, <2>1
<1>3. CASE bus # "busy"
  <2>1. PipeOf = << >> \o cmdBuf
    BY <1>3 DEF PipeOf
  <2> QED BY <1>1, <1>3, <2>1
<1> QED BY <1>2, <1>3

\* Taking the oldest command of buf to the free bus leaves buf in the pipe, or
\* collapses a full one.
LEMMA ExecuteOldestPipe ==
  ASSUME NEW buf \in Queue, buf # << >>, ExecuteOldest(buf, TRUE), bus # "busy"
  PROVE  \/ PipeOf' = buf /\ undefined' = undefined
         \/ Full(buf) /\ PipeOf' = << >> /\ undefined' = TRUE
<1>1. CASE Full(buf) /\ cmdBuf' = << >> /\ undefined' = TRUE /\ UNCHANGED << txBuf, bus, wire >>
  BY <1>1 DEF PipeOf
<1>2. CASE /\ ~Full(buf) /\ cmdBuf' = Tail(buf) /\ bus' = "busy" /\ wire' = Head(buf)
           /\ UNCHANGED undefined
  <2>1. PipeOf' = << Head(buf) >> \o Tail(buf)
    BY <1>2 DEF PipeOf
  <2>2. << Head(buf) >> \o Tail(buf) = buf
    BY DEF Queue
  <2> QED BY <1>2, <2>1, <2>2
<1> QED BY <1>1, <1>2 DEF ExecuteOldest

\* A step that appends one command to the pipe, leaves it alone, or empties it
\* when at most one place is free, is a step of the command pipe.
LEMMA PipeSteps ==
  ASSUME TypeOK, ~undefined,
         \/ PipeOf' = PipeOf /\ undefined' = undefined
         \/ undefined' = undefined /\ \E c \in Command : PipeOf' = Append(PipeOf, c)
         \/ PipeOf # << >> /\ PipeOf' = Tail(PipeOf) /\ undefined' = undefined
         \/ CommandsMax <= Len(PipeOf) + 1 /\ PipeOf' = << >> /\ undefined' = TRUE
  PROVE  [Pipe!Next]_(Pipe!pipeVars)
<1>1. PipeOf \in Seq(Command)
  BY PipeContents
<1>2. CASE PipeOf' = PipeOf /\ undefined' = undefined
  BY <1>2 DEF Pipe!pipeVars, PipeOf
<1>3. CASE undefined' = undefined /\ \E c \in Command : PipeOf' = Append(PipeOf, c)
  <2>1. /\ Len(PipeOf') = Len(PipeOf) + 1
        /\ PipeOf'[Len(PipeOf')] \in Command
        /\ SubSeq(PipeOf', 1, Len(PipeOf)) = PipeOf
    BY <1>1, <1>3, AppendSubmits
  <2>2. Pipe!Submit
    BY <1>3, <2>1, Zenon DEF Pipe!Submit, PipeOf
  <2> QED BY <2>2 DEF Pipe!Next
<1>4. CASE PipeOf # << >> /\ PipeOf' = Tail(PipeOf) /\ undefined' = undefined
  <2>1. Pipe!Serve
    BY <1>4, Zenon DEF Pipe!Serve, PipeOf
  <2> QED BY <2>1 DEF Pipe!Next
<1>5. CASE CommandsMax <= Len(PipeOf) + 1 /\ PipeOf' = << >> /\ undefined' = TRUE
  <2>1. Pipe!Collapse
    BY <1>5, Zenon DEF Pipe!Collapse, PipeOf
  <2> QED BY <2>1 DEF Pipe!Next
<1> QED BY <1>2, <1>3, <1>4, <1>5

\* Every step of the driver is one of the command pipe, or changes nothing there.
LEMMA NextIsPipeStep == DriverInv /\ [Next]_vars => [Pipe!Next]_(Pipe!pipeVars)
<1> SUFFICES ASSUME DriverInv, [Next]_vars
             PROVE  [Pipe!Next]_(Pipe!pipeVars)
  OBVIOUS
<1>1. TypeOK /\ OneTransfer /\ cmdBuf \in Queue
  BY DEF DriverInv, TypeOK, Queue
<1>2. CASE UNCHANGED << cmdBuf, bus, wire, undefined >>
  BY <1>2, <1>1 DEF Pipe!pipeVars
<1>3. ASSUME ~undefined, TwiIsr PROVE [Pipe!Next]_(Pipe!pipeVars)
  <2>1. bus = "done" /\ PipeOf = cmdBuf
    BY <1>1, <1>3, PipeContents DEF TwiIsr
  <2>2. PICK buf : /\ ExecuteOneCmdForce(buf)
                   /\ \/ buf = cmdBuf
                      \/ \E c \in Command : buf = Pushed(cmdBuf, c)
    <3>1. CASE FifoSrcDone
      <4>1. ReadReg("OUT_X_L", rxBuf) \in Command
        BY <1>1, CommandTypes DEF Register, TypeOK
      <4> QED BY <3>1, <4>1 DEF FifoSrcDone
    <3>2. ASSUME NEW p \in Pin, IntSrcDone(p) PROVE ExecuteOneCmdForce(cmdBuf)
      BY <3>2 DEF IntSrcDone
    <3>3. CASE SamplesDone
      BY <3>3 DEF SamplesDone
    <3>4. CASE OtherDone
      BY <3>4 DEF OtherDone
    <3> QED BY <1>3, <3>1, <3>2, <3>3, <3>4 DEF TwiIsr
  <2>3. /\ buf \in Queue
        /\ buf = cmdBuf \/ \E c \in Command : buf = Append(cmdBuf, c)
    <3>1. CASE buf = cmdBuf
      BY <1>1, <3>1
    <3>2. CASE \E c \in Command : buf = Pushed(cmdBuf, c)
      BY <1>1, <3>2, PushKeepsQueue DEF Pushed
    <3> QED BY <2>2, <3>1, <3>2
  <2>4. CASE buf # << >> /\ ExecuteOldest(buf, TRUE)
    <3>1. \/ PipeOf' = buf /\ undefined' = undefined
          \/ Full(buf) /\ PipeOf' = << >> /\ undefined' = TRUE
      BY <2>1, <2>3, <2>4, ExecuteOldestPipe
    <3>2. Len(buf) <= Len(PipeOf) + 1
      BY <1>1, <2>1, <2>3 DEF Queue
    <3>3. Full(buf) => CommandsMax <= Len(PipeOf) + 1
      BY <3>2 DEF Full
    <3> QED BY <1>1, <1>3, <2>1, <2>3, <3>1, <3>3, PipeSteps
  <2>5. CASE /\ buf = << >> /\ cmdBuf' = buf /\ bus' = "idle"
             /\ UNCHANGED << txBuf, wire, undefined >>
    <3>1. cmdBuf = << >>
      BY <1>1, <2>3, <2>5 DEF Queue
    <3>2. PipeOf' = << >> /\ PipeOf = << >>
      BY <2>1, <2>5, <3>1 DEF PipeOf
    <3> QED BY <1>1, <1>3, <2>5, <3>2, PipeSteps
  <2> QED BY <2>2, <2>4, <2>5 DEF ExecuteOneCmdForce
<1>4. ASSUME ~undefined, PushStep PROVE [Pipe!Next]_(Pipe!pipeVars)
  <2> DEFINE c == Head(todo).cmd
  <2>1. /\ c \in Command /\ cmdBuf' = Pushed(cmdBuf, c)
        /\ UNCHANGED << undefined, bus, wire >>
    <3>1. Head(todo) \in Step
      BY <1>1, <1>4 DEF PushStep, TypeOK
    <3>2. c \in Command
      BY <3>1 DEF Step
    <3> QED BY <1>4, <3>2 DEF PushStep, deviceVars
  <2> HIDE DEF c
  <2>2. CASE Full(cmdBuf)
    BY <2>1, <2>2 DEF Pushed, Pipe!pipeVars
  <2>3. CASE ~Full(cmdBuf)
    <3>1. PipeOf' = (IF bus = "busy" THEN << wire >> ELSE << >>) \o Append(cmdBuf, c)
      BY <2>1, <2>3 DEF Pushed, PipeOf
    <3>2. \A a \in Seq(Command) : a \o Append(cmdBuf, c) = Append(a \o cmdBuf, c)
      BY <1>1, <2>1 DEF Queue
    <3>3. (IF bus = "busy" THEN << wire >> ELSE << >>) \in Seq(Command)
      BY <1>1 DEF TypeOK
    <3>4. PipeOf' = Append(PipeOf, c)
      BY <3>1, <3>2, <3>3, Zenon DEF PipeOf
    <3> QED BY <1>1, <1>4, <2>1, <3>4, PipeSteps
  <2> QED BY <2>2, <2>3
<1>5. ASSUME ~undefined, ExecStep PROVE [Pipe!Next]_(Pipe!pipeVars)
  <2>1. CASE accState = "IDLE" /\ cmdBuf # << >>
    <3>1. bus = "idle" /\ PipeOf = cmdBuf
      BY <1>1, <2>1, PipeContents DEF OneTransfer
    <3>2. ExecuteOldest(cmdBuf, TRUE)
      BY <1>5, <2>1, <3>1 DEF ExecStep, ExecuteOneCmd
    <3>3. \/ PipeOf' = cmdBuf /\ undefined' = undefined
          \/ Full(cmdBuf) /\ PipeOf' = << >> /\ undefined' = TRUE
      BY <1>1, <2>1, <3>1, <3>2, ExecuteOldestPipe
    <3>4. Full(cmdBuf) => CommandsMax <= Len(PipeOf) + 1
      BY <3>1, DriverAssumption DEF Full
    <3> QED BY <1>1, <1>5, <3>1, <3>3, <3>4, PipeSteps
  <2>2. CASE ~(accState = "IDLE" /\ cmdBuf # << >>)
    BY <1>2, <1>5, <2>2 DEF ExecStep, ExecuteOneCmd
  <2> QED BY <2>1, <2>2
<1>6. ASSUME ~undefined, Transfer \/ TransferFails PROVE [Pipe!Next]_(Pipe!pipeVars)
  <2>1. bus = "busy" /\ bus' # "busy" /\ UNCHANGED << cmdBuf, undefined >>
    BY <1>6 DEF Transfer, TransferFails, driverVars
  <2>2. PipeOf # << >> /\ Tail(PipeOf) = cmdBuf
    BY <1>1, <2>1, PipeContents
  <2>3. PipeOf' = Tail(PipeOf)
    <3>1. PipeOf' = << >> \o cmdBuf
      BY <2>1 DEF PipeOf
    <3> QED BY <1>1, <2>2, <3>1 DEF Queue
  <2> QED BY <1>1, <1>6, <2>1, <2>2, <2>3, PipeSteps
<1>7. ASSUME \/ FssStep \/ RunTask \/ \E p \in Pin, t \in Thresholds : SetThreshold(p, t)
             \/ \E p \in Pin : GpioIsr(p) \/ Motion(p)
             \/ UNCHANGED vars
      PROVE  [Pipe!Next]_(Pipe!pipeVars)
  <2>1. UNCHANGED << cmdBuf, bus, wire, undefined >>
    BY <1>7 DEF FssStep, RunTask, SetThreshold, GpioIsr, Motion, vars, driverVars, deviceVars
  <2> QED BY <1>2, <2>1
<1> QED BY <1>3, <1>4, <1>5, <1>6, <1>7 DEF Next, Main, Isr, Sensor

\* The driver serves register commands in the order in which it accepted them,
\* none twice and none skipped, until a full queue is read: it implements the
\* command pipe for every capacity and every bound.
THEOREM ImplementsPipe == Spec \/ AtRestSpec => PipeSpec
<1>1. Init \/ InitAtRest => Pipe!Init
  <2> SUFFICES ASSUME Init \/ InitAtRest PROVE Pipe!Init
    OBVIOUS
  <2>1. bus = "idle" /\ cmdBuf = << >> /\ undefined = FALSE
    BY DEF Init, InitAtRest
  <2>2. (IF bus = "busy" THEN << wire >> ELSE << >>) = << >>
    BY <2>1
  <2>3. (IF bus = "busy" THEN << wire >> ELSE << >>) \o cmdBuf = << >>
    BY <2>1, <2>2, ConcatEmptySeq, EmptySeq, Zenon
  <2> QED BY <2>1, <2>3, Zenon DEF Pipe!Init
<1>2. DriverInv /\ [Next]_vars => [Pipe!Next]_(Pipe!pipeVars)
  BY NextIsPipeStep
<1> QED BY <1>1, <1>2, Invariance, PTL DEF Spec, AtRestSpec, PipeSpec, Pipe!Spec

-----------------------------------------------------------------------------
(***************************************************************************)
(* Lists of commands.                                                      *)
(***************************************************************************)
\* No command of the list is about a register.
Without(s, r) == \A i \in 1 .. Len(s) : s[i].reg # r

\* A command about register a comes before all those about register b.
Before(s, a, b) == \E i \in 1 .. Len(s) : s[i].reg = a /\ \A j \in 1 .. i : s[j].reg # b

\* A register that holds the value d holds v after the list.
LeavesWith(s, r, v, d) ==
  \/ Without(s, r) /\ v = d
  \/ \E i \in 1 .. Len(s) : /\ s[i].reg = r /\ s[i].arg = v
                            /\ \A j \in i + 1 .. Len(s) : s[j].reg # r

Over(c, r, d) == IF c.reg = r THEN c.arg ELSE d

\* A command at the end of a list has the last word.
LEMMA AppendedCommand ==
  ASSUME NEW s \in Seq(Command), NEW c \in Command
  PROVE  /\ \A r : Without(s, r) /\ c.reg # r => Without(Append(s, c), r)
         /\ \A a, b : Before(s, a, b) => Before(Append(s, c), a, b)
         /\ \A a, b : Without(s, b) /\ c.reg = a /\ a # b => Before(Append(s, c), a, b)
         /\ \A r, v, d : LeavesWith(s, r, v, d) =>
                           LeavesWith(Append(s, c), r, Over(c, r, v), d)
<1> DEFINE t == Append(s, c)
<1>1. /\ Len(s) \in Nat /\ Len(t) = Len(s) + 1 /\ t[Len(s) + 1] = c
      /\ \A i \in 1 .. Len(s) : t[i] = s[i]
      /\ \A i \in 1 .. Len(t) : i \in 1 .. Len(s) \/ i = Len(s) + 1
  OBVIOUS
<1> HIDE DEF t
<1>2. \A r : Without(s, r) /\ c.reg # r => Without(t, r)
  BY <1>1 DEF Without
<1>3. ASSUME NEW a, NEW b, Before(s, a, b) PROVE Before(t, a, b)
  <2>1. PICK i \in 1 .. Len(s) : s[i].reg = a /\ \A j \in 1 .. i : s[j].reg # b
    BY <1>3 DEF Before
  <2>2. i \in 1 .. Len(t) /\ t[i].reg = a /\ \A j \in 1 .. i : t[j].reg # b
    BY <1>1, <2>1
  <2> QED BY <2>2 DEF Before
<1>4. ASSUME NEW a, NEW b, Without(s, b), c.reg = a, a # b PROVE Before(t, a, b)
  <2>1. Len(s) + 1 \in 1 .. Len(t) /\ \A j \in 1 .. Len(s) + 1 : t[j].reg # b
    BY <1>1, <1>4 DEF Without
  <2> QED BY <1>1, <1>4, <2>1 DEF Before
<1>5. ASSUME NEW r, NEW v, NEW d, LeavesWith(s, r, v, d)
      PROVE  LeavesWith(t, r, Over(c, r, v), d)
  <2>1. CASE c.reg = r
    <3>1. /\ Len(s) + 1 \in 1 .. Len(t) /\ t[Len(s) + 1].arg = Over(c, r, v)
          /\ \A j \in (Len(s) + 1) + 1 .. Len(t) : t[j].reg # r
      BY <1>1, <2>1 DEF Over
    <3> QED BY <1>1, <2>1, <3>1 DEF LeavesWith
  <2>2. CASE c.reg # r /\ Without(s, r) /\ v = d
    BY <1>2, <2>2 DEF LeavesWith, Over
  <2>3. CASE c.reg # r /\ ~(Without(s, r) /\ v = d)
    <3>1. PICK i \in 1 .. Len(s) : /\ s[i].reg = r /\ s[i].arg = v
                                   /\ \A j \in i + 1 .. Len(s) : s[j].reg # r
      BY <1>5, <2>3 DEF LeavesWith
    <3>2. /\ i \in 1 .. Len(t) /\ t[i].reg = r /\ t[i].arg = Over(c, r, v)
          /\ \A j \in i + 1 .. Len(t) : t[j].reg # r
      BY <1>1, <2>3, <3>1 DEF Over
    <3> QED BY <3>2 DEF LeavesWith
  <2> QED BY <2>1, <2>2, <2>3
<1> QED BY <1>2, <1>3, <1>4, <1>5 DEF t

\* The first command of a list takes effect.
LEMMA FirstCommand ==
  ASSUME NEW s \in Seq(Command), s # << >>
  PROVE  /\ \A r : Without(s, r) => Without(Tail(s), r)
         /\ \A a, b : Before(s, a, b) /\ a # b => Head(s).reg # b
         /\ \A a, b : Before(s, a, b) /\ Head(s).reg # a => Before(Tail(s), a, b)
         /\ \A r, v, d : LeavesWith(s, r, v, d) =>
                           LeavesWith(Tail(s), r, v, Over(Head(s), r, d))
<1> DEFINE t == Tail(s)
<1>1. /\ Len(s) \in Nat /\ Len(t) = Len(s) - 1 /\ Head(s) = s[1] /\ 1 \in 1 .. Len(s)
      /\ \A i \in 1 .. Len(s) : i = 1 \/ (i - 1 \in 1 .. Len(t) /\ t[i - 1] = s[i])
      /\ \A i \in 1 .. Len(t) : i + 1 \in 1 .. Len(s) /\ t[i] = s[i + 1]
  OBVIOUS
<1> HIDE DEF t
<1>2. \A r : Without(s, r) => Without(t, r)
  BY <1>1 DEF Without
<1>3. ASSUME NEW a, NEW b, Before(s, a, b), a # b PROVE Head(s).reg # b
  BY <1>1, <1>3 DEF Before
<1>4. ASSUME NEW a, NEW b, Before(s, a, b), Head(s).reg # a PROVE Before(t, a, b)
  <2>1. PICK i \in 1 .. Len(s) : s[i].reg = a /\ \A j \in 1 .. i : s[j].reg # b
    BY <1>4 DEF Before
  <2>2. i # 1
    BY <1>1, <1>4, <2>1
  <2>3. i - 1 \in 1 .. Len(t) /\ t[i - 1].reg = a
    BY <1>1, <2>1, <2>2
  <2>4. ASSUME NEW j \in 1 .. i - 1 PROVE t[j].reg # b
    <3>1. j \in 1 .. Len(t) /\ j + 1 \in 1 .. i
      BY <1>1, <2>1, <2>3
    <3> QED BY <1>1, <2>1, <3>1
  <2> QED BY <2>3, <2>4 DEF Before
<1>5. ASSUME NEW r, NEW v, NEW d, LeavesWith(s, r, v, d)
      PROVE  LeavesWith(t, r, v, Over(Head(s), r, d))
  <2>1. CASE Without(s, r) /\ v = d
    BY <1>1, <1>2, <2>1 DEF LeavesWith, Over, Without
  <2>2. ASSUME NEW i \in 1 .. Len(s), s[i].reg = r, s[i].arg = v,
               \A j \in i + 1 .. Len(s) : s[j].reg # r
        PROVE  LeavesWith(t, r, v, Over(Head(s), r, d))
    <3>1. CASE i = 1
      <4>1. Without(t, r)
        <5>1. \A j \in 1 .. Len(t) : j + 1 \in i + 1 .. Len(s)
          BY <1>1, <3>1
        <5> QED BY <1>1, <2>2, <5>1 DEF Without
      <4> QED BY <1>1, <2>2, <3>1, <4>1 DEF LeavesWith, Over
    <3>2. CASE i # 1
      <4>1. i - 1 \in 1 .. Len(t) /\ t[i - 1].reg = r /\ t[i - 1].arg = v
        BY <1>1, <2>2, <3>2
      <4>2. \A j \in (i - 1) + 1 .. Len(t) : j \in 1 .. Len(t) /\ j + 1 \in i + 1 .. Len(s)
        BY <1>1, <4>1
      <4>3. \A j \in (i - 1) + 1 .. Len(t) : t[j].reg # r
        BY <1>1, <2>2, <4>2
      <4> QED BY <4>1, <4>3 DEF LeavesWith
    <3> QED BY <3>1, <3>2
  <2> QED BY <1>5, <2>1, <2>2 DEF LeavesWith
<1> QED BY <1>2, <1>3, <1>4, <1>5 DEF t

\* One list after the other.
LEMMA JoinedLists ==
  ASSUME NEW s \in Seq(Command), NEW t \in Seq(Command)
  PROVE  /\ s \o t \in Seq(Command)
         /\ \A r : Without(s, r) /\ Without(t, r) => Without(s \o t, r)
         /\ \A a, b : Before(s, a, b) => Before(s \o t, a, b)
         /\ \A a, b : Without(s, b) /\ Before(t, a, b) => Before(s \o t, a, b)
         /\ \A r, v, w, d : LeavesWith(s, r, w, d) /\ LeavesWith(t, r, v, w) =>
                              LeavesWith(s \o t, r, v, d)
<1> DEFINE u == s \o t
<1>1. /\ Len(s) \in Nat /\ Len(t) \in Nat /\ u \in Seq(Command)
      /\ Len(u) = Len(s) + Len(t)
      /\ \A i \in 1 .. Len(s) : u[i] = s[i]
      /\ \A i \in 1 .. Len(t) : u[Len(s) + i] = t[i]
  OBVIOUS
<1> HIDE DEF u
<1>2. \A i \in 1 .. Len(u) : i \in 1 .. Len(s) \/
                             (i - Len(s) \in 1 .. Len(t) /\ u[i] = t[i - Len(s)])
  <2> SUFFICES ASSUME NEW i \in 1 .. Len(u), i \notin 1 .. Len(s)
               PROVE  i - Len(s) \in 1 .. Len(t) /\ u[i] = t[i - Len(s)]
    OBVIOUS
  <2>1. i - Len(s) \in 1 .. Len(t) /\ Len(s) + (i - Len(s)) = i
    BY <1>1
  <2> QED BY <1>1, <2>1
<1>3. \A r : Without(s, r) /\ Without(t, r) => Without(u, r)
  BY <1>1, <1>2 DEF Without
<1>4. ASSUME NEW a, NEW b, Before(s, a, b) PROVE Before(u, a, b)
  <2>1. PICK i \in 1 .. Len(s) : s[i].reg = a /\ \A j \in 1 .. i : s[j].reg # b
    BY <1>4 DEF Before
  <2>2. i \in 1 .. Len(u) /\ \A j \in 1 .. i : j \in 1 .. Len(s)
    BY <1>1
  <2>3. u[i].reg = a /\ \A j \in 1 .. i : u[j].reg # b
    BY <1>1, <2>1, <2>2
  <2> QED BY <2>2, <2>3 DEF Before
<1>5. ASSUME NEW a, NEW b, Without(s, b), Before(t, a, b) PROVE Before(u, a, b)
  <2>1. PICK i \in 1 .. Len(t) : t[i].reg = a /\ \A j \in 1 .. i : t[j].reg # b
    BY <1>5 DEF Before
  <2>2. Len(s) + i \in 1 .. Len(u) /\ u[Len(s) + i].reg = a
    BY <1>1, <2>1
  <2>3. ASSUME NEW j \in 1 .. Len(s) + i PROVE u[j].reg # b
    <3>1. CASE j \in 1 .. Len(s)
      BY <1>1, <1>5, <3>1 DEF Without
    <3>2. CASE j \notin 1 .. Len(s)
      <4>1. j \in 1 .. Len(u) /\ j - Len(s) \in 1 .. i
        BY <1>1, <2>2, <3>2
      <4> QED BY <1>2, <2>1, <3>2, <4>1
    <3> QED BY <3>1, <3>2
  <2> QED BY <2>2, <2>3 DEF Before
<1>6. ASSUME NEW r, NEW v, NEW w, NEW d, LeavesWith(s, r, w, d), LeavesWith(t, r, v, w)
      PROVE  LeavesWith(u, r, v, d)
  <2>1. ASSUME NEW i \in 1 .. Len(t), t[i].reg = r, t[i].arg = v,
               \A j \in i + 1 .. Len(t) : t[j].reg # r
        PROVE  LeavesWith(u, r, v, d)
    <3>1. Len(s) + i \in 1 .. Len(u) /\ u[Len(s) + i].reg = r /\ u[Len(s) + i].arg = v
      BY <1>1, <2>1
    <3>2. \A j \in (Len(s) + i) + 1 .. Len(u) : /\ j \in 1 .. Len(u) /\ j \notin 1 .. Len(s)
                                                /\ j - Len(s) \in i + 1 .. Len(t)
      BY <1>1, <3>1
    <3>3. \A j \in (Len(s) + i) + 1 .. Len(u) : u[j].reg # r
      BY <1>2, <2>1, <3>2
    <3> QED BY <3>1, <3>3 DEF LeavesWith
  <2>2. ASSUME Without(t, r), v = w,
               NEW i \in 1 .. Len(s), s[i].reg = r, s[i].arg = w,
               \A j \in i + 1 .. Len(s) : s[j].reg # r
        PROVE  LeavesWith(u, r, v, d)
    <3>1. i \in 1 .. Len(u) /\ u[i].reg = r /\ u[i].arg = v
      BY <1>1, <2>2
    <3>2. ASSUME NEW j \in i + 1 .. Len(u) PROVE u[j].reg # r
      <4>1. CASE j \in 1 .. Len(s)
        BY <1>1, <2>2, <4>1
      <4>2. CASE j \notin 1 .. Len(s)
        <5>1. j \in 1 .. Len(u)
          BY <1>1, <3>1
        <5> QED BY <1>2, <2>2, <4>2, <5>1 DEF Without
      <4> QED BY <4>1, <4>2
    <3> QED BY <3>1, <3>2 DEF LeavesWith
  <2>3. CASE Without(t, r) /\ v = w /\ Without(s, r) /\ w = d
    BY <1>3, <2>3 DEF LeavesWith
  <2> QED BY <1>6, <2>1, <2>2, <2>3 DEF LeavesWith
<1> QED BY <1>1, <1>3, <1>4, <1>5, <1>6 DEF u

\* The value is the one of the last write.
LEMMA LastWriteWins ==
  ASSUME NEW s \in Seq(Command), NEW r, NEW v, NEW d, LeavesWith(s, r, v, d)
  PROVE  LET writes == {i \in 1 .. Len(s) : s[i].reg = r}
         IN  v = IF writes = {} THEN d
                 ELSE s[CHOOSE i \in writes : \A j \in writes : j <= i].arg
<1> DEFINE writes == {i \in 1 .. Len(s) : s[i].reg = r}
           Last(i) == \A j \in writes : j <= i
<1>1. CASE Without(s, r) /\ v = d
  BY <1>1 DEF Without
<1>2. ASSUME NEW i \in 1 .. Len(s), s[i].reg = r, s[i].arg = v,
             \A j \in i + 1 .. Len(s) : s[j].reg # r
      PROVE  v = IF writes = {} THEN d ELSE s[CHOOSE k \in writes : Last(k)].arg
  <2>1. i \in writes /\ Last(i)
    <3> SUFFICES ASSUME NEW j \in writes PROVE j <= i
      BY <1>2
    <3>1. j \in 1 .. Len(s) /\ j \notin i + 1 .. Len(s) /\ Len(s) \in Nat
      BY <1>2
    <3> QED BY <1>2, <3>1
  <2>2. (CHOOSE k \in writes : Last(k)) \in writes /\ Last(CHOOSE k \in writes : Last(k))
    BY <2>1
  <2>3. \A k \in writes : Last(k) => k = i
    <3> SUFFICES ASSUME NEW k \in writes, Last(k) PROVE k = i
      OBVIOUS
    <3>1. k <= i /\ i <= k /\ k \in Int /\ i \in Int
      BY <2>1
    <3> QED BY <3>1
  <2>4. (CHOOSE k \in writes : Last(k)) = i
    <3> HIDE DEF Last, writes
    <3> QED BY <2>2, <2>3
  <2>5. writes # {}
    BY <2>1
  <2> DEFINE last == CHOOSE k \in writes : Last(k)
  <2>6. last = i
    BY <2>4
  <2> HIDE DEF last, writes
  <2>7. v = IF writes = {} THEN d ELSE s[last].arg
    BY <1>2, <2>5, <2>6
  <2> QED BY <2>7 DEF last
<1> QED BY <1>1, <1>2 DEF LeavesWith

-----------------------------------------------------------------------------
(***************************************************************************)
(* The invariant of the node.                                              *)
(***************************************************************************)
\* The commands of a list of steps; a step that pushes none counts as one to
\* a register the driver does not react to.
Cmds(steps) == [i \in 1 .. Len(steps) |-> steps[i].cmd]

Listed(steps) == \A i \in 1 .. Len(steps) : steps[i].op # "push" => steps[i].cmd = ZeroCmd

\* Until the start-up list has been queued nothing is executed.
StartingUp == boot = "acc_init" /\ todo # << >>

Starting ==
  StartingUp => /\ accState = "IDLE"
                /\ \A i \in 1 .. Len(todo) - 1 : todo[i].op = "push"
                /\ todo[Len(todo)].op = "exec"

\* An interrupt is armed, or its configuration comes before the command that
\* ends the start-up list, or the list has overflowed and nothing of it will
\* ever be executed.
Coming(p) ==
  \/ Before(PipeOf, CfgReg[p], "REFERENCE")
  \/ StartingUp /\ Full(cmdBuf)
  \/ StartingUp /\ Without(PipeOf, "REFERENCE")
                /\ Before(Cmds(todo), CfgReg[p], "REFERENCE")

Arming == ~undefined /\ fails = 0 => \A p \in Pin : armed[p] \/ Coming(p)

\* What the sensor holds becomes w by what is queued, and what the driver says
\* by what the main loop still has to queue.
Agreed ==
  ~undefined /\ ~lost /\ fails = 0 =>
    \A p \in Pin : \E w \in Nat :
      /\ LeavesWith(PipeOf, ThsReg[p], w, ths[p])
      /\ LeavesWith(Cmds(todo), ThsReg[p], RegVal(threshold[p]), w)

LoopInv == DriverInv /\ Listed(todo) /\ Starting /\ Arming /\ Agreed

\* Between any two steps of winsens_init motion may start the scan timer or be
\* refused by it; once g_sensors_enabled is set only a timer that was never
\* created refuses, and that one winsens_init is about to start.
Scans ==
  /\ scanTimer = "running" => enabled /\ ~heard
  /\ boot \in {"enabled", "timer_created", "scan_started", "running"} => enabled
  /\ boot = "timer_created" => scanTimer # "unmade"
  /\ boot \in {"scan_started", "running"} => scanTimer = "running"
  /\ boot = "running" => probing

NodeInv ==
  /\ LoopInv
  /\ asleep => boot = "acc_init"
  /\ settled \in BOOLEAN /\ asleep \in BOOLEAN
  /\ settled /\ ~undefined /\ fails = 0 => \A p \in Pin : armed[p]
  /\ SleepsArmed
  /\ Scans

\* The commands of lists of steps are lists of commands.
LEMMA CmdsOfSteps ==
  ASSUME NEW s \in Seq(Step)
  PROVE  /\ Cmds(s) \in Seq(Command) /\ Len(Cmds(s)) = Len(s)
         /\ s # << >> => /\ Cmds(s) # << >> /\ Head(Cmds(s)) = Head(s).cmd
                         /\ Cmds(Tail(s)) = Tail(Cmds(s))
                         /\ Head(s) \in Step /\ Tail(s) \in Seq(Step)
         /\ \A t \in Seq(Step) : Cmds(s \o t) = Cmds(s) \o Cmds(t)
<1>0. \A c \in Step : c.cmd \in Command
  BY DEF Step
<1>1. ASSUME NEW t \in Seq(Step)
      PROVE  Cmds(t) \in Seq(Command) /\ Len(Cmds(t)) = Len(t)
             /\ \A i \in 1 .. Len(t) : Cmds(t)[i] = t[i].cmd
  <2>1. Len(t) \in Nat /\ \A i \in 1 .. Len(t) : t[i].cmd \in Command
    BY <1>0
  <2> QED BY <2>1 DEF Cmds
<1>2. ASSUME s # << >>
      PROVE  /\ Cmds(s) # << >> /\ Head(Cmds(s)) = Head(s).cmd
             /\ Cmds(Tail(s)) = Tail(Cmds(s))
             /\ Head(s) \in Step /\ Tail(s) \in Seq(Step)
  <2>1. /\ Head(s) \in Step /\ Tail(s) \in Seq(Step) /\ Head(s) = s[1]
        /\ Len(s) \in Nat \ {0} /\ Len(Tail(s)) = Len(s) - 1
        /\ \A i \in 1 .. Len(s) - 1 : Tail(s)[i] = s[i + 1]
    BY <1>2
  <2>2. Cmds(s) # << >> /\ Head(Cmds(s)) = Head(s).cmd
    BY <1>1, <2>1
  <2>3. /\ Tail(Cmds(s)) \in Seq(Command) /\ Len(Tail(Cmds(s))) = Len(s) - 1
        /\ \A i \in 1 .. Len(s) - 1 : Tail(Cmds(s))[i] = Cmds(s)[i + 1]
    BY <1>1, <2>1, <2>2
  <2>4. Cmds(Tail(s)) \in Seq(Command) /\ Len(Cmds(Tail(s))) = Len(s) - 1
        /\ \A i \in 1 .. Len(s) - 1 : Cmds(Tail(s))[i] = Tail(s)[i].cmd
    BY <1>1, <2>1
  <2>5. \A i \in 1 .. Len(s) - 1 : Tail(Cmds(s))[i] = Cmds(Tail(s))[i]
    BY <1>1, <2>1, <2>3, <2>4
  <2>6. Cmds(Tail(s)) = Tail(Cmds(s))
    BY <2>3, <2>4, <2>5, SeqEqual
  <2> QED BY <2>1, <2>2, <2>6
<1>3. ASSUME NEW t \in Seq(Step) PROVE Cmds(s \o t) = Cmds(s) \o Cmds(t)
  <2> DEFINE u == s \o t
             v == Cmds(s) \o Cmds(t)
  <2>1. /\ u \in Seq(Step) /\ Len(u) = Len(s) + Len(t)
        /\ \A i \in 1 .. Len(s) + Len(t) :
             u[i] = IF i <= Len(s) THEN s[i] ELSE t[i - Len(s)]
    BY ConcatProperties
  <2>2. /\ v \in Seq(Command) /\ Len(v) = Len(s) + Len(t)
        /\ \A i \in 1 .. Len(s) + Len(t) :
             v[i] = IF i <= Len(s) THEN Cmds(s)[i] ELSE Cmds(t)[i - Len(s)]
    <3>1. /\ Cmds(s) \in Seq(Command) /\ Cmds(t) \in Seq(Command)
          /\ Len(Cmds(s)) = Len(s) /\ Len(Cmds(t)) = Len(t)
      BY <1>1
    <3>2. /\ v \in Seq(Command) /\ Len(v) = Len(Cmds(s)) + Len(Cmds(t))
          /\ \A i \in 1 .. Len(Cmds(s)) + Len(Cmds(t)) :
               v[i] = IF i <= Len(Cmds(s)) THEN Cmds(s)[i] ELSE Cmds(t)[i - Len(Cmds(s))]
      BY <3>1, ConcatProperties, Zenon
    <3> HIDE DEF v
    <3> QED BY <3>1, <3>2
  <2> HIDE DEF u, v
  <2>3. Cmds(u) \in Seq(Command) /\ Len(Cmds(u)) = Len(s) + Len(t)
        /\ \A i \in 1 .. Len(s) + Len(t) : Cmds(u)[i] = u[i].cmd
    BY <1>1, <2>1
  <2>4. ASSUME NEW i \in 1 .. Len(s) + Len(t) PROVE Cmds(u)[i] = v[i]
    <3>1. Len(s) \in Nat /\ Len(t) \in Nat
      OBVIOUS
    <3>2. CASE i <= Len(s)
      <4>1. i \in 1 .. Len(s)
        BY <3>1, <3>2
      <4> QED BY <1>1, <2>1, <2>2, <2>3, <3>2, <4>1
    <3>3. CASE ~(i <= Len(s))
      <4>1. i - Len(s) \in 1 .. Len(t)
        BY <3>1, <3>3
      <4> QED BY <1>1, <2>1, <2>2, <2>3, <3>3, <4>1
    <3> QED BY <3>2, <3>3
  <2>5. Cmds(u) = v
    BY <2>2, <2>3, <2>4, SeqEqual
  <2> QED BY <2>5 DEF u, v
<1> QED BY <1>1, <1>2, <1>3

\* The lists of the driver's functions: steps without a command, and the
\* registers of their commands.
LEMMA StepLists ==
  ASSUME NEW p \in Pin, NEW on \in BOOLEAN, NEW t \in Nat
  PROVE  /\ Listed(DioCallback(p, on)) /\ Listed(SrcTask(p))
         /\ Listed(<< Push(WriteReg(ThsReg[p], RegVal(t))), Exec >>)
         /\ \A q \in Pin : /\ Without(Cmds(DioCallback(p, on)), ThsReg[q])
                           /\ Without(Cmds(SrcTask(p)), ThsReg[q])
         /\ \A q \in Pin : \A d :
              LeavesWith(Cmds(<< Push(WriteReg(ThsReg[p], RegVal(t))), Exec >>), ThsReg[q],
                         IF q = p THEN RegVal(t) ELSE d, d)
<1>0. /\ \A q \in Pin : ThsReg[q] \in {"INT1_THS", "INT2_THS"}
      /\ \A q \in Pin : ThsReg[p] = ThsReg[q] => p = q
      /\ Exec.op = "exec" /\ Exec.cmd = ZeroCmd
      /\ ZeroCmd.reg = "OTHER"
  BY DEF ThsReg, Pin, Exec, ZeroCmd, WriteReg
<1>1. \/ DioCallback(p, on) = << >>
      \/ DioCallback(p, on) = << Push(ReadReg("FIFO_SRC", 1)), Push(ReadReg("INT1_SRC", 1)), Exec >>
      \/ DioCallback(p, on) = << Push(ReadReg("INT2_SRC", 1)), Exec >>
  BY DEF DioCallback, Pin
<1>2. Listed(DioCallback(p, on)) /\ \A q \in Pin : Without(Cmds(DioCallback(p, on)), ThsReg[q])
  <2>1. CASE DioCallback(p, on) = << >>
    BY <2>1 DEF Listed, Cmds, Without
  <2>2. CASE DioCallback(p, on)
               = << Push(ReadReg("FIFO_SRC", 1)), Push(ReadReg("INT1_SRC", 1)), Exec >>
    BY <1>0, <2>2 DEF Listed, Cmds, Without, Push, ReadReg
  <2>3. CASE DioCallback(p, on) = << Push(ReadReg("INT2_SRC", 1)), Exec >>
    BY <1>0, <2>3 DEF Listed, Cmds, Without, Push, ReadReg
  <2> QED BY <1>1, <2>1, <2>2, <2>3
<1>3. Listed(SrcTask(p)) /\ \A q \in Pin : Without(Cmds(SrcTask(p)), ThsReg[q])
  <2>1. CASE SrcTask(p) = << >>
    BY <2>1 DEF Listed, Cmds, Without
  <2>2. CASE SrcTask(p) = << OneSample, Push(ReadReg("OUT_X_L", 1)) >>
    <3> DEFINE a == Push(ReadReg("OUT_X_L", 1))
    <3>1. a.op = "push" /\ a.cmd.reg = "OUT_X_L" /\ OneSample.cmd = ZeroCmd
      BY DEF Push, ReadReg, OneSample
    <3> HIDE DEF a
    <3>2. /\ Len(SrcTask(p)) = 2 /\ SrcTask(p)[1] = OneSample /\ SrcTask(p)[2] = a
          /\ \A i \in 1 .. 2 : i = 1 \/ i = 2
      BY <2>2 DEF a
    <3> QED BY <1>0, <3>1, <3>2 DEF Listed, Cmds, Without
  <2> QED BY <2>1, <2>2 DEF SrcTask
<1> DEFINE steps == << Push(WriteReg(ThsReg[p], RegVal(t))), Exec >>
<1>4. /\ Len(steps) = 2 /\ steps[1].op = "push" /\ steps[2] = Exec
      /\ steps[1].cmd = WriteReg(ThsReg[p], RegVal(t))
  BY DEF Push
<1>5. /\ Len(Cmds(steps)) = 2
      /\ Cmds(steps)[1].reg = ThsReg[p] /\ Cmds(steps)[1].arg = RegVal(t)
      /\ Cmds(steps)[2].reg = "OTHER"
  <2> HIDE DEF steps
  <2> QED BY <1>0, <1>4 DEF Cmds, WriteReg
<1>6. Listed(steps)
  <2> HIDE DEF steps
  <2> QED BY <1>0, <1>4 DEF Listed
<1>7. ASSUME NEW q \in Pin, NEW d
      PROVE  LeavesWith(Cmds(steps), ThsReg[q], IF q = p THEN RegVal(t) ELSE d, d)
  <2> HIDE DEF steps
  <2>1. \A i \in 1 .. 2 : i = 1 \/ i = 2
    OBVIOUS
  <2>2. CASE q = p
    BY <1>0, <1>5, <2>1, <2>2 DEF LeavesWith
  <2>3. CASE q # p
    <3>1. Without(Cmds(steps), ThsReg[q])
      BY <1>0, <1>5, <2>1, <2>3 DEF Without
    <3> QED BY <2>3, <3>1 DEF LeavesWith
  <2> QED BY <2>2, <2>3
<1> QED BY <1>2, <1>3, <1>6, <1>7

\* The start-up list arms both interrupts before it ends, and leaves the
\* thresholds of the start-up in the sensor, whatever was there before.
LEMMA StartUpCommands ==
  /\ Lis3dhInit \in Seq(Step) /\ Lis3dhInit # << >> /\ Listed(Lis3dhInit)
  /\ \A i \in 1 .. Len(Lis3dhInit) - 1 : Lis3dhInit[i].op = "push"
  /\ Lis3dhInit[Len(Lis3dhInit)].op = "exec"
  /\ \A p \in Pin : Before(Cmds(Lis3dhInit), CfgReg[p], "REFERENCE")
  /\ \A p \in Pin : \A d :
       LeavesWith(Cmds(Lis3dhInit), ThsReg[p], RegVal(BootThreshold[p]), d)
<1> DEFINE other   == Push(ReadReg("OTHER", 1))
           written == Push(WriteReg("OTHER", 0))
           Irq(p)  == << Push(WriteReg(ThsReg[p], RegVal(BootThreshold[p]))),
                         Push(WriteReg(CfgReg[p], 0)), written >>
           config  == << other, other, written, written, written, written, written,
                         written, written >>
           status  == << Push(ReadReg("INT1_SRC", 1)), Push(ReadReg("INT2_SRC", 1)),
                         Push(ReadReg("FIFO_SRC", 1)), Push(ReadReg("REFERENCE", 1)), Exec >>
           Pushes(steps) == \A i \in 1 .. Len(steps) : steps[i].op = "push"
<1>1. other \in Step /\ written \in Step
      /\ other.op = "push" /\ written.op = "push"
      /\ other.cmd.reg = "OTHER" /\ written.cmd.reg = "OTHER"
  BY CommandTypes DEF Register, Push, ReadReg, WriteReg
<1>2. /\ "HPF" \in Pin /\ "FF" \in Pin /\ \A p \in Pin : p = "HPF" \/ p = "FF"
      /\ ThsReg["HPF"] = "INT1_THS" /\ ThsReg["FF"] = "INT2_THS"
      /\ CfgReg["HPF"] = "INT1_CFG" /\ CfgReg["FF"] = "INT2_CFG"
  BY DEF Pin, ThsReg, CfgReg
<1>3. config \in Seq(Step) /\ Pushes(config) /\ \A r : r # "OTHER" => Without(Cmds(config), r)
  <2> HIDE DEF other, written
  <2>1. /\ config \in Seq(Step) /\ Len(config) = 9
        /\ \A i \in 1 .. 9 : config[i] = other \/ config[i] = written
    BY <1>1
  <2> HIDE DEF config
  <2> QED BY <1>1, <2>1 DEF Cmds, Without
<1>4. ASSUME NEW p \in Pin
      PROVE  /\ Irq(p) \in Seq(Step) /\ Pushes(Irq(p))
             /\ Before(Cmds(Irq(p)), CfgReg[p], "REFERENCE")
             /\ Without(Cmds(Irq(p)), "REFERENCE")
             /\ \A d : LeavesWith(Cmds(Irq(p)), ThsReg[p], RegVal(BootThreshold[p]), d)
             /\ \A q \in Pin : q # p => Without(Cmds(Irq(p)), ThsReg[q])
  <2> DEFINE a == Push(WriteReg(ThsReg[p], RegVal(BootThreshold[p])))
             b == Push(WriteReg(CfgReg[p], 0))
  <2>1. BootThreshold[p] \in Nat
    BY DriverAssumption
  <2>2. a \in Step /\ b \in Step
    BY <2>1, RegValType, CommandTypes
  <2>3. /\ a.op = "push" /\ a.cmd.reg = ThsReg[p] /\ a.cmd.arg = RegVal(BootThreshold[p])
        /\ b.op = "push" /\ b.cmd.reg = CfgReg[p]
    BY DEF Push, WriteReg
  <2> HIDE DEF a, b, other, written
  <2>4. Irq(p) \in Seq(Step) /\ Len(Irq(p)) = 3
        /\ Irq(p)[1] = a /\ Irq(p)[2] = b /\ Irq(p)[3] = written
    BY <1>1, <2>2 DEF a, b
  <2> HIDE DEF Irq
  <2>5. /\ Len(Cmds(Irq(p))) = 3
        /\ Cmds(Irq(p))[1] = a.cmd /\ Cmds(Irq(p))[2] = b.cmd /\ Cmds(Irq(p))[3] = written.cmd
    BY <2>4 DEF Cmds
  <2>6. \A i \in 1 .. 3 : i = 1 \/ i = 2 \/ i = 3
    OBVIOUS
  <2>7. /\ ThsReg[p] \notin {"OTHER", "REFERENCE"} /\ CfgReg[p] \notin {"OTHER", "REFERENCE"}
        /\ \A q \in Pin : ThsReg[q] \notin {"OTHER", CfgReg[p]}
        /\ \A q \in Pin : q # p => ThsReg[q] # ThsReg[p]
    BY DEF Pin, ThsReg, CfgReg
  <2>8. Pushes(Irq(p))
    BY <1>1, <2>3, <2>4, <2>6
  <2>9. Without(Cmds(Irq(p)), "REFERENCE")
    BY <1>1, <2>3, <2>5, <2>6, <2>7 DEF Without
  <2>10. Before(Cmds(Irq(p)), CfgReg[p], "REFERENCE")
    <3>1. 2 \in 1 .. 3 /\ \A j \in 1 .. 2 : j \in 1 .. 3
      OBVIOUS
    <3> QED BY <2>3, <2>5, <2>9, <3>1 DEF Before, Without
  <2>11. ASSUME NEW d PROVE LeavesWith(Cmds(Irq(p)), ThsReg[p], RegVal(BootThreshold[p]), d)
    <3>1. 1 \in 1 .. 3 /\ \A j \in 1 + 1 .. 3 : j = 2 \/ j = 3
      OBVIOUS
    <3>2. \A j \in 1 + 1 .. 3 : Cmds(Irq(p))[j].reg # ThsReg[p]
      BY <1>1, <2>3, <2>5, <2>7, <3>1
    <3> QED BY <2>3, <2>5, <3>1, <3>2 DEF LeavesWith
  <2>12. \A q \in Pin : q # p => Without(Cmds(Irq(p)), ThsReg[q])
    BY <1>1, <2>3, <2>5, <2>6, <2>7 DEF Without
  <2> QED BY <2>4, <2>8, <2>9, <2>10, <2>11, <2>12
<1>5. /\ status \in Seq(Step) /\ Len(status) = 5 /\ status[5] = Exec
      /\ \A i \in 1 .. 4 : status[i].op = "push"
      /\ \A p \in Pin : Without(Cmds(status), ThsReg[p])
  <2>1. \A r \in Register : /\ Push(ReadReg(r, 1)) \in Step /\ Push(ReadReg(r, 1)).op = "push"
                            /\ Push(ReadReg(r, 1)).cmd.reg = r
    BY CommandTypes DEF Push, ReadReg
  <2> DEFINE a == Push(ReadReg("INT1_SRC", 1))
             b == Push(ReadReg("INT2_SRC", 1))
             c == Push(ReadReg("FIFO_SRC", 1))
             d == Push(ReadReg("REFERENCE", 1))
  <2>2. /\ a \in Step /\ a.op = "push" /\ a.cmd.reg = "INT1_SRC"
        /\ b \in Step /\ b.op = "push" /\ b.cmd.reg = "INT2_SRC"
        /\ c \in Step /\ c.op = "push" /\ c.cmd.reg = "FIFO_SRC"
        /\ d \in Step /\ d.op = "push" /\ d.cmd.reg = "REFERENCE"
    BY <2>1 DEF Register
  <2>3. Exec \in Step /\ Exec.cmd.reg = "OTHER"
    BY CommandTypes DEF Exec, ZeroCmd, WriteReg
  <2>4. \A p \in Pin : ThsReg[p] \in {"INT1_THS", "INT2_THS"}
    BY DEF Pin, ThsReg
  <2>5. status = << a, b, c, d, Exec >>
    OBVIOUS
  <2> HIDE DEF a, b, c, d, status
  <2>6. /\ status \in Seq(Step) /\ Len(status) = 5
        /\ status[1] = a /\ status[2] = b /\ status[3] = c /\ status[4] = d /\ status[5] = Exec
    BY <2>2, <2>3, <2>5
  <2>7. \A i \in 1 .. 5 : i = 1 \/ i = 2 \/ i = 3 \/ i = 4 \/ i = 5
    OBVIOUS
  <2>8. \A i \in 1 .. 4 : i = 1 \/ i = 2 \/ i = 3 \/ i = 4
    OBVIOUS
  <2>9. ASSUME NEW p \in Pin PROVE Without(Cmds(status), ThsReg[p])
    BY <2>2, <2>3, <2>4, <2>6, <2>7 DEF Cmds, Without
  <2> QED BY <2>2, <2>6, <2>8, <2>9
<1> DEFINE hpf   == config \o Irq("HPF")
           front == hpf \o Irq("FF")
<1>6. Lis3dhInit = front \o status
  BY DEF Lis3dhInit
<1> HIDE DEF other, written, Irq, config, status
<1>7. ASSUME NEW s \in Seq(Step), NEW t \in Seq(Step), Pushes(s), Pushes(t)
      PROVE  s \o t \in Seq(Step) /\ Pushes(s \o t)
  <2>1. /\ s \o t \in Seq(Step) /\ Len(s \o t) = Len(s) + Len(t)
        /\ \A i \in 1 .. Len(s) + Len(t) : (s \o t)[i] =
              IF i <= Len(s) THEN s[i] ELSE t[i - Len(s)]
    BY ConcatProperties
  <2>2. \A i \in 1 .. Len(s) + Len(t) : i \in 1 .. Len(s) \/ (~(i <= Len(s)) /\ i - Len(s) \in 1 .. Len(t))
    OBVIOUS
  <2>3. \A i \in 1 .. Len(s) : i <= Len(s)
    OBVIOUS
  <2> QED BY <1>7, <2>1, <2>2, <2>3
<1>8. /\ hpf \in Seq(Step) /\ Pushes(hpf)
      /\ front \in Seq(Step) /\ Pushes(front)
  <2>1. hpf \in Seq(Step) /\ Pushes(hpf)
    BY <1>2, <1>3, <1>4, <1>7
  <2> HIDE DEF hpf
  <2> QED BY <1>2, <1>4, <1>7, <2>1
<1>9. /\ Cmds(hpf) = Cmds(config) \o Cmds(Irq("HPF"))
      /\ Cmds(front) = Cmds(hpf) \o Cmds(Irq("FF"))
      /\ Cmds(Lis3dhInit) = Cmds(front) \o Cmds(status)
  <2>1. Cmds(hpf) = Cmds(config) \o Cmds(Irq("HPF"))
    BY <1>2, <1>3, <1>4, CmdsOfSteps
  <2>2. Cmds(front) = Cmds(hpf) \o Cmds(Irq("FF"))
    <3> HIDE DEF hpf
    <3> QED BY <1>2, <1>4, <1>8, CmdsOfSteps
  <2>3. Cmds(Lis3dhInit) = Cmds(front) \o Cmds(status)
    <3> HIDE DEF hpf, front
    <3> QED BY <1>5, <1>6, <1>8, CmdsOfSteps
  <2> QED BY <2>1, <2>2, <2>3
<1> HIDE DEF hpf, front
<1>10. /\ Cmds(config) \in Seq(Command) /\ Cmds(Irq("HPF")) \in Seq(Command)
       /\ Cmds(Irq("FF")) \in Seq(Command) /\ Cmds(status) \in Seq(Command)
       /\ Cmds(hpf) \in Seq(Command) /\ Cmds(front) \in Seq(Command)
  BY <1>2, <1>3, <1>4, <1>5, <1>8, CmdsOfSteps
<1> DEFINE Joined(s, t, u) ==
             /\ \A r : Without(s, r) /\ Without(t, r) => Without(u, r)
             /\ \A a, b : Before(s, a, b) => Before(u, a, b)
             /\ \A a, b : Without(s, b) /\ Before(t, a, b) => Before(u, a, b)
             /\ \A r, v, w, d : LeavesWith(s, r, w, d) /\ LeavesWith(t, r, v, w) =>
                                  LeavesWith(u, r, v, d)
<1>11. /\ Joined(Cmds(config), Cmds(Irq("HPF")), Cmds(hpf))
       /\ Joined(Cmds(hpf), Cmds(Irq("FF")), Cmds(front))
       /\ Joined(Cmds(front), Cmds(status), Cmds(Lis3dhInit))
  <2>1. \A s, t \in Seq(Command) : Joined(s, t, s \o t)
    BY JoinedLists, Zenon
  <2> HIDE DEF Joined
  <2> QED BY <1>9, <1>10, <2>1
<1>12. ASSUME NEW p \in Pin PROVE Before(Cmds(Lis3dhInit), CfgReg[p], "REFERENCE")
  <2>1. Without(Cmds(config), "REFERENCE")
    BY <1>3
  <2>2. Without(Cmds(hpf), "REFERENCE")
    BY <1>2, <1>4, <1>11, <2>1
  <2>3. Before(Cmds(front), CfgReg[p], "REFERENCE")
    <3>1. CASE p = "HPF"
      <4>1. Before(Cmds(hpf), CfgReg[p], "REFERENCE")
        BY <1>4, <1>11, <2>1, <3>1
      <4> QED BY <1>11, <4>1
    <3>2. CASE p = "FF"
      BY <1>4, <1>11, <2>2, <3>2
    <3> QED BY <1>2, <3>1, <3>2
  <2> QED BY <1>11, <2>3
<1>13. ASSUME NEW p \in Pin, NEW d
       PROVE  LeavesWith(Cmds(Lis3dhInit), ThsReg[p], RegVal(BootThreshold[p]), d)
  <2> DEFINE v == RegVal(BootThreshold[p])
             r == ThsReg[p]
  <2>1. \A s, w : Without(s, r) => LeavesWith(s, r, w, w)
    BY DEF LeavesWith
  <2>2. r # "OTHER"
    BY <1>2
  <2>3. LeavesWith(Cmds(config), r, d, d) /\ LeavesWith(Cmds(status), r, v, v)
    BY <1>3, <1>5, <2>1, <2>2
  <2> HIDE DEF v
  <2>4. LeavesWith(Cmds(front), r, v, d)
    <3>1. CASE p = "HPF"
      <4>1. LeavesWith(Cmds(Irq("HPF")), r, v, d)
        BY <1>4, <3>1 DEF v
      <4>2. LeavesWith(Cmds(hpf), r, v, d)
        BY <1>11, <2>3, <4>1
      <4>3. LeavesWith(Cmds(Irq("FF")), r, v, v)
        BY <1>2, <1>4, <2>1, <3>1
      <4> QED BY <1>11, <4>2, <4>3
    <3>2. CASE p = "FF"
      <4>1. LeavesWith(Cmds(Irq("HPF")), r, d, d)
        BY <1>2, <1>4, <2>1, <3>2
      <4>2. LeavesWith(Cmds(hpf), r, d, d)
        BY <1>11, <2>3, <4>1
      <4>3. LeavesWith(Cmds(Irq("FF")), r, v, d)
        BY <1>4, <3>2 DEF v
      <4> QED BY <1>11, <4>2, <4>3
    <3> QED BY <1>2, <3>1, <3>2
  <2>5. LeavesWith(Cmds(Lis3dhInit), r, v, d)
    BY <1>11, <2>3, <2>4
  <2> QED BY <2>5 DEF v
<1>14. /\ Lis3dhInit \in Seq(Step) /\ Len(Lis3dhInit) = Len(front) + 5
       /\ \A i \in 1 .. Len(front) : Lis3dhInit[i].op = "push"
       /\ \A i \in 1 .. 5 : Lis3dhInit[Len(front) + i] = status[i]
  <2>1. /\ front \o status \in Seq(Step) /\ Len(front \o status) = Len(front) + Len(status)
        /\ \A i \in 1 .. Len(front) + Len(status) : (front \o status)[i] =
              IF i <= Len(front) THEN front[i] ELSE status[i - Len(front)]
    BY <1>5, <1>8, ConcatProperties
  <2>2. Len(front) \in Nat
    BY <1>8
  <2>3. \A i \in 1 .. Len(front) : i \in 1 .. Len(front) + 5 /\ i <= Len(front)
    BY <2>2
  <2>4. \A i \in 1 .. 5 : /\ Len(front) + i \in 1 .. Len(front) + 5
                          /\ ~(Len(front) + i <= Len(front)) /\ (Len(front) + i) - Len(front) = i
    BY <2>2
  <2> QED BY <1>5, <1>6, <1>8, <2>1, <2>3, <2>4
<1>15. /\ Lis3dhInit # << >>
       /\ \A i \in 1 .. Len(Lis3dhInit) - 1 : Lis3dhInit[i].op = "push"
       /\ Lis3dhInit[Len(Lis3dhInit)] = Exec
  <2>1. Len(front) \in Nat
    BY <1>8
  <2>2. ASSUME NEW i \in 1 .. Len(front) + 5 - 1 PROVE Lis3dhInit[i].op = "push"
    <3>1. CASE i <= Len(front)
      <4>1. i \in 1 .. Len(front)
        BY <2>1, <3>1
      <4> QED BY <1>14, <4>1
    <3>2. CASE ~(i <= Len(front))
      <4>1. i - Len(front) \in 1 .. 4 /\ i - Len(front) \in 1 .. 5
            /\ Len(front) + (i - Len(front)) = i
        BY <2>1, <3>2
      <4>2. Lis3dhInit[i] = status[i - Len(front)]
        BY <1>14, <4>1
      <4> QED BY <1>5, <4>1, <4>2
    <3> QED BY <3>1, <3>2
  <2>3. Lis3dhInit[Len(front) + 5] = Exec
    BY <1>5, <1>14
  <2> QED BY <1>14, <2>1, <2>2, <2>3
<1>16. Exec.op = "exec" /\ Exec.cmd = ZeroCmd
  BY DEF Exec
<1>17. Listed(Lis3dhInit)
  <2> SUFFICES ASSUME NEW i \in 1 .. Len(Lis3dhInit), Lis3dhInit[i].op # "push"
               PROVE  Lis3dhInit[i].cmd = ZeroCmd
    BY DEF Listed
  <2>1. i = Len(Lis3dhInit)
    BY <1>14, <1>15
  <2> QED BY <1>15, <1>16, <2>1
<1> QED BY <1>12, <1>13, <1>14, <1>15, <1>16, <1>17

-----------------------------------------------------------------------------
(***************************************************************************)
(* What each step of the driver does to the commands on their way.         *)
(***************************************************************************)
LEMMA PipeIsCommands ==
  ASSUME DriverInv
  PROVE  PipeOf \in Seq(Command) /\ cmdBuf \in Queue /\ (bus # "busy" => PipeOf = cmdBuf)
BY PipeContents DEF DriverInv, TypeOK, Queue

\* The interrupt of the bus adds at most a read of samples.
LEMMA TwiIsrPipe ==
  ASSUME DriverInv, ~undefined, TwiIsr
  PROVE  /\ bus = "done"
         /\ UNCHANGED << threshold, todo, armed, ths, fails, latched >>
         /\ lost => lost'
         /\ \/ undefined'
            \/ PipeOf' = PipeOf
            \/ \E c \in Command : c.reg = "OUT_X_L" /\ PipeOf' = Append(PipeOf, c)
<1>1. /\ bus = "done" /\ PipeOf = cmdBuf /\ cmdBuf \in Queue
      /\ UNCHANGED << threshold, todo, armed, ths, fails, latched >>
  BY PipeIsCommands DEF TwiIsr
<1>2. lost => lost'
  BY DEF TwiIsr, FifoSrcDone, IntSrcDone, SamplesDone, OtherDone
<1>3. PICK buf : /\ ExecuteOneCmdForce(buf)
                 /\ \/ buf = cmdBuf
                    \/ \E c \in Command : c.reg = "OUT_X_L" /\ buf = Pushed(cmdBuf, c)
  <2>1. CASE FifoSrcDone
    <3>1. ReadReg("OUT_X_L", rxBuf) \in Command /\ ReadReg("OUT_X_L", rxBuf).reg = "OUT_X_L"
      BY CommandTypes DEF Register, DriverInv, TypeOK, ReadReg
    <3> QED BY <2>1, <3>1 DEF FifoSrcDone
  <2>2. ASSUME NEW p \in Pin, IntSrcDone(p) PROVE ExecuteOneCmdForce(cmdBuf)
    BY <2>2 DEF IntSrcDone
  <2>3. CASE SamplesDone
    BY <2>3 DEF SamplesDone
  <2>4. CASE OtherDone
    BY <2>4 DEF OtherDone
  <2> QED BY <2>1, <2>2, <2>3, <2>4 DEF TwiIsr
<1>4. /\ buf \in Queue
      /\ buf = cmdBuf \/ \E c \in Command : c.reg = "OUT_X_L" /\ buf = Append(cmdBuf, c)
  <2>1. CASE buf = cmdBuf
    BY <1>1, <2>1
  <2>2. CASE \E c \in Command : c.reg = "OUT_X_L" /\ buf = Pushed(cmdBuf, c)
    BY <1>1, <2>2, PushKeepsQueue DEF Pushed
  <2> QED BY <1>3, <2>1, <2>2
<1>5. CASE buf # << >> /\ ExecuteOldest(buf, TRUE)
  BY <1>1, <1>2, <1>4, <1>5, ExecuteOldestPipe
<1>6. CASE buf = << >> /\ cmdBuf' = buf /\ bus' = "idle"
  <2>1. cmdBuf = << >>
    BY <1>1, <1>4, <1>6 DEF Queue
  <2>2. PipeOf' = << >> \o << >>
    BY <1>6 DEF PipeOf
  <2> QED BY <1>1, <1>2, <2>1, <2>2
<1> QED BY <1>3, <1>5, <1>6 DEF ExecuteOneCmdForce

\* A push puts its command at the end, or is refused.
LEMMA PushStepPipe ==
  ASSUME DriverInv, PushStep
  PROVE  /\ Head(todo).cmd \in Command
         /\ UNCHANGED << accState, bus, undefined, threshold, armed, ths, fails >>
         /\ lost => lost'
         /\ \/ Full(cmdBuf) /\ Full(cmdBuf)' /\ lost' /\ PipeOf' = PipeOf
            \/ PipeOf' = Append(PipeOf, Head(todo).cmd)
<1> DEFINE c == Head(todo).cmd
<1>1. /\ c \in Command /\ cmdBuf' = Pushed(cmdBuf, c) /\ lost' = (lost \/ Full(cmdBuf))
      /\ UNCHANGED << accState, undefined, threshold, bus, wire, armed, ths, fails >>
  <2>1. Head(todo) \in Step
    BY DEF PushStep, DriverInv, TypeOK
  <2>2. c \in Command
    BY <2>1 DEF Step
  <2> QED BY <2>2 DEF PushStep, deviceVars
<1> HIDE DEF c
<1>2. cmdBuf \in Seq(Command) /\ wire \in Command
  BY DEF DriverInv, TypeOK
<1>3. CASE Full(cmdBuf)
  BY <1>1, <1>3 DEF Pushed, PipeOf, Full, c
<1>4. CASE ~Full(cmdBuf)
  <2>1. PipeOf' = (IF bus = "busy" THEN << wire >> ELSE << >>) \o Append(cmdBuf, c)
    BY <1>1, <1>4 DEF Pushed, PipeOf
  <2>2. \A a \in Seq(Command) : a \o Append(cmdBuf, c) = Append(a \o cmdBuf, c)
    BY <1>1, <1>2
  <2>3. (IF bus = "busy" THEN << wire >> ELSE << >>) \in Seq(Command)
    BY <1>2
  <2>4. PipeOf' = Append(PipeOf, c)
    BY <2>1, <2>2, <2>3, Zenon DEF PipeOf
  <2> QED BY <1>1, <2>4 DEF c
<1> QED BY <1>3, <1>4

\* An execution moves the oldest command to the wire, or finds a full queue.
LEMMA ExecStepPipe ==
  ASSUME DriverInv, ~undefined, ExecStep
  PROVE  /\ UNCHANGED << lost, threshold, armed, ths, fails >>
         /\ undefined' \/ PipeOf' = PipeOf
         /\ accState = "IDLE" /\ Full(cmdBuf) => undefined'
<1>1. /\ cmdBuf \in Queue /\ OneTransfer /\ ExecuteOneCmd
      /\ UNCHANGED << lost, threshold, armed, ths, fails >>
  BY PipeIsCommands DEF ExecStep, DriverInv
<1>2. CASE accState = "IDLE" /\ cmdBuf # << >>
  <2>1. bus = "idle" /\ PipeOf = cmdBuf
    BY <1>1, <1>2, PipeIsCommands DEF OneTransfer
  <2>2. ExecuteOldest(cmdBuf, TRUE)
    BY <1>1, <1>2, <2>1 DEF ExecuteOneCmd
  <2>3. \/ PipeOf' = cmdBuf
        \/ undefined' = TRUE
    BY <1>1, <1>2, <2>1, <2>2, ExecuteOldestPipe
  <2>4. Full(cmdBuf) => undefined'
    BY <2>2 DEF ExecuteOldest
  <2> QED BY <1>1, <2>1, <2>3, <2>4
<1>3. CASE ~(accState = "IDLE" /\ cmdBuf # << >>)
  <2>1. PipeOf' = PipeOf
    BY <1>1, <1>3 DEF ExecuteOneCmd, PipeOf
  <2>2. Full(cmdBuf) => cmdBuf # << >>
    BY <1>1, DriverAssumption DEF Full, Queue
  <2> QED BY <1>1, <1>3, <2>1, <2>2
<1> QED BY <1>2, <1>3

\* A transfer serves the oldest command.
LEMMA TransferPipe ==
  ASSUME DriverInv, Transfer
  PROVE  /\ UNCHANGED << cmdBuf, accState, undefined, lost, threshold, todo, fails, wire >>
         /\ bus = "busy" /\ wire \in Command
         /\ PipeOf # << >> /\ Head(PipeOf) = wire /\ PipeOf' = Tail(PipeOf)
         /\ \A p \in Pin : /\ armed[p] \/ wire.reg = CfgReg[p] => armed'[p]
                           /\ ths'[p] = Over(wire, ThsReg[p], ths[p])
<1>1. /\ bus = "busy" /\ bus' = "done" /\ wire \in Command /\ cmdBuf \in Seq(Command)
      /\ UNCHANGED << cmdBuf, accState, undefined, lost, threshold, todo, fails, wire >>
      /\ armed \in [Pin -> BOOLEAN] /\ ths \in [Pin -> Nat]
  BY DEF Transfer, DriverInv, TypeOK
<1>2. PipeOf # << >> /\ Head(PipeOf) = wire /\ PipeOf' = Tail(PipeOf)
  <2>1. PipeOf = << wire >> \o cmdBuf
    BY <1>1 DEF PipeOf
  <2>2. PipeOf' = << >> \o cmdBuf
    BY <1>1 DEF PipeOf
  <2> QED BY <1>1, <2>1, <2>2
<1>3. /\ \A p, q \in Pin : (ThsReg[p] = ThsReg[q] => p = q) /\ (CfgReg[p] = CfgReg[q] => p = q)
      /\ \A p, q \in Pin : /\ ThsReg[p] \notin {CfgReg[q], SrcReg[q]}
                           /\ SrcReg[p] # CfgReg[q]
      /\ \A p \in Pin : ThsReg[p] \notin {"FIFO_SRC", "OUT_X_L", "REFERENCE", "OTHER"}
      /\ \A p \in Pin : CfgReg[p] \notin {"FIFO_SRC", "OUT_X_L", "REFERENCE", "OTHER"}
  BY DEF ThsReg, CfgReg, SrcReg, Pin
<1>4. \/ \E p \in Pin : wire.reg = SrcReg[p] /\ UNCHANGED << armed, ths >>
      \/ wire.reg \in {"FIFO_SRC", "OUT_X_L", "REFERENCE", "OTHER"} /\ UNCHANGED << armed, ths >>
      \/ \E p \in Pin : wire.reg = ThsReg[p] /\ ths' = [ths EXCEPT ![p] = wire.arg]
                                             /\ UNCHANGED armed
      \/ \E p \in Pin : wire.reg = CfgReg[p] /\ armed' = [armed EXCEPT ![p] = TRUE]
                                             /\ UNCHANGED ths
  BY DEF Transfer
<1>5. ASSUME NEW p \in Pin
      PROVE  /\ armed[p] \/ wire.reg = CfgReg[p] => armed'[p]
             /\ ths'[p] = Over(wire, ThsReg[p], ths[p])
  <2>1. CASE \E q \in Pin : wire.reg = SrcReg[q] /\ UNCHANGED << armed, ths >>
    BY <1>3, <2>1 DEF Over
  <2>2. CASE wire.reg \in {"FIFO_SRC", "OUT_X_L", "REFERENCE", "OTHER"} /\ UNCHANGED << armed, ths >>
    BY <1>3, <2>2 DEF Over
  <2>3. CASE \E q \in Pin : wire.reg = ThsReg[q] /\ ths' = [ths EXCEPT ![q] = wire.arg]
                                                 /\ UNCHANGED armed
    BY <1>1, <1>3, <2>3 DEF Over
  <2>4. CASE \E q \in Pin : wire.reg = CfgReg[q] /\ armed' = [armed EXCEPT ![q] = TRUE]
                                                 /\ UNCHANGED ths
    BY <1>1, <1>3, <2>4 DEF Over
  <2> QED BY <1>4, <2>1, <2>2, <2>3, <2>4
<1> QED BY <1>1, <1>2, <1>5

-----------------------------------------------------------------------------
(***************************************************************************)
(* The steps of the driver keep what the node needs.                       *)
(***************************************************************************)
\* Steps that concern neither the commands nor the start-up list.
LEMMA QuietKeeps ==
  ASSUME LoopInv, DriverInv', StartingUp' <=> StartingUp,
         UNCHANGED << cmdBuf, accState, bus, wire, todo, undefined, lost, threshold,
                      armed, ths, fails >>
  PROVE  LoopInv'
<1>1. PipeOf' = PipeOf /\ Full(cmdBuf)' = Full(cmdBuf) /\ Cmds(todo)' = Cmds(todo)
  BY DEF PipeOf, Full, Cmds
<1>2. Listed(todo)' /\ Starting'
  BY DEF LoopInv, Listed, Starting
<1>3. Arming' /\ Agreed'
  BY <1>1 DEF LoopInv, Arming, Coming, Agreed
<1> QED BY <1>2, <1>3 DEF LoopInv

LEMMA RegisterNames ==
  \A p \in Pin : /\ ThsReg[p] \notin {"OUT_X_L", "OTHER", "REFERENCE"}
                 /\ CfgReg[p] \notin {"OUT_X_L", "OTHER", "REFERENCE"}
BY DEF Pin, ThsReg, CfgReg

\* An interrupt of the bus comes after the start-up list has been queued.
LEMMA TwiIsrLoop ==
  ASSUME LoopInv, ~undefined, TwiIsr, UNCHANGED boot
  PROVE  LoopInv'
<1>1. /\ DriverInv /\ DriverInv' /\ PipeOf \in Seq(Command)
      /\ bus = "done" /\ UNCHANGED << threshold, todo, armed, ths, fails >>
      /\ lost => lost'
      /\ \/ undefined'
         \/ PipeOf' = PipeOf
         \/ \E c \in Command : c.reg = "OUT_X_L" /\ PipeOf' = Append(PipeOf, c)
  BY TwiIsrKeeps, TwiIsrPipe, PipeIsCommands DEF LoopInv
<1>2. ~StartingUp /\ ~StartingUp'
  BY <1>1 DEF LoopInv, Starting, DriverInv, OneTransfer, StartingUp
<1>3. Listed(todo)' /\ Starting' /\ Cmds(todo)' = Cmds(todo)
  BY <1>1, <1>2 DEF LoopInv, Listed, Starting, Cmds
<1>4. ASSUME ~undefined', fails' = 0, NEW p \in Pin PROVE armed'[p] \/ Coming(p)'
  <2>1. armed[p] \/ Before(PipeOf, CfgReg[p], "REFERENCE")
    BY <1>1, <1>2, <1>4 DEF LoopInv, Arming, Coming
  <2>2. CASE Before(PipeOf, CfgReg[p], "REFERENCE")
    <3>1. Before(PipeOf', CfgReg[p], "REFERENCE")
      BY <1>1, <1>4, <2>2, AppendedCommand
    <3> QED BY <3>1 DEF Coming
  <2> QED BY <1>1, <2>1, <2>2
<1>5. ASSUME ~undefined', ~lost', fails' = 0, NEW p \in Pin
      PROVE  \E w \in Nat : /\ LeavesWith(PipeOf', ThsReg[p], w, ths'[p])
                            /\ LeavesWith(Cmds(todo)', ThsReg[p], RegVal(threshold'[p]), w)
  <2>1. PICK w \in Nat : /\ LeavesWith(PipeOf, ThsReg[p], w, ths[p])
                         /\ LeavesWith(Cmds(todo), ThsReg[p], RegVal(threshold[p]), w)
    BY <1>1, <1>5 DEF LoopInv, Agreed
  <2>2. LeavesWith(PipeOf', ThsReg[p], w, ths[p])
    <3>1. CASE PipeOf' = PipeOf
      BY <2>1, <3>1
    <3>2. ASSUME NEW c \in Command, c.reg = "OUT_X_L", PipeOf' = Append(PipeOf, c)
          PROVE  LeavesWith(PipeOf', ThsReg[p], w, ths[p])
      <4>1. Over(c, ThsReg[p], w) = w
        BY <3>2, RegisterNames DEF Over
      <4>2. LeavesWith(Append(PipeOf, c), ThsReg[p], Over(c, ThsReg[p], w), ths[p])
        BY <1>1, <2>1, <3>2, AppendedCommand
      <4> QED BY <3>2, <4>1, <4>2
    <3> QED BY <1>1, <1>5, <3>1, <3>2
  <2> QED BY <1>1, <1>3, <2>1, <2>2
<1> QED BY <1>1, <1>3, <1>4, <1>5 DEF LoopInv, Arming, Agreed

\* What a step of a list leaves of the list.
LEMMA RestOfCommands ==
  ASSUME LoopInv, todo # << >>, todo' = Tail(todo), UNCHANGED boot
  PROVE  /\ Cmds(todo) \in Seq(Command) /\ Cmds(todo) # << >>
         /\ Head(Cmds(todo)) = Head(todo).cmd /\ Cmds(todo)' = Tail(Cmds(todo))
         /\ Listed(todo)'
         /\ StartingUp' => StartingUp
         /\ UNCHANGED accState => Starting'
         /\ StartingUp /\ Head(todo).op = "push" => StartingUp'
         /\ StartingUp /\ Head(todo).op # "push" => ~StartingUp' /\ Len(todo) = 1
         /\ Head(todo).op # "push" => Head(todo).cmd = ZeroCmd
<1>1. todo \in Seq(Step)
  BY DEF LoopInv, DriverInv, TypeOK
<1>2. /\ Cmds(todo) \in Seq(Command) /\ Cmds(todo) # << >>
      /\ Head(Cmds(todo)) = Head(todo).cmd /\ Cmds(Tail(todo)) = Tail(Cmds(todo))
  BY <1>1, CmdsOfSteps
<1>3. /\ Len(todo) \in Nat \ {0} /\ Len(Tail(todo)) = Len(todo) - 1 /\ Head(todo) = todo[1]
      /\ \A i \in 1 .. Len(todo) - 1 : i + 1 \in 1 .. Len(todo) /\ Tail(todo)[i] = todo[i + 1]
      /\ Len(todo) = 1 <=> Tail(todo) = << >>
  <2> DEFINE rest == Tail(todo)
  <2>1. /\ Len(todo) \in Nat \ {0} /\ Head(todo) = todo[1]
        /\ rest \in Seq(Step) /\ Len(rest) = Len(todo) - 1
        /\ \A i \in 1 .. Len(todo) - 1 : rest[i] = todo[i + 1]
    BY <1>1
  <2> HIDE DEF rest
  <2>2. \A i \in 1 .. Len(todo) - 1 : i + 1 \in 1 .. Len(todo)
    BY <2>1
  <2>3. rest = << >> <=> Len(rest) = 0
    BY <2>1
  <2>4. Len(todo) = 1 <=> rest = << >>
    BY <2>1, <2>3
  <2> QED BY <2>1, <2>2, <2>4 DEF rest
<1>4. Listed(Tail(todo))
  BY <1>3 DEF LoopInv, Listed
<1>5. StartingUp' => StartingUp
  BY DEF StartingUp
<1>6. ASSUME StartingUp'
      PROVE  /\ accState = "IDLE" /\ \A i \in 1 .. Len(Tail(todo)) - 1 : Tail(todo)[i].op = "push"
             /\ Tail(todo)[Len(Tail(todo))].op = "exec"
  <2>1. /\ accState = "IDLE" /\ \A i \in 1 .. Len(todo) - 1 : todo[i].op = "push"
        /\ todo[Len(todo)].op = "exec" /\ Tail(todo) # << >>
    BY <1>5, <1>6 DEF LoopInv, Starting, StartingUp
  <2>2. \A i \in 1 .. Len(Tail(todo)) - 1 : i + 1 \in 1 .. Len(todo) - 1 /\ i \in 1 .. Len(todo) - 1
    BY <1>3
  <2>3. Len(Tail(todo)) \in 1 .. Len(todo) - 1 /\ Len(Tail(todo)) + 1 = Len(todo)
    BY <1>3, <2>1
  <2> QED BY <1>3, <2>1, <2>2, <2>3
<1>7. ASSUME StartingUp
      PROVE  /\ Head(todo).op = "push" => StartingUp'
             /\ Head(todo).op # "push" => ~StartingUp' /\ Len(todo) = 1
  <2>1. /\ \A i \in 1 .. Len(todo) - 1 : todo[i].op = "push"
        /\ todo[Len(todo)].op = "exec"
    BY <1>7 DEF LoopInv, Starting
  <2>2. Len(todo) = 1 => Head(todo).op # "push"
    BY <1>3, <2>1
  <2>3. Len(todo) # 1 => 1 \in 1 .. Len(todo) - 1
    BY <1>3
  <2> QED BY <1>3, <1>7, <2>1, <2>2, <2>3 DEF StartingUp
<1>8. Head(todo).op # "push" => Head(todo).cmd = ZeroCmd
  BY <1>3 DEF LoopInv, Listed
<1> QED BY <1>2, <1>4, <1>5, <1>6, <1>7, <1>8 DEF Starting, Cmds, Listed

\* A step of a list that pushes: its command moves from one list to the other.
LEMMA PushStepLoop ==
  ASSUME LoopInv, ~undefined, PushStep, UNCHANGED boot
  PROVE  LoopInv'
<1> DEFINE c == Head(todo).cmd
<1>1. /\ DriverInv /\ DriverInv' /\ PipeOf \in Seq(Command)
      /\ c \in Command
      /\ todo # << >> /\ Head(todo).op = "push" /\ todo' = Tail(todo)
      /\ UNCHANGED << accState, bus, undefined, threshold, armed, ths, fails >>
      /\ lost => lost'
      /\ \/ Full(cmdBuf) /\ Full(cmdBuf)' /\ lost' /\ PipeOf' = PipeOf
         \/ PipeOf' = Append(PipeOf, c)
  BY PushStepKeeps, PushStepPipe, PipeIsCommands DEF LoopInv, PushStep
<1>2. /\ Cmds(todo) \in Seq(Command) /\ Cmds(todo) # << >>
      /\ Head(Cmds(todo)) = c /\ Cmds(todo)' = Tail(Cmds(todo))
      /\ Listed(todo)' /\ Starting'
      /\ StartingUp => StartingUp'
  BY <1>1, RestOfCommands
<1> HIDE DEF c
<1>3. ASSUME ~undefined', fails' = 0, NEW p \in Pin PROVE armed'[p] \/ Coming(p)'
  <2>1. armed[p] \/ Coming(p)
    BY <1>1, <1>3 DEF LoopInv, Arming
  <2>2. CASE Before(PipeOf, CfgReg[p], "REFERENCE")
    BY <1>1, <2>2, AppendedCommand DEF Coming
  <2>3. CASE StartingUp /\ Full(cmdBuf)
    <3>1. Full(cmdBuf)'
      BY <2>3, <1>1 DEF PushStep, Pushed, Full
    <3> QED BY <1>2, <2>3, <3>1 DEF Coming
  <2>4. CASE /\ StartingUp /\ Without(PipeOf, "REFERENCE")
             /\ Before(Cmds(todo), CfgReg[p], "REFERENCE")
    <3>1. CASE Full(cmdBuf)'
      BY <1>2, <2>4, <3>1 DEF Coming
    <3>2. CASE PipeOf' = Append(PipeOf, c) /\ c.reg = CfgReg[p]
      <4>1. Before(PipeOf', CfgReg[p], "REFERENCE")
        BY <1>1, <2>4, <3>2, AppendedCommand, RegisterNames
      <4> QED BY <4>1 DEF Coming
    <3>3. CASE PipeOf' = Append(PipeOf, c) /\ c.reg # CfgReg[p]
      <4>1. Before(Tail(Cmds(todo)), CfgReg[p], "REFERENCE") /\ c.reg # "REFERENCE"
        BY <1>2, <2>4, <3>3, FirstCommand, RegisterNames
      <4>2. Without(PipeOf', "REFERENCE")
        BY <1>1, <2>4, <3>3, <4>1, AppendedCommand
      <4> QED BY <1>2, <2>4, <4>1, <4>2 DEF Coming
    <3> QED BY <1>1, <3>1, <3>2, <3>3
  <2> QED BY <1>1, <2>1, <2>2, <2>3, <2>4 DEF Coming
<1>4. ASSUME ~undefined', ~lost', fails' = 0, NEW p \in Pin
      PROVE  \E w \in Nat : /\ LeavesWith(PipeOf', ThsReg[p], w, ths'[p])
                            /\ LeavesWith(Cmds(todo)', ThsReg[p], RegVal(threshold'[p]), w)
  <2>1. PICK w \in Nat : /\ LeavesWith(PipeOf, ThsReg[p], w, ths[p])
                         /\ LeavesWith(Cmds(todo), ThsReg[p], RegVal(threshold[p]), w)
    BY <1>1, <1>4 DEF LoopInv, Agreed
  <2>2. LeavesWith(PipeOf', ThsReg[p], Over(c, ThsReg[p], w), ths[p])
    <3>1. PipeOf' = Append(PipeOf, c)
      BY <1>1, <1>4
    <3>2. LeavesWith(Append(PipeOf, c), ThsReg[p], Over(c, ThsReg[p], w), ths[p])
      BY <1>1, <2>1, AppendedCommand
    <3> QED BY <3>1, <3>2
  <2>4. LeavesWith(Cmds(todo)', ThsReg[p], RegVal(threshold[p]), Over(c, ThsReg[p], w))
    <3> DEFINE rest == Tail(Cmds(todo))
    <3>1. LeavesWith(rest, ThsReg[p], RegVal(threshold[p]),
                     Over(Head(Cmds(todo)), ThsReg[p], w))
      BY <1>2, <2>1, FirstCommand, Zenon
    <3> QED BY <1>2, <3>1
  <2>3. Over(c, ThsReg[p], w) \in Nat
    BY <1>1, <2>1 DEF Over, Command
  <2> QED BY <1>1, <2>2, <2>3, <2>4
<1> QED BY <1>1, <1>2, <1>3, <1>4 DEF LoopInv, Arming, Agreed

\* A step of a list that executes: what it does not push counts as nothing.
LEMMA ExecStepLoop ==
  ASSUME LoopInv, ~undefined, ExecStep, UNCHANGED boot
  PROVE  LoopInv'
<1>1. /\ DriverInv /\ DriverInv' /\ PipeOf \in Seq(Command)
      /\ todo # << >> /\ Head(todo).op = "exec" /\ todo' = Tail(todo)
      /\ UNCHANGED << lost, threshold, armed, ths, fails >>
      /\ undefined' \/ PipeOf' = PipeOf
      /\ accState = "IDLE" /\ Full(cmdBuf) => undefined'
  BY ExecStepKeeps, ExecStepPipe, PipeIsCommands DEF LoopInv, ExecStep
<1>2. /\ Cmds(todo) \in Seq(Command) /\ Cmds(todo) # << >>
      /\ Head(Cmds(todo)) = ZeroCmd /\ Cmds(todo)' = Tail(Cmds(todo))
      /\ Listed(todo)' /\ ~StartingUp'
      /\ StartingUp => Len(todo) = 1
  BY <1>1, RestOfCommands
<1>3. Starting'
  BY <1>2 DEF Starting
<1>4. ZeroCmd.reg = "OTHER"
  BY DEF ZeroCmd, WriteReg
<1>5. ASSUME ~undefined', fails' = 0, NEW p \in Pin PROVE armed'[p] \/ Coming(p)'
  <2>1. armed[p] \/ Coming(p)
    BY <1>1, <1>5 DEF LoopInv, Arming
  <2>2. CASE Before(PipeOf, CfgReg[p], "REFERENCE")
    BY <1>1, <1>5, <2>2 DEF Coming
  <2>3. CASE StartingUp
    <3>1. ~Full(cmdBuf)
      BY <1>1, <1>5, <2>3 DEF LoopInv, Starting
    <3>2. ~Before(Cmds(todo), CfgReg[p], "REFERENCE")
      <4>1. Len(Cmds(todo)) = 1 /\ Cmds(todo)[1] = Head(Cmds(todo))
        BY <1>2, <2>3 DEF Cmds
      <4>2. \A i \in 1 .. 1 : i = 1
        OBVIOUS
      <4> QED BY <1>2, <1>4, <4>1, <4>2, RegisterNames DEF Before
    <3> QED BY <1>1, <1>5, <2>1, <2>2, <3>1, <3>2 DEF Coming
  <2> QED BY <1>1, <2>1, <2>2, <2>3 DEF Coming
<1>6. ASSUME ~undefined', ~lost', fails' = 0, NEW p \in Pin
      PROVE  \E w \in Nat : /\ LeavesWith(PipeOf', ThsReg[p], w, ths'[p])
                            /\ LeavesWith(Cmds(todo)', ThsReg[p], RegVal(threshold'[p]), w)
  <2>1. PICK w \in Nat : /\ LeavesWith(PipeOf, ThsReg[p], w, ths[p])
                         /\ LeavesWith(Cmds(todo), ThsReg[p], RegVal(threshold[p]), w)
    BY <1>1, <1>6 DEF LoopInv, Agreed
  <2>2. Over(ZeroCmd, ThsReg[p], w) = w
    BY <1>4, RegisterNames DEF Over
  <2>3. LeavesWith(Tail(Cmds(todo)), ThsReg[p], RegVal(threshold[p]), w)
    <3>1. LeavesWith(Tail(Cmds(todo)), ThsReg[p], RegVal(threshold[p]),
                     Over(Head(Cmds(todo)), ThsReg[p], w))
      BY <1>2, <2>1, FirstCommand, Zenon
    <3> QED BY <1>2, <2>2, <3>1
  <2> QED BY <1>1, <1>2, <1>6, <2>1, <2>3
<1> QED BY <1>1, <1>2, <1>3, <1>5, <1>6 DEF LoopInv, Arming, Agreed

\* The step of hpf_task that is no command at all.
LEMMA FssStepLoop ==
  ASSUME LoopInv, ~undefined, FssStep, UNCHANGED boot
  PROVE  LoopInv'
<1>1. /\ DriverInv /\ DriverInv' /\ PipeOf' = PipeOf
      /\ todo # << >> /\ Head(todo).op = "fss" /\ todo' = Tail(todo)
      /\ UNCHANGED << cmdBuf, accState, undefined, lost, threshold, armed, ths, fails >>
  BY FssStepKeeps DEF LoopInv, FssStep, deviceVars, PipeOf
<1>2. /\ Cmds(todo) \in Seq(Command) /\ Cmds(todo) # << >>
      /\ Head(Cmds(todo)) = ZeroCmd /\ Cmds(todo)' = Tail(Cmds(todo))
      /\ Listed(todo)' /\ ~StartingUp'
      /\ StartingUp => Len(todo) = 1
  BY <1>1, RestOfCommands
<1>3. ~StartingUp
  <2>1. StartingUp => todo[Len(todo)] = Head(todo) /\ todo[Len(todo)].op = "exec"
    BY <1>1, <1>2 DEF LoopInv, Starting
  <2> QED BY <1>1, <2>1
<1>4. Starting'
  BY <1>2 DEF Starting
<1>5. ASSUME ~undefined', fails' = 0, NEW p \in Pin PROVE armed'[p] \/ Coming(p)'
  BY <1>1, <1>3, <1>5 DEF LoopInv, Arming, Coming
<1>6. ASSUME ~undefined', ~lost', fails' = 0, NEW p \in Pin
      PROVE  \E w \in Nat : /\ LeavesWith(PipeOf', ThsReg[p], w, ths'[p])
                            /\ LeavesWith(Cmds(todo)', ThsReg[p], RegVal(threshold'[p]), w)
  <2>1. PICK w \in Nat : /\ LeavesWith(PipeOf, ThsReg[p], w, ths[p])
                         /\ LeavesWith(Cmds(todo), ThsReg[p], RegVal(threshold[p]), w)
    BY <1>1, <1>6 DEF LoopInv, Agreed
  <2>2. Over(ZeroCmd, ThsReg[p], w) = w
    BY RegisterNames DEF Over, ZeroCmd, WriteReg
  <2>3. LeavesWith(Tail(Cmds(todo)), ThsReg[p], RegVal(threshold[p]), w)
    <3>1. LeavesWith(Tail(Cmds(todo)), ThsReg[p], RegVal(threshold[p]),
                     Over(Head(Cmds(todo)), ThsReg[p], w))
      BY <1>2, <2>1, FirstCommand, Zenon
    <3> QED BY <1>2, <2>2, <3>1
  <2> QED BY <1>1, <1>2, <2>1, <2>3
<1> QED BY <1>1, <1>2, <1>4, <1>5, <1>6 DEF LoopInv, Arming, Agreed

\* The main loop takes up a task, once the start-up is over.
LEMMA RunTaskLoop ==
  ASSUME LoopInv, ~undefined, RunTask, UNCHANGED boot, boot # "acc_init"
  PROVE  LoopInv'
<1>1. /\ DriverInv /\ DriverInv' /\ PipeOf' = PipeOf /\ todo = << >> /\ tasks # << >>
      /\ UNCHANGED << cmdBuf, undefined, lost, threshold, armed, ths, fails >>
  BY RunTaskKeeps DEF LoopInv, RunTask, deviceVars, PipeOf
<1>2. ~StartingUp /\ ~StartingUp' /\ Starting'
  BY DEF StartingUp, Starting
<1>3. Listed(todo)' /\ \A p \in Pin : Without(Cmds(todo)', ThsReg[p])
  <2>1. /\ Head(tasks).pin \in Pin /\ latched[Head(tasks).pin] \in BOOLEAN
        /\ \/ todo' = DioCallback(Head(tasks).pin, latched[Head(tasks).pin])
           \/ todo' = SrcTask(Head(tasks).pin)
    <3>1. Head(tasks) \in Task /\ latched \in [Pin -> BOOLEAN]
      BY <1>1 DEF DriverInv, TypeOK
    <3>2. Head(tasks).pin \in Pin
      BY <3>1 DEF Task
    <3> QED BY <3>1, <3>2 DEF RunTask
  <2>2. Cmds(todo)' = Cmds(todo')
    BY DEF Cmds
  <2>3. Listed(todo)' <=> Listed(todo')
    BY DEF Listed
  <2>4. 0 \in Nat
    OBVIOUS
  <2> QED BY <2>1, <2>2, <2>3, <2>4, StepLists
<1>4. ASSUME ~undefined', fails' = 0, NEW p \in Pin PROVE armed'[p] \/ Coming(p)'
  BY <1>1, <1>2, <1>4 DEF LoopInv, Arming, Coming
<1>5. ASSUME ~undefined', ~lost', fails' = 0, NEW p \in Pin
      PROVE  \E w \in Nat : /\ LeavesWith(PipeOf', ThsReg[p], w, ths'[p])
                            /\ LeavesWith(Cmds(todo)', ThsReg[p], RegVal(threshold'[p]), w)
  <2>1. PICK w \in Nat : /\ LeavesWith(PipeOf, ThsReg[p], w, ths[p])
                         /\ LeavesWith(Cmds(todo), ThsReg[p], RegVal(threshold[p]), w)
    BY <1>1, <1>5 DEF LoopInv, Agreed
  <2>2. RegVal(threshold[p]) = w
    BY <1>1, <2>1 DEF LeavesWith, Cmds
  <2> QED BY <1>1, <1>3, <2>1, <2>2 DEF LeavesWith
<1> QED BY <1>1, <1>2, <1>3, <1>4, <1>5 DEF LoopInv, Arming, Agreed

\* A client writes a threshold, once the start-up is over.
LEMMA SetThresholdLoop ==
  ASSUME LoopInv, ~undefined, UNCHANGED boot, boot # "acc_init",
         NEW p \in Pin, NEW t \in Thresholds, SetThreshold(p, t)
  PROVE  LoopInv'
<1>1. /\ DriverInv /\ DriverInv' /\ PipeOf' = PipeOf /\ todo = << >>
      /\ todo' = << Push(WriteReg(ThsReg[p], RegVal(t))), Exec >>
      /\ threshold' = [threshold EXCEPT ![p] = t]
      /\ UNCHANGED << cmdBuf, undefined, lost, armed, ths, fails >>
  BY SetThresholdKeeps DEF LoopInv, SetThreshold, deviceVars, PipeOf
<1>2. ~StartingUp /\ ~StartingUp' /\ Starting'
  BY DEF StartingUp, Starting
<1>3. t \in Nat /\ TRUE \in BOOLEAN /\ threshold \in [Pin -> Nat]
  BY <1>1, DriverAssumption DEF DriverInv, TypeOK
<1> DEFINE steps == << Push(WriteReg(ThsReg[p], RegVal(t))), Exec >>
<1>4. /\ Listed(steps)
      /\ \A q \in Pin : \A d : LeavesWith(Cmds(steps), ThsReg[q], IF q = p THEN RegVal(t) ELSE d, d)
  BY <1>3, StepLists
<1>5. Listed(todo)' /\ todo' = steps
  BY <1>1, <1>4 DEF Listed
<1> HIDE DEF steps
<1>6. ASSUME ~undefined', fails' = 0, NEW q \in Pin PROVE armed'[q] \/ Coming(q)'
  BY <1>1, <1>2, <1>6 DEF LoopInv, Arming, Coming
<1>7. ASSUME ~undefined', ~lost', fails' = 0, NEW q \in Pin
      PROVE  \E w \in Nat : /\ LeavesWith(PipeOf', ThsReg[q], w, ths'[q])
                            /\ LeavesWith(Cmds(todo)', ThsReg[q], RegVal(threshold'[q]), w)
  <2>1. PICK w \in Nat : /\ LeavesWith(PipeOf, ThsReg[q], w, ths[q])
                         /\ LeavesWith(Cmds(todo), ThsReg[q], RegVal(threshold[q]), w)
    BY <1>1, <1>7 DEF LoopInv, Agreed
  <2>2. RegVal(threshold[q]) = w
    BY <1>1, <2>1 DEF LeavesWith, Cmds
  <2>3. RegVal(threshold'[q]) = IF q = p THEN RegVal(t) ELSE w
    BY <1>1, <1>3, <2>2
  <2>4. Cmds(todo)' = Cmds(steps)
    BY <1>5 DEF Cmds
  <2>5. LeavesWith(Cmds(steps), ThsReg[q], IF q = p THEN RegVal(t) ELSE w, w)
    BY <1>4
  <2> QED BY <1>1, <2>1, <2>3, <2>4, <2>5
<1> QED BY <1>1, <1>2, <1>5, <1>6, <1>7 DEF LoopInv, Arming, Agreed

\* A transfer serves the first command on its way.
LEMMA TransferLoop ==
  ASSUME LoopInv, ~undefined, Transfer, UNCHANGED boot
  PROVE  /\ LoopInv'
         /\ fails = 0 /\ wire.reg = "REFERENCE" => \A p \in Pin : armed[p]
<1>1. /\ DriverInv /\ DriverInv' /\ PipeOf \in Seq(Command)
      /\ UNCHANGED << cmdBuf, accState, undefined, lost, threshold, todo, fails, wire >>
      /\ bus = "busy" /\ wire \in Command
      /\ PipeOf # << >> /\ Head(PipeOf) = wire /\ PipeOf' = Tail(PipeOf)
      /\ \A p \in Pin : /\ armed[p] \/ wire.reg = CfgReg[p] => armed'[p]
                        /\ ths'[p] = Over(wire, ThsReg[p], ths[p])
  <2>1. DriverInv /\ DriverInv'
    BY SensorKeeps DEF LoopInv, Sensor
  <2> QED BY <2>1, TransferPipe, PipeIsCommands
<1>2. ~StartingUp /\ ~StartingUp' /\ Starting'
  BY <1>1 DEF LoopInv, Starting, DriverInv, OneTransfer, StartingUp
<1>3. Listed(todo)' /\ Cmds(todo)' = Cmds(todo)
  BY <1>1 DEF LoopInv, Listed, Cmds
<1>4. ASSUME fails = 0, NEW p \in Pin
      PROVE  /\ armed'[p] \/ Coming(p)'
             /\ wire.reg = "REFERENCE" => armed[p]
  <2>1. armed[p] \/ Before(PipeOf, CfgReg[p], "REFERENCE")
    BY <1>2, <1>4 DEF LoopInv, Arming, Coming
  <2>2. CASE Before(PipeOf, CfgReg[p], "REFERENCE")
    <3>1. /\ wire.reg # "REFERENCE"
          /\ wire.reg # CfgReg[p] => Before(PipeOf', CfgReg[p], "REFERENCE")
      BY <1>1, <2>2, FirstCommand, RegisterNames
    <3> QED BY <1>1, <3>1 DEF Coming
  <2> QED BY <1>1, <2>1, <2>2
<1>5. ASSUME ~undefined', ~lost', fails' = 0, NEW p \in Pin
      PROVE  \E w \in Nat : /\ LeavesWith(PipeOf', ThsReg[p], w, ths'[p])
                            /\ LeavesWith(Cmds(todo)', ThsReg[p], RegVal(threshold'[p]), w)
  <2>1. PICK w \in Nat : /\ LeavesWith(PipeOf, ThsReg[p], w, ths[p])
                         /\ LeavesWith(Cmds(todo), ThsReg[p], RegVal(threshold[p]), w)
    BY <1>1, <1>5 DEF LoopInv, Agreed
  <2>2. LeavesWith(Tail(PipeOf), ThsReg[p], w, Over(Head(PipeOf), ThsReg[p], ths[p]))
    BY <1>1, <2>1, FirstCommand, Zenon
  <2> QED BY <1>1, <1>3, <2>1, <2>2
<1> QED BY <1>1, <1>2, <1>3, <1>4, <1>5 DEF LoopInv, Arming, Agreed

\* After a failure nothing is promised.
LEMMA TransferFailsLoop ==
  ASSUME LoopInv, TransferFails, UNCHANGED boot
  PROVE  LoopInv' /\ fails' # 0
<1>1. DriverInv' /\ fails' # 0
  BY SensorKeeps DEF LoopInv, DriverInv, TypeOK, Sensor, TransferFails
<1>2. bus = "busy" /\ UNCHANGED << todo, accState >>
  BY DEF TransferFails, driverVars
<1>3. Listed(todo)' /\ Starting'
  BY <1>2 DEF LoopInv, Listed, Starting, StartingUp
<1> QED BY <1>1, <1>3 DEF LoopInv, Arming, Agreed

-----------------------------------------------------------------------------
(***************************************************************************)
(* The invariant of the node holds in every step.                          *)
(***************************************************************************)
\* A reset ends with the start-up list still to come.
LEMMA StartUpLoop ==
  ASSUME NEW d \in [Pin -> Nat], DriverInv', boot' = "acc_init", accState' = "IDLE",
         cmdBuf' = << >>, bus' = "idle", todo' = Lis3dhInit,
         threshold' = BootThreshold, ths' = d
  PROVE  LoopInv'
<1>1. StartingUp' /\ Starting' /\ Listed(todo)'
  BY StartUpCommands DEF StartingUp, Starting, Listed
<1>2. PipeOf' = << >> /\ Cmds(todo)' = Cmds(Lis3dhInit)
  BY DEF PipeOf, Cmds
<1>3. \A p \in Pin : Coming(p)'
  BY <1>1, <1>2, StartUpCommands DEF Coming, Without
<1>4. \A p \in Pin : /\ LeavesWith(PipeOf', ThsReg[p], d[p], ths'[p])
                     /\ LeavesWith(Cmds(todo)', ThsReg[p], RegVal(threshold'[p]), d[p])
  <2>1. \A r, v : LeavesWith(<< >>, r, v, v)
    BY DEF LeavesWith, Without
  <2> QED BY <1>2, <2>1, StartUpCommands
<1> QED BY <1>1, <1>3, <1>4 DEF LoopInv, Arming, Agreed

LEMMA NodeInitHolds == NodeInit => NodeInv
<1> SUFFICES ASSUME NodeInit PROVE NodeInv
  OBVIOUS
<1>1. DriverInv /\ StartingUp
  BY InitHolds, StartUpCommands DEF NodeInit, Init, StartingUp
<1>2. /\ accState = "IDLE" /\ cmdBuf = << >> /\ bus = "idle" /\ todo = Lis3dhInit
      /\ threshold = BootThreshold /\ \A p \in Pin : ths[p] = 0
  BY DEF NodeInit, Init
<1>3. Starting /\ Listed(todo)
  BY <1>2, StartUpCommands DEF Starting, Listed
<1>4. PipeOf = << >>
  BY <1>2 DEF PipeOf
<1>5. \A p \in Pin : Coming(p)
  BY <1>1, <1>2, <1>4, StartUpCommands DEF Coming, Without
<1>6. \A p \in Pin : /\ LeavesWith(PipeOf, ThsReg[p], 0, ths[p])
                     /\ LeavesWith(Cmds(todo), ThsReg[p], RegVal(threshold[p]), 0)
  <2>1. \A r, v : LeavesWith(<< >>, r, v, v)
    BY DEF LeavesWith, Without
  <2> QED BY <1>2, <1>4, <2>1, StartUpCommands
<1>7. LoopInv
  BY <1>1, <1>3, <1>5, <1>6 DEF LoopInv, Arming, Agreed
<1> QED BY <1>7 DEF NodeInit, NodeInv, SleepsArmed, Scans

\* The node neither falls asleep nor wakes up.
LEMMA NodeGoesOn ==
  ASSUME NodeInv, LoopInv', UNCHANGED << boot, scanVars, settled, asleep >>,
         undefined => undefined', fails' >= fails, \A p \in Pin : armed[p] => armed'[p]
  PROVE  NodeInv'
<1>1. fails \in Nat /\ fails' \in Nat
  BY DEF NodeInv, LoopInv, DriverInv, TypeOK
<1>2. /\ ~undefined' => ~undefined
      /\ fails' = 0 => fails = 0
  BY <1>1
<1>3. settled' \in BOOLEAN /\ asleep' \in BOOLEAN
  BY DEF NodeInv
<1>4. settled' /\ ~undefined' /\ fails' = 0 => \A p \in Pin : armed'[p]
  BY <1>2 DEF NodeInv
<1>5. SleepsArmed' /\ Scans'
  BY <1>2 DEF NodeInv, SleepsArmed, Scans, scanVars
<1> QED BY <1>3, <1>4, <1>5 DEF NodeInv

\* Steps of app_init, of the interrupts and of the main loop.
BootStep ==
  SubscribeAcc \/ EnableSensors \/ CreateScanTimer \/ StartScanTimer \/ FinishBoot

LEMMA BootKeeps == ASSUME NodeInv, BootStep PROVE NodeInv'
<1>1. /\ UNCHANGED vars /\ UNCHANGED << asleep, settled >> /\ ~asleep
  BY DEF BootStep, SubscribeAcc, EnableSensors, CreateScanTimer, StartScanTimer, FinishBoot,
         Boots, Awake
<1>2. StartingUp' <=> StartingUp
  BY <1>1 DEF BootStep, SubscribeAcc, EnableSensors, CreateScanTimer, StartScanTimer,
              FinishBoot, Boots, StartingUp, vars, driverVars
<1>3. DriverInv'
  BY <1>1, StepKeeps DEF NodeInv, LoopInv
<1>4. LoopInv'
  BY <1>1, <1>2, <1>3, QuietKeeps DEF NodeInv, LoopInv, vars, driverVars, deviceVars
<1>5. Scans'
  <2>1. Scans
    BY DEF NodeInv
  <2>2. CASE SubscribeAcc
    BY <2>1, <2>2 DEF SubscribeAcc, Boots, Scans, scanVars
  <2>3. CASE EnableSensors
    BY <2>1, <2>3 DEF EnableSensors, Boots, Scans
  <2>4. CASE CreateScanTimer
    BY <2>1, <2>4 DEF CreateScanTimer, Boots, Scans, scanVars
  <2>5. CASE StartScanTimer
    BY <2>1, <2>5 DEF StartScanTimer, Boots, Scans
  <2>6. CASE FinishBoot
    BY <2>1, <2>6 DEF FinishBoot, Boots, Scans
  <2> QED BY <2>2, <2>3, <2>4, <2>5, <2>6 DEF BootStep
<1>6. UNCHANGED << armed, fails, undefined >>
  BY <1>1 DEF vars, driverVars, deviceVars
<1> QED BY <1>1, <1>4, <1>5, <1>6 DEF NodeInv, SleepsArmed

\* Motion heard at any moment: whichever call acc_evt_handler makes, a timer
\* that runs afterwards was started by it.
LEMMA MotionKeepsScans ==
  ASSUME Scans, AccEvtHandler, boot' = boot PROVE Scans'
<1>1. CASE ~enabled
  BY <1>1 DEF AccEvtHandler, TimerCall, Scans
<1>2. CASE enabled /\ scanTimer = "unmade"
  BY <1>2 DEF AccEvtHandler, TimerCall, Scans
<1>3. CASE enabled /\ scanTimer # "unmade"
  BY <1>3 DEF AccEvtHandler, TimerCall, Scans
<1> QED BY <1>1, <1>2, <1>3

LEMMA TwiIsrNode == ASSUME NodeInv, NodeTwiIsr PROVE NodeInv'
<1>1. /\ TwiIsr /\ ~undefined /\ ~asleep /\ UNCHANGED << boot, asleep, settled >>
      /\ UNCHANGED << armed, fails >>
      /\ AccEvtHandler \/ UNCHANGED scanVars
  BY DEF NodeTwiIsr, Awake, TwiIsr
<1>2. LoopInv'
  BY <1>1, TwiIsrLoop DEF NodeInv
<1>3. Scans'
  <2>1. CASE UNCHANGED scanVars
    BY <1>1, <2>1 DEF NodeInv, Scans, scanVars
  <2> QED BY <1>1, <2>1, MotionKeepsScans DEF NodeInv
<1>4. SleepsArmed'
  BY <1>1 DEF SleepsArmed
<1>5. settled' /\ ~undefined' /\ fails' = 0 => \A p \in Pin : armed'[p]
  BY <1>1 DEF NodeInv
<1>6. settled' \in BOOLEAN /\ asleep' = FALSE
  BY <1>1 DEF NodeInv
<1> QED BY <1>1, <1>2, <1>3, <1>4, <1>5, <1>6 DEF NodeInv

LEMMA GpioIsrNode == ASSUME NodeInv, NEW p \in Pin, NodeGpioIsr(p) PROVE NodeInv'
<1>1. /\ GpioIsr(p) /\ UNCHANGED << boot, scanVars, asleep, settled >>
      /\ UNCHANGED << cmdBuf, accState, bus, wire, todo, undefined, lost, threshold,
                      armed, ths, fails >>
  BY DEF NodeGpioIsr, GpioIsr, nodeVars
<1>2. DriverInv' /\ (StartingUp' <=> StartingUp)
  BY <1>1, GpioIsrKeeps DEF NodeInv, LoopInv, StartingUp
<1>3. LoopInv'
  BY <1>1, <1>2, QuietKeeps DEF NodeInv
<1>4. fails' >= fails
  BY <1>1 DEF NodeInv, LoopInv, DriverInv, TypeOK
<1> QED BY <1>1, <1>3, <1>4, NodeGoesOn

LEMMA MotionNode == ASSUME NodeInv, NEW p \in Pin, NodeMotion(p) PROVE NodeInv'
<1>1. /\ Motion(p) /\ UNCHANGED << boot, scanVars, asleep, settled >>
      /\ UNCHANGED << cmdBuf, accState, bus, wire, todo, undefined, lost, threshold,
                      armed, ths, fails >>
  BY DEF NodeMotion, Motion, nodeVars, driverVars
<1>2. DriverInv' /\ (StartingUp' <=> StartingUp)
  BY <1>1, SensorKeeps DEF NodeInv, LoopInv, StartingUp, Sensor
<1>3. LoopInv'
  BY <1>1, <1>2, QuietKeeps DEF NodeInv
<1>4. fails' >= fails
  BY <1>1 DEF NodeInv, LoopInv, DriverInv, TypeOK
<1> QED BY <1>1, <1>3, <1>4, NodeGoesOn

LEMMA MainNode == ASSUME NodeInv, NodeMainStep \/ NodeRunTask PROVE NodeInv'
<1>1. /\ ~undefined /\ UNCHANGED << boot, scanVars, asleep, settled >>
      /\ LoopInv
  BY DEF NodeMainStep, NodeRunTask, Awake, NodeInv, nodeVars
<1>2. UNCHANGED << armed, fails >>
  BY DEF NodeMainStep, NodeRunTask, PushStep, ExecStep, FssStep, RunTask, SetThreshold,
         deviceVars
<1>3. LoopInv'
  <2>1. CASE NodeMainStep
    BY <1>1, <2>1, PushStepLoop, ExecStepLoop, FssStepLoop DEF NodeMainStep
  <2>2. CASE NodeRunTask
    <3>1. boot # "acc_init"
      BY <2>2 DEF NodeRunTask
    <3> QED BY <1>1, <2>2, <3>1, RunTaskLoop, SetThresholdLoop DEF NodeRunTask
  <2> QED BY <2>1, <2>2
<1>4. fails' >= fails
  BY <1>1, <1>2 DEF LoopInv, DriverInv, TypeOK
<1> QED BY <1>1, <1>2, <1>3, <1>4, NodeGoesOn

\* The read of REFERENCE is the last of the start-up list: the interrupts are
\* configured by then.
LEMMA TransferNode == ASSUME NodeInv, NodeTransfer PROVE NodeInv'
<1>1. /\ ~undefined /\ ~asleep /\ UNCHANGED << boot, scanVars, asleep >>
      /\ settled' = (settled \/ wire.reg = "REFERENCE" \/ bus' = "idle")
      /\ LoopInv
  BY DEF NodeTransfer, Awake, NodeInv
<1>2. CASE Transfer
  <2>1. LoopInv' /\ (fails = 0 /\ wire.reg = "REFERENCE" => \A p \in Pin : armed[p])
    BY <1>1, <1>2, TransferLoop
  <2>2. /\ bus' = "done" /\ UNCHANGED << fails, undefined >>
        /\ \A p \in Pin : armed[p] => armed'[p]
    BY <1>1, <1>2, TransferPipe DEF LoopInv, Transfer
  <2>3. settled' /\ ~undefined' /\ fails' = 0 => \A p \in Pin : armed'[p]
    BY <1>1, <2>1, <2>2 DEF NodeInv
  <2>4. settled' \in BOOLEAN /\ asleep' \in BOOLEAN
    BY <1>1 DEF NodeInv
  <2>5. Scans' /\ SleepsArmed'
    BY <1>1, <2>2 DEF NodeInv, Scans, SleepsArmed, scanVars
  <2> QED BY <1>1, <2>1, <2>3, <2>4, <2>5 DEF NodeInv
<1>3. CASE TransferFails
  <2>1. LoopInv' /\ fails' # 0
    BY <1>1, <1>3, TransferFailsLoop
  <2>2. settled' \in BOOLEAN /\ asleep' \in BOOLEAN
    BY <1>1 DEF NodeInv
  <2>3. UNCHANGED undefined
    BY <1>3 DEF TransferFails, driverVars
  <2>4. Scans' /\ SleepsArmed'
    BY <1>1, <2>1, <2>3 DEF NodeInv, Scans, SleepsArmed, scanVars
  <2> QED BY <1>1, <2>1, <2>2, <2>4 DEF NodeInv
<1> QED BY <1>2, <1>3 DEF NodeTransfer

\* The node sleeps once the start-up list has been served.
LEMMA SleepNode == ASSUME NodeInv, ScanTimeout PROVE NodeInv'
<1>1. /\ ~undefined /\ settled /\ ResetRam
      /\ asleep' = TRUE /\ scanTimer' = "unmade" /\ settled' = FALSE /\ boot' = "acc_init"
      /\ UNCHANGED << undefined, lost, sets, latched, armed, ths, sensed, fails >>
  BY DEF ScanTimeout, Awake, ResetRam
<1>2. /\ TypeOK /\ ths \in [Pin -> Nat]
  BY DEF NodeInv, LoopInv, DriverInv, TypeOK
<1>3. TypeOK'
  <2>1. /\ << >> \in Seq(Command) /\ Len(<< >>) <= CommandsMax
        /\ << >> \in Seq(Task) /\ Len(<< >>) <= TasksMax
        /\ [len |-> 0, full |-> FALSE] \in [len : 0 .. SamplesMax, full : BOOLEAN]
    BY DriverAssumption
  <2>2. ZeroCmd \in Command /\ Lis3dhInit \in Seq(Step) /\ BootThreshold \in [Pin -> Nat]
    BY CommandTypes, StartUpList, DriverAssumption
  <2>3. 0 \in Nat
    OBVIOUS
  <2> QED BY <1>1, <1>2, <2>1, <2>2, <2>3, ZenonT(30) DEF ResetRam, TypeOK
<1>4. DriverInv'
  <2>1. /\ accState' = "IDLE" /\ bus' = "idle" /\ cmdBuf' = << >> /\ todo' = Lis3dhInit
    BY <1>1 DEF ResetRam
  <2>2. OneTransfer' /\ WaitIsFounded' /\ NothingForgotten'
    BY <2>1 DEF OneTransfer, WaitIsFounded, NothingForgotten
  <2>3. Executes(todo)'
    BY <2>1, StartUpList DEF Executes
  <2> QED BY <1>3, <2>2, <2>3 DEF DriverInv
<1>5. LoopInv'
  BY <1>1, <1>2, <1>4, StartUpLoop DEF ResetRam
<1>6. SleepsArmed' /\ Scans'
  BY <1>1 DEF NodeInv, SleepsArmed, Scans
<1> QED BY <1>1, <1>5, <1>6 DEF NodeInv

LEMMA WakeNode == ASSUME NodeInv, WakeUp PROVE NodeInv'
<1>1. /\ asleep /\ asleep' = FALSE /\ sensed' = latched
      /\ UNCHANGED << cmdBuf, accState, txBuf, rxBuf, gFss, threshold, readBuf, tasks,
                      todo, undefined, lost, sets, bus, wire, latched, armed, ths,
                      fails, boot, scanVars, settled >>
  BY DEF WakeUp
<1>2. TypeOK'
  BY <1>1 DEF NodeInv, LoopInv, DriverInv, TypeOK
<1>3. DriverInv' /\ (StartingUp' <=> StartingUp)
  BY <1>1, <1>2 DEF NodeInv, LoopInv, DriverInv, OneTransfer, WaitIsFounded, Executes,
                    NothingForgotten, StartingUp
<1>4. LoopInv'
  BY <1>1, <1>3, QuietKeeps DEF NodeInv
<1> QED BY <1>1, <1>4 DEF NodeInv, SleepsArmed, Scans, scanVars

LEMMA NodeStepKeeps == NodeInv /\ [NodeNext]_allVars => NodeInv'
<1> SUFFICES ASSUME NodeInv, [NodeNext]_allVars PROVE NodeInv'
  OBVIOUS
<1>1. CASE NodeNext
  BY <1>1, BootKeeps, TwiIsrNode, GpioIsrNode, MainNode, TransferNode, MotionNode,
     SleepNode, WakeNode DEF NodeNext, BootStep
<1>2. CASE UNCHANGED allVars
  <2>1. UNCHANGED vars /\ UNCHANGED << boot, scanVars, settled, asleep >>
    BY <1>2 DEF allVars, nodeVars
  <2>2. DriverInv' /\ (StartingUp' <=> StartingUp)
    BY <2>1, StepKeeps DEF NodeInv, LoopInv, StartingUp, vars, driverVars
  <2>3. LoopInv'
    BY <2>1, <2>2, QuietKeeps DEF NodeInv, vars, driverVars, deviceVars
  <2>4. undefined' = undefined /\ fails' >= fails /\ armed' = armed
    BY <2>1 DEF NodeInv, LoopInv, DriverInv, TypeOK, vars, driverVars, deviceVars
  <2> QED BY <2>1, <2>3, <2>4, NodeGoesOn
<1> QED BY <1>1, <1>2

\* In every life of the node the driver's invariant holds, the interrupts are
\* armed or about to be, and what is queued ends with the driver's thresholds.
THEOREM NodeInvariance == NodeSpec => []NodeInv
<1>1. NodeInit => NodeInv
  BY NodeInitHolds
<1>2. NodeInv /\ [NodeNext]_allVars => NodeInv'
  BY NodeStepKeeps
<1> QED BY <1>1, <1>2, PTL DEF NodeSpec

\* Wherever motion comes between the steps of winsens_init, and whichever calls
\* timer_start and timer_restart refuse there, a node that is up scans, and its
\* scan timer was started after the last motion it heard.
THEOREM ScanFollows == NodeSpec => []ScanFollowsMotion
<1>1. NodeInv => ScanFollowsMotion
  BY DEF NodeInv, Scans, ScanFollowsMotion
<1> QED BY <1>1, NodeInvariance, PTL

\* However its start-up list met interrupts and motion, a node that sleeps has
\* both interrupts configured, unless a transfer failed.
THEOREM ArmedWhenAsleep == NodeSpec => []SleepsArmed
<1>1. NodeInv => SleepsArmed
  BY DEF NodeInv
<1> QED BY <1>1, NodeInvariance, PTL

\* After any number of lives, writes of clients and resets in the middle of a
\* transfer, what is queued leaves the sensor with the driver's thresholds,
\* unless a command was refused or a transfer failed.
THEOREM ThresholdsSurvive == NodeSpec => []ThresholdSurvives
<1>1. ASSUME NodeInv PROVE ThresholdSurvives
  <2> DEFINE steps == Cmds(todo)
             list  == PipeOf \o steps
  <2>1. /\ PipeOf \in Seq(Command) /\ steps \in Seq(Command) /\ todo \in Seq(Step)
    BY <1>1, PipeIsCommands, CmdsOfSteps DEF NodeInv, LoopInv, DriverInv, TypeOK
  <2>2. list = (IF bus = "busy" THEN << wire >> ELSE << >>) \o cmdBuf
                 \o [i \in 1 .. Len(todo) |-> todo[i].cmd]
    BY DEF PipeOf, Cmds
  <2>3. ASSUME ~undefined, ~lost, fails = 0, NEW p \in Pin
        PROVE  FinalThs(p) = RegVal(threshold[p])
    <3>1. PICK w \in Nat : /\ LeavesWith(PipeOf, ThsReg[p], w, ths[p])
                           /\ LeavesWith(steps, ThsReg[p], RegVal(threshold[p]), w)
      BY <1>1, <2>3 DEF NodeInv, LoopInv, Agreed
    <3> HIDE DEF steps
    <3>2. list \in Seq(Command) /\ LeavesWith(list, ThsReg[p], RegVal(threshold[p]), ths[p])
      BY <2>1, <3>1, JoinedLists
    <3> HIDE DEF list
    <3> DEFINE writes == {i \in 1 .. Len(list) : list[i].reg = ThsReg[p]}
    <3>3. RegVal(threshold[p]) = IF writes = {} THEN ths[p]
            ELSE list[CHOOSE i \in writes : \A j \in writes : j <= i].arg
      BY <3>2, LastWriteWins
    <3> QED BY <2>2, <3>3, Zenon DEF FinalThs
  <2> QED BY <2>3 DEF ThresholdSurvives, ThresholdFaithful
<1> QED BY <1>1, NodeInvariance, PTL

(***************************************************************************)
(* The start-up list fits, and commands are served in order.               *)
(***************************************************************************)
\* The start-up list (19 commands and their execution) finds room in
\* g_cmd_raw_buf: ACC_COMMANDS_MAX is 25.
Room == 20 < CommandsMax

\* The places a list of steps may still take in the queue.  A list that ends by
\* executing leaves one for the read an interrupt adds, the others count it.
Claim(steps) ==
  IF steps # << >> /\ steps[Len(steps)].op = "exec" THEN Len(steps) ELSE Len(steps) + 1

\* Whatever is still to be pushed has its place.
HasRoom == Len(cmdBuf) + Claim(todo) < CommandsMax

StartHasRoom == boot # "running" => HasRoom

\* A step that is taken frees the place it claimed.
LEMMA ClaimOfRest ==
  ASSUME NEW steps \in Seq(Step), steps # << >>
  PROVE  /\ Claim(steps) \in Nat /\ Claim(Tail(steps)) \in Nat
         /\ 1 <= Claim(Tail(steps))
         /\ Claim(Tail(steps)) <= Claim(steps)
         /\ Head(steps).op # "exec" => Claim(Tail(steps)) + 1 = Claim(steps)
<1>1. /\ Len(steps) \in Nat /\ 1 <= Len(steps) /\ Head(steps) = steps[1]
      /\ Tail(steps) \in Seq(Step) /\ Len(Tail(steps)) = Len(steps) - 1
      /\ \A i \in 1 .. Len(steps) - 1 : Tail(steps)[i] = steps[i + 1]
  OBVIOUS
<1>2. CASE Tail(steps) = << >>
  <2>1. Len(<< >>) = 0
    OBVIOUS
  <2>2. Len(steps) = 1
    <3>1. Len(Tail(steps)) = 0
      BY <1>2, <2>1, Zenon
    <3>2. Len(steps) - 1 = 0 /\ Len(steps) \in Nat
      BY <1>1, <3>1, Zenon
    <3> QED BY <3>2
  <2>3. Claim(<< >>) = 1
    BY DEF Claim
  <2>4. Claim(Tail(steps)) = 1
    BY <1>2, <2>3, Zenon
  <2>5. steps[Len(steps)] = Head(steps)
    BY <1>1, <2>2
  <2>6. Claim(steps) = IF Head(steps).op = "exec" THEN 1 ELSE 2
    BY <2>2, <2>5 DEF Claim
  <2> QED BY <2>4, <2>6
<1>3. CASE Tail(steps) # << >>
  <2>1. 2 <= Len(steps)
    BY <1>1, <1>3
  <2>2. Tail(steps)[Len(Tail(steps))] = steps[Len(steps)]
    BY <1>1, <2>1
  <2> QED BY <1>1, <1>3, <2>1, <2>2 DEF Claim
<1> QED BY <1>2, <1>3

\* The start-up list claims twenty places.
LEMMA ClaimOfStartUp == Claim(Lis3dhInit) = 20
<1> DEFINE other   == Push(ReadReg("OTHER", 1))
           written == Push(WriteReg("OTHER", 0))
           Irq(p)  == << Push(WriteReg(ThsReg[p], RegVal(BootThreshold[p]))),
                         Push(WriteReg(CfgReg[p], 0)), written >>
           config  == << other, other, written, written, written, written, written,
                         written, written >>
           status  == << Push(ReadReg("INT1_SRC", 1)), Push(ReadReg("INT2_SRC", 1)),
                         Push(ReadReg("FIFO_SRC", 1)), Push(ReadReg("REFERENCE", 1)), Exec >>
<1>1. Lis3dhInit = ((config \o Irq("HPF")) \o Irq("FF")) \o status
  BY DEF Lis3dhInit
<1>2. other \in Step /\ written \in Step
  BY CommandTypes DEF Register
<1>3. config \in Seq(Step) /\ Len(config) = 9
  <2> HIDE DEF other, written
  <2> QED BY <1>2
<1>4. ASSUME NEW p \in Pin PROVE Irq(p) \in Seq(Step) /\ Len(Irq(p)) = 3
  <2> DEFINE a == Push(WriteReg(ThsReg[p], RegVal(BootThreshold[p])))
             b == Push(WriteReg(CfgReg[p], 0))
  <2>1. BootThreshold[p] \in Nat
    BY DriverAssumption
  <2>2. a \in Step /\ b \in Step
    BY <2>1, RegValType, CommandTypes
  <2>3. Irq(p) = << a, b, written >>
    OBVIOUS
  <2> HIDE DEF a, b, written, Irq
  <2> QED BY <1>2, <2>2, <2>3
<1>5. status \in Seq(Step) /\ Len(status) = 5
  <2>1. \A r \in Register : Push(ReadReg(r, 1)) \in Step
    BY CommandTypes
  <2> DEFINE a == Push(ReadReg("INT1_SRC", 1))
             b == Push(ReadReg("INT2_SRC", 1))
             c == Push(ReadReg("FIFO_SRC", 1))
             d == Push(ReadReg("REFERENCE", 1))
  <2>2. a \in Step /\ b \in Step /\ c \in Step /\ d \in Step /\ Exec \in Step
    BY <2>1, CommandTypes DEF Register
  <2>3. status = << a, b, c, d, Exec >>
    OBVIOUS
  <2> HIDE DEF a, b, c, d, status
  <2> QED BY <2>2, <2>3
<1> HIDE DEF config, Irq, status
<1>6. Len(Lis3dhInit) = 20
  <2>1. \A s, t \in Seq(Step) : s \o t \in Seq(Step) /\ Len(s \o t) = Len(s) + Len(t)
    OBVIOUS
  <2>2. Irq("HPF") \in Seq(Step) /\ Len(Irq("HPF")) = 3
        /\ Irq("FF") \in Seq(Step) /\ Len(Irq("FF")) = 3
    BY <1>4 DEF Pin
  <2> DEFINE a == config \o Irq("HPF")
             b == a \o Irq("FF")
  <2>3. a \in Seq(Step) /\ Len(a) = 9 + 3
    BY <1>3, <2>1, <2>2, Zenon
  <2>4. b \in Seq(Step) /\ Len(b) = (9 + 3) + 3
    <3> HIDE DEF a
    <3> QED BY <2>1, <2>2, <2>3, Zenon
  <2>5. Len(b \o status) = ((9 + 3) + 3) + 5
    <3> HIDE DEF b
    <3> QED BY <1>5, <2>1, <2>4, Zenon
  <2>6. Lis3dhInit = b \o status
    BY <1>1
  <2> HIDE DEF b, status
  <2> QED BY <2>5, <2>6
<1> QED BY <1>6, StartUpCommands DEF Claim

\* The end of a transfer leaves the queue no longer than it was.
LEMMA ForceKeepsRoom ==
  ASSUME TypeOK, HasRoom, todo' = todo, NEW buf \in Queue,
         Len(buf) <= Len(cmdBuf) + 1, ExecuteOneCmdForce(buf)
  PROVE  HasRoom' /\ undefined' = undefined
<1>1. /\ todo \in Seq(Step) /\ cmdBuf \in Seq(Command) /\ buf \in Seq(Command)
      /\ CommandsMax \in Nat
  BY DriverAssumption DEF TypeOK, Queue
<1>2. Claim(todo) \in Nat /\ 1 <= Claim(todo)
  BY <1>1 DEF Claim
<1>3. ~Full(buf)
  BY <1>1, <1>2 DEF Full, HasRoom
<1>4. undefined' = undefined /\ Len(cmdBuf') <= Len(cmdBuf)
  <2>1. CASE buf = << >>
    BY <1>1, <2>1 DEF ExecuteOneCmdForce
  <2>2. CASE buf # << >>
    <3>1. cmdBuf' = Tail(buf) /\ undefined' = undefined
      BY <1>3, <2>2 DEF ExecuteOneCmdForce, ExecuteOldest
    <3> QED BY <1>1, <2>2, <3>1
  <2> QED BY <2>1, <2>2
<1>5. Len(cmdBuf') \in Nat
  <2>1. CASE buf = << >>
    BY <2>1 DEF ExecuteOneCmdForce
  <2>2. CASE buf # << >>
    BY <1>1, <1>3, <2>2 DEF ExecuteOneCmdForce, ExecuteOldest
  <2> QED BY <2>1, <2>2
<1> QED BY <1>1, <1>2, <1>4, <1>5 DEF HasRoom

\* The steps that may work on the queue before the tasks are served leave what
\* is to come its room, refuse nothing and pop nothing from a full buffer.
LEMMA RoomKept ==
  ASSUME DriverInv, HasRoom, PushStep \/ ExecStep \/ FssStep \/ TwiIsr
  PROVE  HasRoom' /\ lost' = lost /\ undefined' = undefined
<1>1. /\ TypeOK /\ todo \in Seq(Step) /\ cmdBuf \in Queue /\ cmdBuf \in Seq(Command)
      /\ Len(cmdBuf) \in Nat /\ CommandsMax \in Nat /\ lost \in BOOLEAN
  BY DriverAssumption DEF DriverInv, TypeOK, Queue
<1>2. Claim(todo) \in Nat /\ 1 <= Claim(todo)
  BY <1>1 DEF Claim
<1>3. ~Full(cmdBuf) /\ Len(cmdBuf) + 1 < CommandsMax
  BY <1>1, <1>2 DEF Full, HasRoom
<1>4. CASE PushStep
  <2>1. /\ todo # << >> /\ Head(todo).op # "exec" /\ Head(todo) \in Step /\ todo' = Tail(todo)
        /\ cmdBuf' = Pushed(cmdBuf, Head(todo).cmd) /\ lost' = (lost \/ Full(cmdBuf))
        /\ UNCHANGED undefined
    BY <1>1, <1>4 DEF PushStep
  <2>2. Head(todo).cmd \in Command
    BY <2>1 DEF Step
  <2>3. Len(cmdBuf') = Len(cmdBuf) + 1
    BY <1>1, <1>3, <2>1, <2>2 DEF Pushed
  <2>4. Claim(todo') + 1 = Claim(todo) /\ Claim(todo') \in Nat
    BY <1>1, <2>1, ClaimOfRest
  <2>5. lost' = (lost \/ FALSE)
    BY <1>3, <2>1, Zenon
  <2> QED BY <1>1, <1>2, <2>1, <2>3, <2>4, <2>5 DEF HasRoom
<1>5. CASE ExecStep
  <2>1. todo # << >> /\ todo' = Tail(todo) /\ ExecuteOneCmd /\ UNCHANGED lost
    BY <1>5 DEF ExecStep
  <2>2. Claim(todo') <= Claim(todo) /\ Claim(todo') \in Nat
    BY <1>1, <2>1, ClaimOfRest
  <2>3. Len(cmdBuf') <= Len(cmdBuf) /\ Len(cmdBuf') \in Nat /\ undefined' = undefined
    <3>1. CASE cmdBuf' = cmdBuf /\ undefined' = undefined
      BY <1>1, <3>1
    <3>2. CASE cmdBuf # << >> /\ ExecuteOldest(cmdBuf, bus = "idle")
      <4>1. cmdBuf' = Tail(cmdBuf) /\ undefined' = undefined
        BY <1>3, <3>2 DEF ExecuteOldest
      <4> QED BY <1>1, <3>2, <4>1
    <3> QED BY <2>1, <3>1, <3>2 DEF ExecuteOneCmd
  <2> QED BY <1>1, <1>2, <2>1, <2>2, <2>3 DEF HasRoom
<1>6. CASE FssStep
  <2>1. todo # << >> /\ todo' = Tail(todo) /\ UNCHANGED << cmdBuf, lost, undefined >>
    BY <1>6 DEF FssStep
  <2>2. Claim(todo') <= Claim(todo) /\ Claim(todo') \in Nat
    BY <1>1, <2>1, ClaimOfRest
  <2> QED BY <1>1, <1>2, <2>1, <2>2 DEF HasRoom
<1>7. CASE TwiIsr
  <2>1. todo' = todo
    BY <1>7 DEF TwiIsr
  <2>2. CASE FifoSrcDone
    <3> DEFINE more == FifoSamplesNum < rxBuf
               buf  == IF more THEN Pushed(cmdBuf, ReadReg("OUT_X_L", rxBuf)) ELSE cmdBuf
    <3>1. lost' = (lost \/ (more /\ Full(cmdBuf))) /\ ExecuteOneCmdForce(buf)
      BY <2>2 DEF FifoSrcDone
    <3>2. lost' = lost
      <4>1. lost' = (lost \/ FALSE)
        BY <1>3, <3>1, Zenon
      <4> QED BY <1>1, <4>1
    <3>3. rxBuf \in Nat /\ ReadReg("OUT_X_L", rxBuf) \in Command
      BY <1>1, CommandTypes DEF TypeOK, Register
    <3>4. buf \in Queue
      BY <1>1, <3>3, PushKeepsQueue
    <3>5. Len(buf) <= Len(cmdBuf) + 1
      BY <1>1, <1>3, <3>3 DEF Pushed
    <3> HIDE DEF buf
    <3> QED BY <1>1, <2>1, <3>1, <3>2, <3>4, <3>5, ForceKeepsRoom
  <2>3. CASE (\E p \in Pin : IntSrcDone(p)) \/ SamplesDone \/ OtherDone
    <3>1. lost' = lost /\ ExecuteOneCmdForce(cmdBuf)
      BY <2>3 DEF IntSrcDone, SamplesDone, OtherDone
    <3>2. Len(cmdBuf) <= Len(cmdBuf) + 1
      BY <1>1
    <3> QED BY <1>1, <2>1, <3>1, <3>2, ForceKeepsRoom
  <2> QED BY <1>7, <2>2, <2>3 DEF TwiIsr
<1> QED BY <1>4, <1>5, <1>6, <1>7

\* A life starts with the room its start-up list needs.
LEMMA RoomAtStart == ASSUME Room PROVE Len(<< >>) + Claim(Lis3dhInit) < CommandsMax
<1>1. Len(<< >>) = 0 /\ 20 < CommandsMax /\ CommandsMax \in Nat
  BY DriverAssumption DEF Room
<1> QED BY <1>1, ClaimOfStartUp

\* In every life, up to the end of app_init, whatever the interrupts of the bus
\* and the motion they report add, the start-up list finds its room: no command
\* is refused and no uninitialised one is called.
THEOREM StartUpRefusesNothing == ASSUME Room PROVE NodeSpec => StartUpFits
<1>1. NodeInit => StartHasRoom
  BY RoomAtStart DEF NodeInit, Init, StartHasRoom, HasRoom
<1>2. NodeInv /\ StartHasRoom /\ [NodeNext]_allVars
        => /\ StartHasRoom'
           /\ [boot # "running" => UNCHANGED << lost, undefined >>]_allVars
  <2> DEFINE Fits == StartHasRoom' /\ (boot # "running" => UNCHANGED << lost, undefined >>)
  <2> SUFFICES ASSUME NodeInv, StartHasRoom, [NodeNext]_allVars PROVE Fits
    OBVIOUS
  <2>1. DriverInv
    BY DEF NodeInv, LoopInv
  <2>2. CASE UNCHANGED << cmdBuf, todo, lost, undefined >> /\ (boot' # "running" => boot # "running")
    BY <2>2 DEF StartHasRoom, HasRoom
  <2>3. CASE BootStep
    BY <2>2, <2>3 DEF BootStep, SubscribeAcc, EnableSensors, CreateScanTimer, StartScanTimer,
                      FinishBoot, Boots, vars, driverVars
  <2>4. CASE NodeTwiIsr \/ NodeMainStep
    <3>1. boot' = boot /\ (PushStep \/ ExecStep \/ FssStep \/ TwiIsr)
      BY <2>4 DEF NodeTwiIsr, NodeMainStep, nodeVars
    <3> QED BY <2>1, <3>1, RoomKept DEF StartHasRoom
  <2>5. CASE NodeRunTask
    BY <2>5 DEF NodeRunTask, nodeVars, StartHasRoom
  <2>6. ASSUME NEW p \in Pin, NodeGpioIsr(p) \/ NodeMotion(p) PROVE Fits
    BY <2>2, <2>6 DEF NodeGpioIsr, NodeMotion, GpioIsr, Motion, nodeVars, driverVars
  <2>7. CASE NodeTransfer
    BY <2>2, <2>7 DEF NodeTransfer, Transfer, TransferFails, driverVars
  <2>8. CASE ScanTimeout
    BY <2>8, RoomAtStart DEF ScanTimeout, ResetRam, StartHasRoom, HasRoom
  <2>9. CASE WakeUp
    BY <2>2, <2>9 DEF WakeUp
  <2>10. CASE UNCHANGED allVars
    BY <2>2, <2>10 DEF allVars, nodeVars, vars, driverVars
  <2> QED BY <2>3, <2>4, <2>5, <2>6, <2>7, <2>8, <2>9, <2>10 DEF NodeNext, BootStep
<1> QED BY <1>1, <1>2, NodeInvariance, PTL DEF NodeSpec, StartUpFits

\* A node's step is one of the driver's, or leaves the driver alone, or is the
\* reset of the next life.
LEMMA NodeStepOfDriver ==
  ASSUME [NodeNext]_allVars
  PROVE  \/ [Next]_vars
         \/ ~asleep /\ asleep'
         \/ UNCHANGED << cmdBuf, bus, wire, undefined >>
<1>1. CASE BootStep \/ UNCHANGED allVars
  BY <1>1 DEF BootStep, SubscribeAcc, EnableSensors, CreateScanTimer, StartScanTimer,
              FinishBoot, Boots, allVars
<1>2. CASE NodeTwiIsr \/ (\E p \in Pin : NodeGpioIsr(p))
  BY <1>2 DEF NodeTwiIsr, NodeGpioIsr, Awake, Next, Isr
<1>3. CASE NodeMainStep \/ NodeRunTask
  BY <1>3 DEF NodeMainStep, NodeRunTask, Awake, Next, Main
<1>4. CASE NodeTransfer \/ (\E p \in Pin : NodeMotion(p))
  BY <1>4 DEF NodeTransfer, NodeMotion, Awake, Next, Sensor
<1>5. CASE ScanTimeout
  BY <1>5 DEF ScanTimeout, Awake
<1>6. CASE WakeUp
  BY <1>6 DEF WakeUp
<1> QED BY <1>1, <1>2, <1>3, <1>4, <1>5, <1>6 DEF NodeNext, BootStep

\* In each life of the node the commands reach the sensor in the order in which
\* the start-up list, the interrupts and the clients submitted them.  None is
\* dropped but by the reset and by the collapse of a full g_cmd_buf.
THEOREM ServedInOrder ==
  NodeSpec => [][(~asleep /\ asleep') \/ [Pipe!Next]_(Pipe!pipeVars)]_allVars
<1>1. NodeInv /\ [NodeNext]_allVars
        => [(~asleep /\ asleep') \/ [Pipe!Next]_(Pipe!pipeVars)]_allVars
  <2> SUFFICES ASSUME NodeInv, [NodeNext]_allVars
               PROVE  (~asleep /\ asleep') \/ [Pipe!Next]_(Pipe!pipeVars)
    OBVIOUS
  <2>1. CASE [Next]_vars
    BY <2>1, NextIsPipeStep DEF NodeInv, LoopInv
  <2>2. CASE UNCHANGED << cmdBuf, bus, wire, undefined >>
    BY <2>2 DEF Pipe!pipeVars
  <2> QED BY <2>1, <2>2, NodeStepOfDriver
<1> QED BY <1>1, NodeInvariance, PTL DEF NodeSpec

\* Over all lives of the node a reply is decoded as the answer to its command,
\* the driver waits only for a transfer and strands nothing it should execute.
THEOREM NodeKeepsDriver ==
  NodeSpec => [](ReplyMatchesRequest /\ WaitsForTransfer /\ NoStrandedCommand)
<1>1. NodeInv => ReplyMatchesRequest /\ WaitsForTransfer /\ NoStrandedCommand
  BY DEF NodeInv, LoopInv, DriverInv, OneTransfer, WaitIsFounded, NothingForgotten,
         ReplyMatchesRequest, WaitsForTransfer, NoStrandedCommand
<1> QED BY <1>1, NodeInvariance, PTL
=============================================================================
