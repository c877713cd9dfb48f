---------------------------- MODULE WakeOnMotion ----------------------------
(***************************************************************************)
(* The life of the node: it boots, scans the windows for a while, sleeps   *)
(* in SYSTEM OFF and is woken by a pin of the accelerometer.               *)
(*                                                                         *)
(* The module composes the accelerometer driver with winsens.c (the scan   *)
(* timer and what motion does to it), with the start-up order of app.c,    *)
(* with pwr_mgr.c (shutdown, wake-up pins) and with digital_io.c (sense).  *)
(* SYSTEM OFF ends in a reset: the RAM is lost, the sensor keeps its       *)
(* registers and its latched interrupts, and goes on watching.             *)
(*                                                                         *)
(* The scan timer's interrupt has the priority of the others, and the call *)
(* chain WINSENS_EVT_IDLE, pwr_mgr_callback, shutdown, SYSTEM OFF runs in  *)
(* it: falling asleep is one step.  Nobody calls pwr_mgr_prevent, and      *)
(* WINSENS_EVT_WORKING is in no activity map: nobody reacts to it.         *)
(*                                                                         *)
(* app_timer of the SDK is external.  Create refuses a timer that runs,    *)
(* stop one that was never created, start ignores one that runs already;   *)
(* a stop takes back an expiry whose interrupt is still pending.           *)
(***************************************************************************)
EXTENDS AccDriver

CONSTANT
  BacklogMax  \* bound: the main loop takes up new work only while at most
              \* this many commands are queued

ASSUME NodeAssumption == BacklogMax \in Nat

VARIABLES
  boot,       \* how far app_init has come since the last reset: acc_init,
              \* acc_subscribed, enabled, timer_created, scan_started, running
  enabled,    \* g_sensors_enabled of winsens.c
  probing,    \* g_enabled of distance.c: the windows are measured
  scanTimer,  \* g_timer of winsens.c: unmade, made (stopped) or running
  heard,      \* history: motion was heard since the scan timer was started
  settled,    \* since the reset the start-up list was served, or a transfer failed
  asleep      \* SYSTEM OFF

scanVars == << enabled, probing, scanTimer, heard >>
nodeVars == << boot, scanVars, settled, asleep >>
allVars == << vars, nodeVars >>

NodeInit ==
  /\ Init
  /\ boot = "acc_init"
  /\ enabled = FALSE /\ probing = FALSE
  /\ scanTimer = "unmade" /\ heard = FALSE
  /\ settled = FALSE /\ asleep = FALSE

Awake == ~asleep /\ ~undefined

-----------------------------------------------------------------------------
(***************************************************************************)
(* The start-up after acc_init, which goes on while the interrupts of the  *)
(* bus serve the start-up list and hear of motion.                         *)
(***************************************************************************)
\* A step of app_init after which it has come to the stage next.
Boots(stage, next) ==
  /\ Awake /\ boot = stage
  /\ boot' = next
  /\ UNCHANGED << vars, settled, asleep >>

\* winsens_init: acc_subscribe(acc_evt_handler).
SubscribeAcc ==
  /\ Boots("acc_init", "acc_subscribed") /\ todo = << >>
  /\ UNCHANGED scanVars

\* winsens_init: g_sensors_enabled = true.
EnableSensors ==
  /\ Boots("acc_subscribed", "enabled")
  /\ enabled' = TRUE
  /\ UNCHANGED << probing, scanTimer, heard >>

\* The first half of timer_start: app_timer_create.  It refuses the timer that
\* motion has started meanwhile, and timer_start returns.
CreateScanTimer ==
  \/ /\ scanTimer = "running" /\ Boots("enabled", "scan_started")
     /\ UNCHANGED scanVars
  \/ /\ scanTimer # "running" /\ Boots("enabled", "timer_created")
     /\ scanTimer' = "made"
     /\ UNCHANGED << enabled, probing, heard >>

\* The second half: app_timer_start, which leaves a running timer alone.
StartScanTimer ==
  /\ Boots("timer_created", "scan_started")
  /\ scanTimer' = "running"
  /\ heard' = (heard /\ scanTimer = "running")
  /\ UNCHANGED << enabled, probing >>

\* The rest of app_init: window_state_init enables the distance sensors; then
\* app_run serves the task queue.
FinishBoot ==
  /\ Boots("scan_started", "running")
  /\ probing' = TRUE
  /\ UNCHANGED << enabled, scanTimer, heard >>

-----------------------------------------------------------------------------
(***************************************************************************)
(* winsens.c on top of the driver.                                         *)
(***************************************************************************)
\* timer_start and timer_restart, called in an interrupt: both halves at once,
\* but the call returns after the first when app_timer refuses it.
TimerCall(refused) ==
  /\ scanTimer' = IF refused THEN scanTimer ELSE "running"
  /\ heard' = refused

\* Mistake: motion always calls timer_start, which a running timer refuses.
BugAccEvtHandler ==
  /\ TimerCall(scanTimer = "running")
  /\ probing' = TRUE
  /\ enabled' = TRUE

\* ACC_EVT_HIPASS_INT: the first motion enables the sensors and starts the
\* timer, later motion restarts it.
AccEvtHandler ==
  /\ \/ /\ ~enabled /\ TimerCall(scanTimer = "running")
        /\ probing' = TRUE
     \/ /\ enabled /\ TimerCall(scanTimer = "unmade")
        /\ UNCHANGED probing
  /\ enabled' = TRUE

\* int1_src_handler publishes motion to winsens.c once it has subscribed.
MotionHeard == Publishes("HPF") /\ boot # "acc_init"

NodeTwiIsr ==
  /\ Awake /\ TwiIsr
  /\ IF MotionHeard THEN AccEvtHandler ELSE UNCHANGED scanVars
  /\ UNCHANGED << boot, asleep, settled >>

NodeGpioIsr(p) ==
  /\ Awake /\ GpioIsr(p)
  /\ UNCHANGED nodeVars

\* Steps of the function the main loop is in.
NodeMainStep ==
  /\ Awake /\ (PushStep \/ ExecStep \/ FssStep)
  /\ UNCHANGED nodeVars

\* Tasks and BLE events wait for the end of the start-up.
NodeRunTask ==
  /\ Awake /\ boot = "running" /\ Len(cmdBuf) <= BacklogMax
  /\ RunTask \/ \E p \in Pin, t \in Thresholds : SetThreshold(p, t)
  /\ UNCHANGED nodeVars

NodeTransfer ==
  /\ Awake /\ (Transfer \/ TransferFails)
  /\ settled' = (settled \/ wire.reg = "REFERENCE" \/ bus' = "idle")
  /\ UNCHANGED << boot, scanVars, asleep >>

\* The sensor watches whether the node is awake or not.
NodeMotion(p) ==
  /\ ~undefined /\ Motion(p)
  /\ UNCHANGED nodeVars

-----------------------------------------------------------------------------
(***************************************************************************)
(* Sleep and wake-up.                                                      *)
(***************************************************************************)
\* Mistake: the thresholds are kept over the reset, the list writes the defaults.
BugResetRam ==
  /\ cmdBuf' = << >> /\ accState' = "IDLE"
  /\ txBuf' = ZeroCmd /\ rxBuf' = 0 /\ gFss' = 0
  /\ readBuf' = [len |-> 0, full |-> FALSE]
  /\ tasks' = << >> /\ todo' = Lis3dhInit
  /\ bus' = "idle" /\ wire' = ZeroCmd
  /\ boot' = "acc_init" /\ settled' = FALSE
  /\ enabled' = FALSE /\ probing' = FALSE
  /\ scanTimer' = "unmade" /\ heard' = FALSE
  /\ UNCHANGED threshold

\* What a reset leaves of the driver: the RAM of a program that starts, an
\* idle bus, and gpiote armed against the level each pin has by then.
ResetRam ==
  /\ cmdBuf' = << >> /\ accState' = "IDLE"
  /\ txBuf' = ZeroCmd /\ rxBuf' = 0 /\ gFss' = 0
  /\ threshold' = BootThreshold
  /\ readBuf' = [len |-> 0, full |-> FALSE]
  /\ tasks' = << >> /\ todo' = Lis3dhInit
  /\ bus' = "idle" /\ wire' = ZeroCmd
  /\ boot' = "acc_init" /\ settled' = FALSE
  /\ enabled' = FALSE /\ probing' = FALSE
  /\ scanTimer' = "unmade" /\ heard' = FALSE

\* tmr_evt_handler: the scan has lasted WINSENS_SCAN_DURATION since the last
\* motion.  A transfer under way is cut (i2c.c on PREPARE_TO_SLEEP).  The ten
\* seconds of the timer outlast the start-up: guards boot and settled.
ScanTimeout ==
  /\ Awake /\ scanTimer = "running" /\ boot = "running" /\ settled
  /\ asleep' = TRUE
  /\ ResetRam
  /\ UNCHANGED << undefined, lost, sets, latched, armed, ths, sensed, fails >>

\* Mistake: only the motion pin is in PWR_MGR_CFG_WAKEUP_PINS.
BugWakeUpPins == {"HPF"}

\* PWR_MGR_CFG_WAKEUP_PINS, each with SENSE_HIGH.
WakeUpPins == Pin

\* A pin that is high, or was high already at SYSTEM OFF, resets the node.
WakeUp ==
  /\ asleep /\ \E p \in WakeUpPins : latched[p]
  /\ asleep' = FALSE
  /\ sensed' = latched
  /\ UNCHANGED << cmdBuf, accState, txBuf, rxBuf, gFss, threshold, readBuf, tasks,
                  todo, undefined, lost, sets, bus, wire, latched, armed, ths,
                  fails, boot, scanVars, settled >>

NodeNext ==
  \/ SubscribeAcc \/ EnableSensors \/ CreateScanTimer \/ StartScanTimer \/ FinishBoot
  \/ NodeTwiIsr \/ \E p \in Pin : NodeGpioIsr(p)
  \/ NodeMainStep \/ NodeRunTask
  \/ NodeTransfer \/ \E p \in Pin : NodeMotion(p)
  \/ ScanTimeout \/ WakeUp

NodeSpec == NodeInit /\ [][NodeNext]_allVars

\* The processor and the bus go on.  The timer fires, unless motion restarts
\* it again and again.  Nothing obliges anything to move.
NodeFairness ==
  /\ WF_allVars(\/ SubscribeAcc \/ EnableSensors \/ CreateScanTimer
                \/ StartScanTimer \/ FinishBoot)
  /\ WF_allVars(NodeTwiIsr)
  /\ \A p \in Pin : WF_allVars(NodeGpioIsr(p))
  /\ WF_allVars(NodeMainStep)
  /\ WF_allVars(NodeRunTask /\ RunTask)
  /\ WF_allVars(NodeTransfer)
  /\ WF_allVars(WakeUp)
  /\ \/ WF_allVars(ScanTimeout)
     \/ []<><<NodeTwiIsr /\ MotionHeard>>_allVars

FairNodeSpec == NodeSpec /\ NodeFairness

-----------------------------------------------------------------------------
(***************************************************************************)
(* Properties.                                                             *)
(***************************************************************************)
\* g_cmd_buf takes the start-up list (the backlog of a node that is up may
\* fill it): until app_init is over no command is refused, with
\* whatever commands the interrupts add, and none is popped from a full buffer.
StartUpFits ==
  [][boot # "running" => UNCHANGED << lost, undefined >>]_allVars

\* A node that is up measures, and will sleep WINSENS_SCAN_DURATION after the
\* last motion and not before: its scan timer runs and was started after the
\* last motion it heard, though that may come between any two steps of
\* winsens_init, where timer_start and timer_restart refuse some calls.
ScanFollowsMotion ==
  /\ Awake /\ boot \in {"scan_started", "running"} => scanTimer = "running" /\ ~heard
  /\ Awake /\ boot = "running" => probing

\* A node never sleeps with a sensor that would not wake it: both interrupts
\* were configured before, or a transfer of the start-up failed.
SleepsArmed == asleep /\ fails = 0 => \A p \in Pin : armed[p]

\* After a wake-up the driver starts from its default thresholds while the
\* sensor still has those of the last client: what the sensor will be left
\* with is what the driver says, in every life of the node.
ThresholdSurvives == ~asleep => ThresholdFaithful

\* A latched motion interrupt is read and released, although a level that
\* rises again before gpiote looks is an edge nobody sees: then the pin stays
\* high until the node sleeps, wakes it at once, and the start-up list reads
\* it.  A free fall missed in this way waits until motion lets the node sleep.
InterruptServed ==
  /\ latched["HPF"] ~> (~latched["HPF"] \/ fails > 0)
  /\ \/ latched["FF"] ~> (~latched["FF"] \/ fails > 0)
     \/ []<><<NodeTwiIsr /\ MotionHeard>>_allVars
=============================================================================
