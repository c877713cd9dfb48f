------------------------------ MODULE Sensing ------------------------------
(***************************************************************************)
(* From the converter to the window: hal/adc/nrf52/adc.c and its clients   *)
(* distance.c (the reflection sensor and its power), battery.c (the supply *)
(* against which the distance is measured) and window_state.c, with the BLE*)
(* observer that publishes the verdict.                                    *)
(*                                                                         *)
(* The converter is shared: the distance timer and the battery timer ask   *)
(* for a conversion whenever they fire, a request that finds the converter *)
(* busy is kept in g_ch_mask_queue, and the interrupt of the running       *)
(* conversion starts what is kept.  Timers and the converter interrupt at  *)
(* one priority: their handlers are atomic.  The samples travel to the main*)
(* loop as tasks; while a sample is worked off no interrupt touches what   *)
(* the task touches, but for the power of the sensor, which the next cycle *)
(* switches on nearly a second later.  So a task is one step, and a cycle  *)
(* starts when the last one is over (CycleOver).                           *)
(***************************************************************************)
EXTENDS Integers, Sequences

CONSTANTS
  Reflections,  \* raw readings of the powered sensor
  Darkness,     \* the raw reading of the sensor without power
  Supplies,     \* raw readings of VDD
  Thresholds,   \* the thresholds (mV) a client may set
  FirstThreshold, \* WINDOW_STATE_CFG_THRESHOLD_INIT
  TasksMax      \* TASK_QUEUE_CFG_QUEUE_SIZE

Int16 == -32768 .. 32767

ASSUME SensingAssumption ==
  /\ Reflections \subseteq -255 .. 255 /\ Darkness \in -255 .. 255
  /\ Supplies \subseteq -255 .. 255
  /\ Thresholds \subseteq Int16 /\ FirstThreshold \in Int16
  /\ TasksMax \in Nat \ {0}

\* The channels in the order of their numbers, ADC_CFG_CHANNEL_INIT.
ChannelOrder == << "WIN_DISTANCE", "BATTERY" >>

Channel == {"WIN_DISTANCE", "BATTERY"}

\* What a conversion leaves in a place of g_adc_buffer; channel is ghost.
Sample == [channel : Channel, raw : Int]

\* adc_event_t, with the sample the value was taken from.
Task == [id : Channel, sample : Sample]

VARIABLES
  queue,      \* g_ch_mask_queue
  triggered,  \* g_ch_triggered
  conv,       \* the converter: idle, busy, or done (interrupt pending)
  converting, \* the channels the converter was set up for
  buffer,     \* g_adc_buffer
  tasks,      \* adc_event_handler tasks, oldest first
  power,      \* the power pin of the distance sensor
  probeTimer, \* g_probe_tmr of distance.c runs
  distance,   \* g_values of distance.c
  voltage,    \* g_voltage of battery.c
  threshold,  \* g_open_closed_thresholds
  window,     \* g_window_state
  published,  \* the value of the characteristic WMS_STATE
  reflection, \* what the sensor would read now
  supply      \* what VDD would read now

adcVars == << queue, triggered, conv, converting, buffer >>
clientVars == << distance, voltage, threshold, window, published >>
worldVars == << reflection, supply >>
vars == << adcVars, tasks, power, probeTimer, clientVars, worldVars >>

Verdicts == {"UNKNOWN", "OPEN", "CLOSED"}

TypeOK ==
  /\ queue \subseteq Channel /\ triggered \subseteq Channel
  /\ converting \subseteq Channel
  /\ conv \in {"idle", "busy", "done"}
  /\ buffer \in [1 .. Len(ChannelOrder) -> Sample]
  /\ tasks \in Seq(Task) /\ Len(tasks) <= TasksMax
  /\ power \in BOOLEAN /\ probeTimer \in BOOLEAN
  /\ distance \in Int16 /\ voltage \in Int16 /\ threshold \in Int16
  /\ window \in Verdicts /\ published \in Verdicts
  /\ reflection \in Reflections /\ supply \in Supplies

-----------------------------------------------------------------------------
(***************************************************************************)
(* adc.c.                                                                  *)
(***************************************************************************)
\* Mistake: ADC_CFG_RESOLUTION counts bits instead of steps.
BugAdcGetVoltage(raw) ==
  IF raw < 0 THEN -((-raw * 3600) \div 8) ELSE (raw * 3600) \div 8

\* adc_get_voltage: mV, rounded towards zero as C does.
AdcGetVoltage(raw) ==
  IF raw < 0 THEN -((-raw * 3600) \div 256) ELSE (raw * 3600) \div 256

\* Mistake: what was asked for is taken for what was triggered.
BugProbe(mask, busy) ==
  LET asked == queue \cup mask
  IN  /\ triggered' = asked
      /\ queue' = IF busy THEN asked ELSE {}
      /\ converting' = IF busy THEN converting ELSE asked
      /\ conv' = IF busy THEN conv ELSE "busy"

\* Mistake: a request the converter refuses is dropped.
BugProbeDrops(mask, busy) ==
  IF busy
    THEN UNCHANGED << queue, triggered, conv, converting >>
    ELSE /\ triggered' = queue \cup mask /\ converting' = queue \cup mask
         /\ conv' = "busy" /\ queue' = {}

\* probe and trigger_adc: add the channels to those queued, and convert them
\* all unless a conversion runs.
Probe(mask, busy) ==
  \/ /\ busy
     /\ queue' = queue \cup mask
     /\ UNCHANGED << triggered, conv, converting >>
  \/ /\ ~busy
     /\ queue' = {}
     /\ triggered' = queue \cup mask
     /\ converting' = queue \cup mask
     /\ conv' = "busy"

\* The channels of a mask in ascending order: the loop over the bits of the mask.
InOrder(mask) ==
  LET taken(c) == IF c \in mask THEN << c >> ELSE << >>
  IN  taken(ChannelOrder[1]) \o taken(ChannelOrder[2])

\* adc_isr: one task for every channel of g_ch_triggered, then the conversion
\* that was queued meanwhile.
AdcIsr ==
  LET ids    == InOrder(triggered)
      posted == tasks \o [i \in 1 .. Len(ids) |-> [id |-> ids[i], sample |-> buffer[i]]]
  IN  /\ conv = "done"
      /\ tasks' = SubSeq(posted, 1, IF Len(posted) < TasksMax THEN Len(posted)
                                                              ELSE TasksMax)
      /\ IF queue = {}
           THEN /\ triggered' = {} /\ conv' = "idle"
                /\ UNCHANGED << queue, converting >>
           ELSE Probe(queue, FALSE)
      /\ UNCHANGED << buffer, power, probeTimer, clientVars, worldVars >>

-----------------------------------------------------------------------------
(***************************************************************************)
(* The timers.                                                             *)
(***************************************************************************)
DistanceAsked ==
  "WIN_DISTANCE" \in queue \cup (IF conv = "idle" THEN {} ELSE converting)

BatteryAsked == "BATTERY" \in queue \cup (IF conv = "idle" THEN {} ELSE converting)

Outstanding(c) == \E i \in 1 .. Len(tasks) : tasks[i].id = c

\* Bound on the delay of the main loop: what the last tick asked for is over
\* within DISTANCE_CFG_PROBE_INTERVAL_MS - DISTANCE_CFG_PROBE_DELAY_MS.
CycleOver == ~probeTimer /\ ~DistanceAsked /\ ~Outstanding("WIN_DISTANCE")

\* pwr_tmr_evt_handler of distance.c: light the sensor, let it settle.
PwrTimer ==
  /\ CycleOver
  /\ power' = TRUE /\ probeTimer' = TRUE
  /\ UNCHANGED << adcVars, tasks, clientVars, worldVars >>

\* probe_tmr_evt_handler of distance.c.
ProbeTimer ==
  /\ probeTimer
  /\ probeTimer' = FALSE
  /\ Probe({"WIN_DISTANCE"}, conv # "idle")
  /\ UNCHANGED << buffer, tasks, power, clientVars, worldVars >>

\* timer_evt_handler and check_lvl of battery.c, every 3333 ms.
BatteryTimer ==
  /\ ~BatteryAsked /\ ~Outstanding("BATTERY")
  /\ Probe({"BATTERY"}, conv # "idle")
  /\ UNCHANGED << buffer, tasks, power, probeTimer, clientVars, worldVars >>

-----------------------------------------------------------------------------
(***************************************************************************)
(* The main loop: adc_event_handler calls the client of the channel.       *)
(***************************************************************************)
\* distance_callback of window_state.c.
Verdict(mV, th) == IF th < mV THEN "OPEN" ELSE "CLOSED"

\* The state is stored, then the observer publishes window_state_get.
DistanceCallback(mV) ==
  /\ window' = Verdict(mV, threshold)
  /\ published' = window'

\* Mistake: the power stays on between the samples.
BugStaysLit(raw) ==
  /\ distance' = voltage - AdcGetVoltage(raw)
  /\ DistanceCallback(distance')
  /\ UNCHANGED << power, voltage >>

\* adc_evt_handler of distance.c: the distance is what the sensor leaves of
\* the supply as it was measured last; 0 V until it was measured.
AdcEvtHandler(raw) ==
  /\ power' = FALSE
  /\ distance' = voltage - AdcGetVoltage(raw)
  /\ DistanceCallback(distance')
  /\ UNCHANGED voltage

\* Mistake: every sample switches the sensor off.
BugAdcCallback(raw) ==
  /\ voltage' = AdcGetVoltage(raw)
  /\ power' = FALSE
  /\ UNCHANGED << distance, window, published >>

\* adc_callback of battery.c.
AdcCallback(raw) ==
  /\ voltage' = AdcGetVoltage(raw)
  /\ UNCHANGED << power, distance, window, published >>

RunTask ==
  /\ tasks # << >>
  /\ tasks' = Tail(tasks)
  /\ LET t == Head(tasks)
     IN  IF t.id = "WIN_DISTANCE" THEN AdcEvtHandler(t.sample.raw)
                                  ELSE AdcCallback(t.sample.raw)
  /\ UNCHANGED << adcVars, probeTimer, threshold, worldVars >>

\* window_state_threshold_set, from a write to the characteristic.  No new
\* verdict; the observer takes the threshold for a window id and publishes the
\* state of window 0 again when the threshold is 0 (mod 256).
ThresholdSet(th) ==
  /\ threshold' = th
  /\ published' = IF th % 256 = 0 THEN window ELSE published
  /\ UNCHANGED << adcVars, tasks, power, probeTimer, distance, voltage, window,
                  worldVars >>

-----------------------------------------------------------------------------
(***************************************************************************)
(* The converter and the world.                                            *)
(***************************************************************************)
Reading(c) ==
  [channel |-> c,
   raw |-> CASE c = "BATTERY"                -> supply
             [] c = "WIN_DISTANCE" /\ power  -> reflection
             [] c = "WIN_DISTANCE" /\ ~power -> Darkness]

\* The channels of the mask, in ascending order, fill the buffer.
Convert ==
  LET channels == InOrder(converting)
  IN  /\ conv = "busy"
      /\ conv' = "done"
      /\ buffer' = [i \in DOMAIN buffer |-> IF i <= Len(channels)
                                              THEN Reading(channels[i]) ELSE buffer[i]]
      /\ UNCHANGED << queue, triggered, converting, tasks, power, probeTimer,
                      clientVars, worldVars >>

WindowMoves(r) ==
  /\ reflection' = r
  /\ UNCHANGED << adcVars, tasks, power, probeTimer, clientVars, supply >>

SupplyMoves(s) ==
  /\ supply' = s
  /\ UNCHANGED << adcVars, tasks, power, probeTimer, clientVars, reflection >>

\* After window_state_init, distance_enable and the observer's start.
Init ==
  /\ queue = {} /\ triggered = {} /\ conv = "idle" /\ converting = {}
  /\ buffer = [i \in 1 .. Len(ChannelOrder) |-> [channel |-> "WIN_DISTANCE", raw |-> 0]]
  /\ tasks = << >>
  /\ power = FALSE /\ probeTimer = FALSE
  /\ distance = 0 /\ voltage = 0 /\ threshold = FirstThreshold
  /\ window = "UNKNOWN" /\ published = "UNKNOWN"
  /\ reflection \in Reflections /\ supply \in Supplies

Next ==
  \/ PwrTimer \/ ProbeTimer \/ BatteryTimer
  \/ Convert \/ AdcIsr \/ RunTask
  \/ \E th \in Thresholds : ThresholdSet(th)
  \/ \E r \in Reflections : WindowMoves(r)
  \/ \E s \in Supplies : SupplyMoves(s)

Spec == Init /\ [][Next]_vars

\* The timers tick, a conversion ends, its interrupt is taken, tasks are run.
Fairness ==
  /\ WF_vars(PwrTimer) /\ WF_vars(ProbeTimer) /\ WF_vars(BatteryTimer)
  /\ WF_vars(Convert) /\ WF_vars(AdcIsr) /\ WF_vars(RunTask)

FairSpec == Spec /\ Fairness

-----------------------------------------------------------------------------
(***************************************************************************)
(* Properties.                                                             *)
(***************************************************************************)
\* Every sample reaches the client of the channel it was taken from, though
\* requests come in while a conversion runs and are merged into the next one.
SamplesArriveHome == \A i \in 1 .. Len(tasks) : tasks[i].sample.channel = tasks[i].id

\* The sensor, which drains the battery, has power while a cycle of it is under
\* way and never else: through the timer that lets it settle, a request that waits
\* or is merged, the conversion, its interrupt and the task, one step always
\* remains that leads to the task that switches it off.
LitInCycle == power <=> ~CycleOver

\* The sensor, which drains the battery, is switched off again and again.
GoesDark == power ~> ~power

\* A window that rests is judged right: when reflection, supply and threshold
\* stay what they are, the published state becomes the verdict on them, in
\* spite of samples that were taken before the last change.
Settles ==
  \A r \in Reflections, s \in Supplies, th \in Thresholds \cup {FirstThreshold} :
    <>[](reflection = r /\ supply = s /\ threshold = th)
      => <>[](published = Verdict(AdcGetVoltage(s) - AdcGetVoltage(r), th))
=============================================================================
