---------------------------- MODULE SensingProofs ----------------------------
(***************************************************************************)
(* The converter and its clients, for every set of readings an 8 bit       *)
(* conversion has, every set of thresholds and every size of the queue.    *)
(*                                                                         *)
(* That a sample arrives home needs the pairing of g_ch_triggered with     *)
(* what the converter was set up for (Home), through every merge of        *)
(* requests.  That the sensor is lit while it is converted needs that a    *)
(* cycle of it is in one place only: the timer, the queued mask, the       *)
(* converter or a task (Cycle).  That it goes dark afterwards needs that   *)
(* no sample is refused: there is never more than one task of a channel    *)
(* (Once), so two places are enough.                                       *)
(***************************************************************************)
EXTENDS Sensing, TLAPS

Raw == -255 .. 255

RawSample == [channel : Channel, raw : Raw]

RawTask == [id : Channel, sample : RawSample]

\* 255 steps of 3600 mV / 256.
Voltage == -3585 .. 3585

Types ==
  /\ queue \subseteq Channel /\ triggered \subseteq Channel
  /\ converting \subseteq Channel
  /\ conv \in {"idle", "busy", "done"}
  /\ buffer \in [1 .. 2 -> RawSample]
  /\ tasks \in Seq(RawTask) /\ Len(tasks) <= TasksMax
  /\ power \in BOOLEAN /\ probeTimer \in BOOLEAN
  /\ distance \in Int16 /\ voltage \in Voltage /\ threshold \in Int16
  /\ window \in Verdicts /\ published \in Verdicts
  /\ reflection \in Reflections /\ supply \in Supplies

\* What the converter converts is what its interrupt takes it to have converted.
Matched ==
  /\ conv = "idle" => triggered = {} /\ queue = {}
  /\ conv # "idle" => triggered = converting
  /\ conv = "done" => \A i \in 1 .. Len(InOrder(converting)) :
                        buffer[i].channel = InOrder(converting)[i]

Home == SamplesArriveHome /\ Matched

Converted == conv # "idle" /\ "WIN_DISTANCE" \in converting

\* Where the cycle of the sensor is.
Cycle ==
  /\ probeTimer => ~Converted /\ "WIN_DISTANCE" \notin queue
                   /\ ~Outstanding("WIN_DISTANCE")
  /\ "WIN_DISTANCE" \in queue => ~Converted /\ ~Outstanding("WIN_DISTANCE")
  /\ Converted => ~Outstanding("WIN_DISTANCE")
  /\ \A i, j \in 1 .. Len(tasks) :
       tasks[i].id = "WIN_DISTANCE" /\ tasks[j].id = "WIN_DISTANCE" => i = j
  /\ probeTimer \/ "WIN_DISTANCE" \in queue \/ (conv = "busy" /\ Converted) => power

Inv == Types /\ Home /\ Cycle

-----------------------------------------------------------------------------
(***************************************************************************)
(* The operators.                                                          *)
(***************************************************************************)
\* The channels of a mask, each of them once.
LEMMA InOrderLists ==
  ASSUME NEW mask
  PROVE  /\ InOrder(mask) \in Seq(Channel) /\ Len(InOrder(mask)) \in 0 .. 2
         /\ \A i \in 1 .. Len(InOrder(mask)) : InOrder(mask)[i] \in mask
         /\ \A i, j \in 1 .. Len(InOrder(mask)) :
              InOrder(mask)[i] = InOrder(mask)[j] => i = j
<1> DEFINE d == "WIN_DISTANCE" \in mask
           b == "BATTERY" \in mask
<1>1. CASE d /\ b
  <2>1. InOrder(mask) = << "WIN_DISTANCE" >> \o << "BATTERY" >>
    BY <1>1 DEF InOrder, ChannelOrder
  <2> QED BY <1>1, <2>1 DEF Channel
<1>2. CASE d /\ ~b
  <2>1. InOrder(mask) = << "WIN_DISTANCE" >>
    BY <1>2 DEF InOrder, ChannelOrder
  <2> QED BY <1>2, <2>1 DEF Channel
<1>3. CASE ~d /\ b
  <2>1. InOrder(mask) = << "BATTERY" >>
    BY <1>3 DEF InOrder, ChannelOrder
  <2> QED BY <1>3, <2>1 DEF Channel
<1>4. CASE ~d /\ ~b
  <2>1. InOrder(mask) = << >>
    BY <1>4 DEF InOrder, ChannelOrder
  <2> QED BY <2>1
<1> QED BY <1>1, <1>2, <1>3, <1>4

LEMMA VoltageRange ==
  ASSUME NEW raw \in Raw
  PROVE  AdcGetVoltage(raw) \in Voltage
BY DEF AdcGetVoltage, Raw, Voltage

LEMMA DistanceRange ==
  ASSUME NEW a \in Voltage, NEW b \in Voltage
  PROVE  a - b \in Int16
<1>1. a - b \in -7170 .. 7170
  BY DEF Voltage
<1> QED BY <1>1 DEF Int16

\* A request leaves the converter with what it will be taken to have converted.
LEMMA ProbeMatches ==
  ASSUME Types, Matched, NEW mask \in SUBSET Channel,
         NEW busy \in BOOLEAN, busy <=> conv # "idle",
         Probe(mask, busy), UNCHANGED buffer
  PROVE  /\ queue' \subseteq Channel /\ triggered' \subseteq Channel
         /\ converting' \subseteq Channel /\ conv' \in {"idle", "busy", "done"}
         /\ Matched'
<1>1. CASE busy
  BY <1>1 DEF Probe, Types, Matched
<1>2. CASE ~busy
  BY <1>2 DEF Probe, Types, Matched
<1> QED BY <1>1, <1>2

\* What an action does that neither samples nor posts.
LEMMA SameTasks ==
  ASSUME SamplesArriveHome, UNCHANGED tasks
  PROVE  SamplesArriveHome'
BY DEF SamplesArriveHome

\* The conversion of the channels that were asked for.
LEMMA ConvertKeeps == Inv /\ Convert => Inv'
<1> SUFFICES ASSUME Inv, Convert PROVE Inv'
  OBVIOUS
<1> DEFINE channels == InOrder(converting)
<1>1. /\ conv = "busy" /\ conv' = "done"
      /\ buffer' = [i \in DOMAIN buffer |-> IF i <= Len(channels)
                                              THEN Reading(channels[i]) ELSE buffer[i]]
      /\ UNCHANGED << queue, triggered, converting, tasks, power, probeTimer,
                      clientVars, worldVars >>
  BY DEF Convert
<1>2. Types /\ Home /\ Cycle
  BY DEF Inv
<1>3. channels \in Seq(Channel) /\ Len(channels) \in 0 .. 2
  BY InOrderLists
<1>4. \A c \in Channel : Reading(c) \in RawSample /\ Reading(c).channel = c
  <2> SUFFICES ASSUME NEW c \in Channel
               PROVE  Reading(c) \in RawSample /\ Reading(c).channel = c
    OBVIOUS
  <2>1. supply \in Raw /\ reflection \in Raw /\ Darkness \in Raw /\ power \in BOOLEAN
    BY <1>2, SensingAssumption DEF Types, Raw
  <2> QED BY <2>1 DEF Reading, RawSample, Channel
<1>5. \A i \in 1 .. Len(channels) : channels[i] \in Channel
  BY <1>3
<1> HIDE DEF channels
<1>6. buffer' \in [1 .. 2 -> RawSample]
      /\ \A i \in 1 .. Len(channels) : buffer'[i].channel = channels[i]
  <2>1. DOMAIN buffer = 1 .. 2 /\ \A i \in 1 .. 2 : buffer[i] \in RawSample
    BY <1>2 DEF Types
  <2> QED BY <1>1, <1>3, <1>4, <1>5, <2>1
<1>7. Types'
  BY <1>1, <1>2, <1>6 DEF Types, clientVars, worldVars
<1>8. Matched'
  BY <1>1, <1>2, <1>6 DEF Home, Matched, channels
<1>9. SamplesArriveHome'
  BY <1>1, <1>2, SameTasks DEF Home
<1>10. Cycle'
  <2>1. Converted' = Converted /\ Outstanding("WIN_DISTANCE")' = Outstanding("WIN_DISTANCE")
    BY <1>1 DEF Converted, Outstanding
  <2> QED BY <1>1, <1>2, <2>1 DEF Cycle
<1> QED BY <1>7, <1>8, <1>9, <1>10 DEF Inv, Home

\* A request of a timer: tasks, power and the rest stay.
LEMMA PwrTimerKeeps == Inv /\ PwrTimer => Inv'
<1> SUFFICES ASSUME Inv, PwrTimer PROVE Inv'
  OBVIOUS
<1>1. Types'
  BY DEF Inv, Types, PwrTimer, adcVars, clientVars, worldVars
<1>2. Home'
  BY SameTasks DEF Inv, Home, Matched, PwrTimer, adcVars
<1>3. Cycle'
  <2>1. ~Converted /\ "WIN_DISTANCE" \notin queue /\ ~Outstanding("WIN_DISTANCE")
    BY DEF PwrTimer, CycleOver, DistanceAsked, Converted
  <2>2. Converted' = Converted /\ Outstanding("WIN_DISTANCE")' = Outstanding("WIN_DISTANCE")
    BY DEF PwrTimer, adcVars, Converted, Outstanding
  <2> QED BY <2>1, <2>2 DEF Inv, Cycle, PwrTimer, adcVars
<1> QED BY <1>1, <1>2, <1>3 DEF Inv

LEMMA ProbeTimerKeeps == Inv /\ ProbeTimer => Inv'
<1> SUFFICES ASSUME Inv, ProbeTimer PROVE Inv'
  OBVIOUS
<1>1. /\ probeTimer /\ probeTimer' = FALSE
      /\ Probe({"WIN_DISTANCE"}, conv # "idle")
      /\ UNCHANGED << buffer, tasks, power, clientVars, worldVars >>
  BY DEF ProbeTimer
<1>2. Types /\ Home /\ Cycle
  BY DEF Inv
<1>3. /\ queue' \subseteq Channel /\ triggered' \subseteq Channel
      /\ converting' \subseteq Channel /\ conv' \in {"idle", "busy", "done"}
      /\ Matched'
  <2>1. {"WIN_DISTANCE"} \in SUBSET Channel
    BY DEF Channel
  <2>2. (conv # "idle") \in BOOLEAN
    OBVIOUS
  <2> QED BY <1>1, <1>2, <2>1, <2>2, ProbeMatches DEF Home
<1>4. Types'
  BY <1>1, <1>2, <1>3 DEF Types, clientVars, worldVars
<1>5. SamplesArriveHome'
  BY <1>1, <1>2, SameTasks DEF Home
<1>6. Cycle'
  <2>1. Outstanding("WIN_DISTANCE")' = Outstanding("WIN_DISTANCE")
    BY <1>1 DEF Outstanding
  <2>2. /\ ~Converted /\ "WIN_DISTANCE" \notin queue /\ ~Outstanding("WIN_DISTANCE")
        /\ power
    BY <1>1, <1>2 DEF Cycle
  <2>3. CASE conv # "idle"
    <3>1. Converted' = Converted
      BY <1>1, <2>3 DEF Probe, Converted
    <3> QED BY <1>1, <1>2, <2>1, <2>2, <3>1 DEF Cycle
  <2>4. CASE conv = "idle"
    <3>1. queue' = {}
      BY <1>1, <2>4 DEF Probe
    <3> QED BY <1>1, <1>2, <2>1, <2>2, <3>1 DEF Cycle
  <2> QED BY <2>3, <2>4
<1> QED BY <1>3, <1>4, <1>5, <1>6 DEF Inv, Home

LEMMA BatteryTimerKeeps == Inv /\ BatteryTimer => Inv'
<1> SUFFICES ASSUME Inv, BatteryTimer PROVE Inv'
  OBVIOUS
<1>1. /\ Probe({"BATTERY"}, conv # "idle")
      /\ UNCHANGED << buffer, tasks, power, probeTimer, clientVars, worldVars >>
  BY DEF BatteryTimer
<1>2. Types /\ Home /\ Cycle
  BY DEF Inv
<1>3. /\ queue' \subseteq Channel /\ triggered' \subseteq Channel
      /\ converting' \subseteq Channel /\ conv' \in {"idle", "busy", "done"}
      /\ Matched'
  <2>1. {"BATTERY"} \in SUBSET Channel
    BY DEF Channel
  <2>2. (conv # "idle") \in BOOLEAN
    OBVIOUS
  <2> QED BY <1>1, <1>2, <2>1, <2>2, ProbeMatches DEF Home
<1>4. Types'
  BY <1>1, <1>2, <1>3 DEF Types, clientVars, worldVars
<1>5. SamplesArriveHome'
  BY <1>1, <1>2, SameTasks DEF Home
<1>6. Cycle'
  <2>1. Outstanding("WIN_DISTANCE")' = Outstanding("WIN_DISTANCE")
    BY <1>1 DEF Outstanding
  <2>2. CASE conv # "idle"
    <3>1. conv' = conv /\ converting' = converting /\ queue' = queue \cup {"BATTERY"}
      BY <1>1, <2>2 DEF Probe
    <3>2. Converted' = Converted
      BY <3>1 DEF Converted
    <3> QED BY <1>1, <1>2, <2>1, <3>1, <3>2 DEF Cycle
  <2>3. CASE conv = "idle"
    <3>1. queue = {}
      BY <1>2, <2>3 DEF Home, Matched
    <3>2. queue' = {} /\ converting' = {"BATTERY"}
      BY <1>1, <2>3, <3>1 DEF Probe
    <3>3. ~Converted'
      BY <3>2 DEF Converted
    <3> QED BY <1>1, <1>2, <2>1, <3>2, <3>3 DEF Cycle
  <2> QED BY <2>2, <2>3
<1> QED BY <1>3, <1>4, <1>5, <1>6 DEF Inv, Home

-----------------------------------------------------------------------------
(***************************************************************************)
(* The interrupt and the tasks.                                            *)
(***************************************************************************)
\* What the interrupt posts for the i-th channel it takes to be converted.
Posted(i) == [id |-> InOrder(triggered)[i], sample |-> buffer[i]]

\* The tasks after the interrupt: those before it, then what it posts, as far
\* as there is room.
LEMMA IsrPosts ==
  ASSUME Types, AdcIsr
  PROVE  /\ tasks' \in Seq(RawTask) /\ Len(tasks') <= TasksMax
         /\ \A i \in 1 .. Len(tasks') :
              \/ i \in 1 .. Len(tasks) /\ tasks'[i] = tasks[i]
              \/ /\ i - Len(tasks) \in 1 .. Len(InOrder(triggered))
                 /\ tasks'[i] = Posted(i - Len(tasks))
<1> DEFINE ids == InOrder(triggered)
           new == [i \in 1 .. Len(ids) |-> [id |-> ids[i], sample |-> buffer[i]]]
           posted == tasks \o new
           n == IF Len(posted) < TasksMax THEN Len(posted) ELSE TasksMax
<1>1. ids \in Seq(Channel) /\ Len(ids) \in 0 .. 2
  BY InOrderLists
<1>2. new \in Seq(RawTask) /\ Len(new) = Len(ids)
      /\ \A i \in 1 .. Len(ids) : new[i] = Posted(i)
  <2>1. \A i \in 1 .. Len(ids) : ids[i] \in Channel /\ buffer[i] \in RawSample
    BY <1>1 DEF Types
  <2>2. \A i \in 1 .. Len(ids) : new[i] \in RawTask
    BY <2>1 DEF RawTask
  <2>3. \A i \in 1 .. Len(ids) : new[i] = Posted(i)
    BY DEF Posted
  <2> HIDE DEF ids
  <2> QED BY <1>1, <2>2, <2>3
<1>3. tasks' = SubSeq(posted, 1, n)
  BY DEF AdcIsr
<1> HIDE DEF new
<1>4. tasks \in Seq(RawTask)
  BY DEF Types
<1>5. posted \in Seq(RawTask) /\ Len(posted) = Len(tasks) + Len(ids)
      /\ \A i \in 1 .. Len(posted) :
           posted[i] = IF i <= Len(tasks) THEN tasks[i] ELSE new[i - Len(tasks)]
  BY <1>1, <1>2, <1>4
<1> HIDE DEF posted, ids
<1>6. n \in 0 .. Len(posted) /\ n <= TasksMax
  BY <1>5, SensingAssumption
<1> HIDE DEF n
<1>7. tasks' \in Seq(RawTask) /\ Len(tasks') = n
      /\ \A i \in 1 .. n : tasks'[i] = posted[i]
  BY <1>3, <1>5, <1>6
<1>8. ASSUME NEW i \in 1 .. Len(tasks')
      PROVE  \/ i \in 1 .. Len(tasks) /\ tasks'[i] = tasks[i]
             \/ i - Len(tasks) \in 1 .. Len(ids) /\ tasks'[i] = Posted(i - Len(tasks))
  <2>1. i \in 1 .. n /\ i \in 1 .. Len(posted) /\ tasks'[i] = posted[i]
    BY <1>6, <1>7
  <2>2. Len(tasks) \in Nat
    BY <1>4
  <2>3. CASE i <= Len(tasks)
    BY <1>5, <2>1, <2>2, <2>3
  <2>4. CASE ~(i <= Len(tasks))
    <3>1. i - Len(tasks) \in 1 .. Len(ids)
      BY <1>1, <1>5, <2>1, <2>2, <2>4
    <3> QED BY <1>2, <1>5, <2>1, <2>4, <3>1
  <2> QED BY <2>3, <2>4
<1> QED BY <1>6, <1>7, <1>8 DEF ids

\* The interrupt posts the samples under the channels they were taken from.
LEMMA AdcIsrKeeps == Inv /\ AdcIsr => Inv'
<1> SUFFICES ASSUME Inv, AdcIsr PROVE Inv'
  OBVIOUS
<1>1. /\ conv = "done"
      /\ IF queue = {}
           THEN /\ triggered' = {} /\ conv' = "idle"
                /\ UNCHANGED << queue, converting >>
           ELSE Probe(queue, FALSE)
      /\ UNCHANGED << buffer, power, probeTimer, clientVars, worldVars >>
  BY DEF AdcIsr
<1>2. Types /\ Home /\ Cycle
  BY DEF Inv
<1>3. /\ tasks' \in Seq(RawTask) /\ Len(tasks') <= TasksMax
      /\ \A i \in 1 .. Len(tasks') :
           \/ i \in 1 .. Len(tasks) /\ tasks'[i] = tasks[i]
           \/ /\ i - Len(tasks) \in 1 .. Len(InOrder(triggered))
              /\ tasks'[i] = Posted(i - Len(tasks))
  BY <1>2, IsrPosts
<1>4. triggered = converting
  BY <1>1, <1>2 DEF Home, Matched
<1>5. \/ queue = {} /\ triggered' = {} /\ conv' = "idle" /\ queue' = queue
         /\ converting' = converting
      \/ queue # {} /\ queue' = {} /\ triggered' = queue /\ converting' = queue
         /\ conv' = "busy"
  BY <1>1 DEF Probe
<1>6. Types'
  BY <1>1, <1>2, <1>3, <1>5 DEF Types, clientVars, worldVars
<1>7. Matched'
  BY <1>5 DEF Matched
<1>8. SamplesArriveHome'
  <2> SUFFICES ASSUME NEW i \in 1 .. Len(tasks')
               PROVE  tasks'[i].sample.channel = tasks'[i].id
    BY DEF SamplesArriveHome
  <2>1. CASE i \in 1 .. Len(tasks) /\ tasks'[i] = tasks[i]
    BY <1>2, <2>1 DEF Home, SamplesArriveHome
  <2>2. CASE /\ i - Len(tasks) \in 1 .. Len(InOrder(triggered))
             /\ tasks'[i] = Posted(i - Len(tasks))
    <3>1. buffer[i - Len(tasks)].channel = InOrder(triggered)[i - Len(tasks)]
      BY <1>1, <1>2, <1>4, <2>2 DEF Home, Matched
    <3> QED BY <2>2, <3>1 DEF Posted
  <2> QED BY <1>3, <2>1, <2>2
<1>9. Cycle'
  <2>1. power' = power /\ probeTimer' = probeTimer
    BY <1>1
  <2>2. ~Converted' \/ "WIN_DISTANCE" \in queue
    BY <1>5 DEF Converted
  <2>3. \A i \in 1 .. Len(InOrder(triggered)) :
          Posted(i).id = "WIN_DISTANCE" => Converted
    BY <1>1, <1>4, InOrderLists DEF Posted, Converted
  <2>4. Outstanding("WIN_DISTANCE")' => Outstanding("WIN_DISTANCE") \/ Converted
    BY <1>3, <2>3 DEF Outstanding
  <2>5. ASSUME NEW i \in 1 .. Len(tasks'), NEW j \in 1 .. Len(tasks'),
               tasks'[i].id = "WIN_DISTANCE", tasks'[j].id = "WIN_DISTANCE"
        PROVE  i = j
    <3>0. Len(tasks) \in Nat
      BY <1>2 DEF Types
    <3>1. CASE i \in 1 .. Len(tasks) /\ tasks'[i] = tasks[i]
               /\ j \in 1 .. Len(tasks) /\ tasks'[j] = tasks[j]
      BY <1>2, <2>5, <3>1 DEF Cycle
    <3>2. CASE /\ i - Len(tasks) \in 1 .. Len(InOrder(triggered))
               /\ tasks'[i] = Posted(i - Len(tasks))
               /\ j - Len(tasks) \in 1 .. Len(InOrder(triggered))
               /\ tasks'[j] = Posted(j - Len(tasks))
      <4>1. i - Len(tasks) = j - Len(tasks)
        BY <2>5, <3>2, InOrderLists DEF Posted
      <4> QED BY <3>0, <4>1
    <3>3. ~(Outstanding("WIN_DISTANCE") /\ Converted)
      BY <1>2 DEF Cycle
    <3>4. \A k \in 1 .. Len(tasks) : tasks[k].id = "WIN_DISTANCE"
            => Outstanding("WIN_DISTANCE")
      BY DEF Outstanding
    <3> QED BY <1>3, <2>3, <2>5, <3>1, <3>2, <3>3, <3>4
  <2>6. probeTimer' \/ ("WIN_DISTANCE" \in queue)' \/ (conv = "busy" /\ Converted)'
          => power'
    BY <1>2, <1>5, <2>1, <2>2 DEF Cycle
  <2> QED BY <1>2, <1>5, <2>1, <2>2, <2>4, <2>5, <2>6 DEF Cycle
<1> QED BY <1>6, <1>7, <1>8, <1>9 DEF Inv, Home

\* A task of the main loop; the sensor's is the end of its cycle.
LEMMA RunTaskKeeps == Inv /\ RunTask => Inv'
<1> SUFFICES ASSUME Inv, RunTask PROVE Inv'
  OBVIOUS
<1> DEFINE t == Head(tasks)
<1>1. /\ tasks # << >> /\ tasks' = Tail(tasks)
      /\ IF t.id = "WIN_DISTANCE" THEN AdcEvtHandler(t.sample.raw)
                                  ELSE AdcCallback(t.sample.raw)
      /\ UNCHANGED << adcVars, probeTimer, threshold, worldVars >>
  BY DEF RunTask
<1>2. Types /\ Home /\ Cycle
  BY DEF Inv
<1>3. tasks \in Seq(RawTask) /\ Len(tasks) <= TasksMax
  BY <1>2 DEF Types
<1>4. /\ tasks' \in Seq(RawTask) /\ Len(tasks') = Len(tasks) - 1
      /\ Len(tasks') <= TasksMax
      /\ \A i \in 1 .. Len(tasks') : i + 1 \in 1 .. Len(tasks)
                                     /\ tasks'[i] = tasks[i + 1]
  BY <1>1, <1>3, SensingAssumption
<1>5. t \in RawTask /\ t = tasks[1] /\ 1 \in 1 .. Len(tasks)
  BY <1>1, <1>3
<1>6. AdcGetVoltage(t.sample.raw) \in Voltage
  <2>1. t.sample.raw \in Raw
    BY <1>5 DEF RawTask, RawSample
  <2> QED BY <2>1, VoltageRange
<1> HIDE DEF t
<1>7. /\ power' \in BOOLEAN /\ distance' \in Int16 /\ voltage' \in Voltage
      /\ window' \in Verdicts /\ published' \in Verdicts
  <2>1. CASE t.id = "WIN_DISTANCE"
    <3>1. /\ power' = FALSE /\ voltage' = voltage
          /\ distance' = voltage - AdcGetVoltage(t.sample.raw)
      BY <1>1, <2>1 DEF AdcEvtHandler
    <3>2. distance' \in Int16
      BY <1>2, <1>6, <3>1, DistanceRange DEF Types
    <3>3. window' \in Verdicts /\ published' \in Verdicts
      BY <1>1, <2>1 DEF AdcEvtHandler, DistanceCallback, Verdict, Verdicts
    <3> QED BY <1>2, <3>1, <3>2, <3>3 DEF Types
  <2>2. CASE t.id # "WIN_DISTANCE"
    BY <1>1, <1>2, <1>6, <2>2 DEF AdcCallback, Types
  <2> QED BY <2>1, <2>2
<1>8. Types'
  BY <1>1, <1>2, <1>4, <1>7 DEF Types, adcVars, worldVars
<1>9. Matched'
  BY <1>1, <1>2 DEF Home, Matched, adcVars
<1>10. SamplesArriveHome'
  BY <1>2, <1>4 DEF Home, SamplesArriveHome
<1>11. Cycle'
  <2>1. Converted' = Converted
    BY <1>1 DEF Converted, adcVars
  <2>2. Outstanding("WIN_DISTANCE")' => Outstanding("WIN_DISTANCE")
    BY <1>4 DEF Outstanding
  <2>3. \A i, j \in 1 .. Len(tasks') :
          tasks'[i].id = "WIN_DISTANCE" /\ tasks'[j].id = "WIN_DISTANCE" => i = j
    <3> SUFFICES ASSUME NEW i \in 1 .. Len(tasks'), NEW j \in 1 .. Len(tasks'),
                        tasks'[i].id = "WIN_DISTANCE", tasks'[j].id = "WIN_DISTANCE"
                 PROVE  i = j
      OBVIOUS
    <3>1. i + 1 = j + 1
      BY <1>2, <1>4 DEF Cycle
    <3> QED BY <3>1
  <2>4. power' = power \/ Outstanding("WIN_DISTANCE")
    BY <1>1, <1>5 DEF AdcCallback, Outstanding
  <2>5. queue' = queue /\ conv' = conv /\ probeTimer' = probeTimer
    BY <1>1 DEF adcVars
  <2>6. probeTimer' \/ ("WIN_DISTANCE" \in queue)' \/ (conv = "busy" /\ Converted)'
          => power'
    BY <1>2, <2>1, <2>4, <2>5 DEF Cycle
  <2> QED BY <1>2, <2>1, <2>2, <2>3, <2>5, <2>6 DEF Cycle
<1> QED BY <1>8, <1>9, <1>10, <1>11 DEF Inv, Home

-----------------------------------------------------------------------------
\* A write to the threshold, and what the window and the battery do meanwhile.
LEMMA OthersKeep ==
  ASSUME Inv,
         UNCHANGED << adcVars, tasks, power, probeTimer, distance, voltage >>,
         threshold' \in Int16, window' \in Verdicts, published' \in Verdicts,
         reflection' \in Reflections, supply' \in Supplies
  PROVE  Inv'
<1>1. Types'
  BY DEF Inv, Types, adcVars
<1>2. Home'
  BY SameTasks DEF Inv, Home, Matched, adcVars
<1>3. Cycle'
  <2>1. Converted' = Converted /\ Outstanding("WIN_DISTANCE")' = Outstanding("WIN_DISTANCE")
    BY DEF adcVars, Converted, Outstanding
  <2> QED BY <2>1 DEF Inv, Cycle, adcVars
<1> QED BY <1>1, <1>2, <1>3 DEF Inv

LEMMA InitInv == Init => Inv
<1> SUFFICES ASSUME Init PROVE Inv
  OBVIOUS
<1>1. Types
  <2>1. buffer \in [1 .. 2 -> RawSample]
    BY DEF Init, ChannelOrder, RawSample, Channel, Raw
  <2>2. tasks \in Seq(RawTask) /\ Len(tasks) <= TasksMax
    BY SensingAssumption DEF Init
  <2>3. distance \in Int16 /\ voltage \in Voltage
    BY DEF Init, Int16, Voltage
  <2>4. threshold \in Int16
    BY SensingAssumption DEF Init
  <2> QED BY <2>1, <2>2, <2>3, <2>4 DEF Init, Types, Verdicts
<1>2. Home
  BY DEF Init, Home, Matched, SamplesArriveHome
<1>3. Cycle
  BY DEF Init, Cycle, Converted, Outstanding
<1> QED BY <1>1, <1>2, <1>3 DEF Inv

LEMMA StepKeepsInv == Inv /\ [Next]_vars => Inv'
<1> SUFFICES ASSUME Inv, [Next]_vars PROVE Inv'
  OBVIOUS
<1>0. Types
  BY DEF Inv
<1>1. CASE PwrTimer \/ ProbeTimer \/ BatteryTimer
  BY <1>1, PwrTimerKeeps, ProbeTimerKeeps, BatteryTimerKeeps
<1>2. CASE Convert \/ AdcIsr \/ RunTask
  BY <1>2, ConvertKeeps, AdcIsrKeeps, RunTaskKeeps
<1>3. CASE \E th \in Thresholds : ThresholdSet(th)
  <2>1. PICK th \in Thresholds : ThresholdSet(th)
    BY <1>3
  <2>2. th \in Int16
    BY SensingAssumption
  <2> QED BY <1>0, <2>1, <2>2, OthersKeep DEF ThresholdSet, Types, worldVars
<1>4. CASE \E r \in Reflections : WindowMoves(r)
  BY <1>0, <1>4, OthersKeep DEF WindowMoves, Types, clientVars
<1>5. CASE \E s \in Supplies : SupplyMoves(s)
  BY <1>0, <1>5, OthersKeep DEF SupplyMoves, Types, clientVars
<1>6. CASE UNCHANGED vars
  BY <1>0, <1>6, OthersKeep DEF vars, Types, clientVars, worldVars
<1> QED BY <1>1, <1>2, <1>3, <1>4, <1>5, <1>6 DEF Next

\* Tasks carry what their channel was converted to, and the steps of a cycle
\* keep their order: request, conversion, samples, dark again.
THEOREM Invariance == Spec => []Inv
BY InitInv, StepKeepsInv, PTL DEF Spec

\* Voltages and distances fit the 16 bits they are kept in, for every reading of
\* an 8 bit conversion, and the queue of tasks never overflows.
THEOREM TypeCorrect == Spec => []TypeOK
<1>1. Inv => TypeOK
  <2> SUFFICES ASSUME Types PROVE TypeOK
    BY DEF Inv
  <2>1. RawSample \subseteq Sample /\ RawTask \subseteq Task
    BY DEF RawSample, Sample, RawTask, Task, Raw
  <2>2. tasks \in Seq(Task)
    BY <2>1 DEF Types
  <2>3. buffer \in [1 .. Len(ChannelOrder) -> Sample]
    BY <2>1 DEF Types, ChannelOrder
  <2>4. voltage \in Int16
    BY DEF Types, Voltage, Int16
  <2> QED BY <2>2, <2>3, <2>4 DEF Types, TypeOK
<1> QED BY <1>1, Invariance, PTL

\* However requests are merged, a sample reaches the client of the channel it
\* was taken from.
THEOREM ArrivesHome == Spec => []SamplesArriveHome
<1>1. Inv => SamplesArriveHome
  BY DEF Inv, Home
<1> QED BY <1>1, Invariance, PTL

\* The sensor has power while it is converted, whatever delayed its conversion
\* within the cycle.
THEOREM Lit == Spec => [](conv = "busy" /\ "WIN_DISTANCE" \in converting => power)
<1>1. Inv => (conv = "busy" /\ "WIN_DISTANCE" \in converting => power)
  BY DEF Inv, Cycle, Converted
<1> QED BY <1>1, Invariance, PTL

-----------------------------------------------------------------------------
(***************************************************************************)
(* The sensor goes dark: with room for one task of each channel no sample  *)
(* is refused, because a channel that is asked for again has nothing left  *)
(* in the mask, the converter or the task queue (Once).                    *)
(***************************************************************************)
Converts(c) == conv # "idle" /\ c \in converting

Once(c) ==
  /\ c \in queue => ~Converts(c) /\ ~Outstanding(c)
  /\ Converts(c) => ~Outstanding(c)
  /\ \A i, j \in 1 .. Len(tasks) : tasks[i].id = c /\ tasks[j].id = c => i = j

DarkInv == Inv /\ Once("BATTERY") /\ LitInCycle

LEMMA CycleIsOnce == Cycle => Once("WIN_DISTANCE")
BY DEF Cycle, Once, Converts, Converted

\* The cycle is over when it is nowhere.
LEMMA CycleOverIs ==
  /\ CycleOver <=> /\ ~probeTimer /\ "WIN_DISTANCE" \notin queue
                   /\ ~Converts("WIN_DISTANCE") /\ ~Outstanding("WIN_DISTANCE")
  /\ CycleOver' <=> /\ ~probeTimer' /\ "WIN_DISTANCE" \notin queue'
                    /\ ~Converts("WIN_DISTANCE")' /\ ~Outstanding("WIN_DISTANCE")'
BY DEF CycleOver, DistanceAsked, Converts

LEMMA InOrderHas ==
  ASSUME NEW mask, NEW c \in mask \cap Channel
  PROVE  \E i \in 1 .. Len(InOrder(mask)) : InOrder(mask)[i] = c
<1>1. CASE "WIN_DISTANCE" \in mask /\ "BATTERY" \in mask
  <2>1. InOrder(mask) = << "WIN_DISTANCE" >> \o << "BATTERY" >>
    BY <1>1 DEF InOrder, ChannelOrder
  <2> QED BY <2>1 DEF Channel
<1>2. CASE "WIN_DISTANCE" \in mask /\ "BATTERY" \notin mask
  <2>1. InOrder(mask) = << "WIN_DISTANCE" >>
    BY <1>2 DEF InOrder, ChannelOrder
  <2> QED BY <1>2, <2>1 DEF Channel
<1>3. CASE "WIN_DISTANCE" \notin mask /\ "BATTERY" \in mask
  <2>1. InOrder(mask) = << "BATTERY" >>
    BY <1>3 DEF InOrder, ChannelOrder
  <2> QED BY <1>3, <2>1 DEF Channel
<1> QED BY <1>1, <1>2, <1>3 DEF Channel

\* A request for other channels, and the first request for this one.
LEMMA ProbeOnce ==
  ASSUME NEW c, Once(c), conv = "idle" => queue = {}, UNCHANGED tasks,
         NEW mask, Probe(mask, conv # "idle"),
         c \in mask => ~Converts(c) /\ ~Outstanding(c)
  PROVE  /\ Once(c)'
         /\ c \in queue' \/ Converts(c)' <=> c \in mask \/ c \in queue \/ Converts(c)
<1>1. Outstanding(c)' = Outstanding(c)
  BY DEF Outstanding
<1>2. CASE conv # "idle"
  <2>1. queue' = queue \cup mask /\ Converts(c)' = Converts(c)
    BY <1>2 DEF Probe, Converts
  <2> QED BY <1>1, <2>1 DEF Once
<1>3. CASE conv = "idle"
  <2>1. queue' = {} /\ (Converts(c)' <=> c \in mask) /\ ~Converts(c) /\ c \notin queue
    BY <1>3 DEF Probe, Converts
  <2> QED BY <1>1, <2>1 DEF Once
<1> QED BY <1>2, <1>3

\* The interrupt finds room for every sample, and the tasks wait for one
\* channel each.
LEMMA IsrFits ==
  ASSUME TasksMax >= 2, Inv, Once("BATTERY"), AdcIsr
  PROVE  /\ Len(tasks') = Len(tasks) + Len(InOrder(converting))
         /\ \A i \in 1 .. Len(tasks) : tasks'[i] = tasks[i]
         /\ \A i \in 1 .. Len(InOrder(converting)) :
              tasks'[Len(tasks) + i].id = InOrder(converting)[i]
         /\ \A i, j \in 1 .. Len(tasks') : tasks'[i].id = tasks'[j].id => i = j
<1> PICK ids : ids = InOrder(triggered)
  OBVIOUS
<1> PICK new : new = [i \in 1 .. Len(ids) |-> [id |-> ids[i], sample |-> buffer[i]]]
  OBVIOUS
<1> PICK posted : posted = tasks \o new
  OBVIOUS
<1>1. /\ conv = "done" /\ triggered = converting /\ Types
      /\ Once("WIN_DISTANCE") /\ Once("BATTERY")
  BY CycleIsOnce DEF Inv, Home, Matched, AdcIsr
<1>2. /\ ids \in Seq(Channel) /\ Len(ids) \in 0 .. 2
      /\ \A i \in 1 .. Len(ids) : ids[i] \in converting /\ ids[i] \in Channel
      /\ \A i, j \in 1 .. Len(ids) : ids[i] = ids[j] => i = j
  BY <1>1, InOrderLists
<1>3. new \in Seq(RawTask) /\ Len(new) = Len(ids) /\ \A i \in 1 .. Len(ids) : new[i].id = ids[i]
  <2>1. \A i \in 1 .. Len(ids) : buffer[i] \in RawSample
    BY <1>1, <1>2 DEF Types
  <2>2. \A i \in 1 .. Len(ids) : [id |-> ids[i], sample |-> buffer[i]] \in RawTask
    BY <1>2, <2>1 DEF RawTask
  <2> QED BY <1>2, <2>2
<1>4. tasks \in Seq(RawTask) /\ Len(tasks) \in Nat
  BY <1>1 DEF Types
<1>5. /\ posted \in Seq(RawTask) /\ Len(posted) = Len(tasks) + Len(ids)
      /\ \A i \in 1 .. Len(posted) :
           posted[i] = IF i <= Len(tasks) THEN tasks[i] ELSE new[i - Len(tasks)]
  BY <1>2, <1>3, <1>4
<1>6. \A i, j \in 1 .. Len(posted) : posted[i].id = posted[j].id => i = j
  <2> SUFFICES ASSUME NEW i \in 1 .. Len(posted), NEW j \in 1 .. Len(posted),
                      posted[i].id = posted[j].id, i <= j
               PROVE  i = j
    <3>1. Len(posted) \in Nat
      BY <1>2, <1>4, <1>5
    <3> QED BY <3>1
  <2>1. CASE j <= Len(tasks)
    <3>1. /\ i \in 1 .. Len(tasks) /\ j \in 1 .. Len(tasks)
          /\ posted[i] = tasks[i] /\ posted[j] = tasks[j]
      BY <1>4, <1>5, <2>1
    <3>2. tasks[i].id \in {"WIN_DISTANCE", "BATTERY"}
      <4>1. tasks[i] \in RawTask
        BY <1>4, <3>1
      <4> QED BY <4>1 DEF RawTask, Channel
    <3> QED BY <1>1, <3>1, <3>2 DEF Once
  <2>2. CASE Len(tasks) < j
    <3>1. j - Len(tasks) \in 1 .. Len(ids) /\ posted[j].id = ids[j - Len(tasks)]
      BY <1>2, <1>3, <1>4, <1>5, <2>2
    <3>2. CASE Len(tasks) < i
      <4>1. i - Len(tasks) \in 1 .. Len(ids) /\ posted[i].id = ids[i - Len(tasks)]
        BY <1>2, <1>3, <1>4, <1>5, <3>2
      <4>2. i - Len(tasks) = j - Len(tasks)
        BY <1>2, <3>1, <4>1
      <4> QED BY <1>4, <4>2
    <3>3. CASE i <= Len(tasks)
      <4>1. i \in 1 .. Len(tasks) /\ posted[i] = tasks[i]
        BY <1>4, <1>5, <3>3
      <4>2. ids[j - Len(tasks)] \in converting /\ ids[j - Len(tasks)] \in Channel
        BY <1>2, <3>1
      <4>3. Outstanding(ids[j - Len(tasks)]) /\ Converts(ids[j - Len(tasks)])
        BY <1>1, <3>1, <4>1, <4>2 DEF Outstanding, Converts
      <4>4. ~Outstanding(ids[j - Len(tasks)])
        BY <1>1, <4>2, <4>3 DEF Once, Channel
      <4> QED BY <4>3, <4>4
    <3> QED BY <1>4, <3>2, <3>3
  <2> QED BY <1>4, <2>1, <2>2
<1>7. Len(posted) <= 2
  <2> SUFFICES ASSUME ~(Len(posted) <= 2) PROVE FALSE
    OBVIOUS
  <2>1. 1 \in 1 .. Len(posted) /\ 2 \in 1 .. Len(posted) /\ 3 \in 1 .. Len(posted)
    BY <1>2, <1>4, <1>5
  <2>2. \A i \in 1 .. Len(posted) : posted[i].id \in {"WIN_DISTANCE", "BATTERY"}
    <3> SUFFICES ASSUME NEW i \in 1 .. Len(posted)
                 PROVE  posted[i].id \in {"WIN_DISTANCE", "BATTERY"}
      OBVIOUS
    <3>1. posted[i] \in RawTask
      BY <1>5
    <3> QED BY <3>1 DEF RawTask, Channel
  <2>3. posted[1].id # posted[2].id /\ posted[1].id # posted[3].id /\ posted[2].id # posted[3].id
    BY <1>6, <2>1
  <2> QED BY <2>1, <2>2, <2>3
<1>8. tasks' = posted
  <2>1. tasks' = SubSeq(posted, 1, IF Len(posted) < TasksMax THEN Len(posted) ELSE TasksMax)
    BY DEF AdcIsr
  <2>2. (IF Len(posted) < TasksMax THEN Len(posted) ELSE TasksMax) = Len(posted)
    BY <1>2, <1>4, <1>5, <1>7, SensingAssumption
  <2>3. SubSeq(posted, 1, Len(posted)) = posted
    BY <1>5
  <2> QED BY <2>1, <2>2, <2>3
<1>9. \A i \in 1 .. Len(tasks) : tasks'[i] = tasks[i]
  BY <1>2, <1>4, <1>5, <1>8
<1>10. \A i \in 1 .. Len(ids) : tasks'[Len(tasks) + i].id = ids[i]
  <2> SUFFICES ASSUME NEW i \in 1 .. Len(ids) PROVE tasks'[Len(tasks) + i].id = ids[i]
    OBVIOUS
  <2>1. /\ Len(tasks) + i \in 1 .. Len(posted) /\ ~(Len(tasks) + i <= Len(tasks))
        /\ (Len(tasks) + i) - Len(tasks) = i
    BY <1>2, <1>4, <1>5
  <2> QED BY <1>3, <1>5, <1>8, <2>1
<1>11. ids = InOrder(converting)
  BY <1>1
<1> QED BY <1>5, <1>6, <1>8, <1>9, <1>10, <1>11

LEMMA IsrDark ==
  ASSUME TasksMax >= 2, DarkInv, AdcIsr
  PROVE  Once("BATTERY")' /\ LitInCycle'
<1>1. /\ conv = "done" /\ Types /\ Cycle /\ Once("WIN_DISTANCE") /\ Once("BATTERY")
      /\ UNCHANGED << probeTimer, power >> /\ converting \subseteq Channel
  BY CycleIsOnce DEF DarkInv, Inv, Types, AdcIsr
<1> PICK ids : ids = InOrder(converting)
  OBVIOUS
<1>2. /\ Len(tasks') = Len(tasks) + Len(ids) /\ Len(tasks) \in Nat /\ Len(ids) \in Nat
      /\ \A i \in 1 .. Len(tasks) : tasks'[i] = tasks[i]
      /\ \A i \in 1 .. Len(ids) : tasks'[Len(tasks) + i].id = ids[i] /\ ids[i] \in converting
      /\ \A i, j \in 1 .. Len(tasks') : tasks'[i].id = tasks'[j].id => i = j
  BY <1>1, IsrFits, InOrderLists DEF DarkInv, Types
<1>3. \A c : c \notin queue' /\ (Converts(c)' <=> c \in queue)
  <2>1. \/ queue = {} /\ queue' = {} /\ conv' = "idle"
        \/ queue # {} /\ queue' = {} /\ converting' = queue /\ conv' = "busy"
    BY DEF AdcIsr, Probe
  <2> QED BY <2>1 DEF Converts
<1>4. ASSUME NEW c \in Channel
      PROVE  Outstanding(c)' <=> Outstanding(c) \/ Converts(c)
  <2>1. ASSUME Outstanding(c) PROVE Outstanding(c)'
    <3>1. PICK i \in 1 .. Len(tasks) : tasks[i].id = c
      BY <2>1 DEF Outstanding
    <3>2. i \in 1 .. Len(tasks') /\ tasks'[i].id = c
      BY <1>2, <3>1
    <3> QED BY <3>2 DEF Outstanding
  <2>2. ASSUME Converts(c) PROVE Outstanding(c)'
    <3>1. PICK i \in 1 .. Len(ids) : ids[i] = c
      BY <2>2, InOrderHas DEF Converts
    <3>2. Len(tasks) + i \in 1 .. Len(tasks') /\ tasks'[Len(tasks) + i].id = c
      BY <1>2, <3>1
    <3> QED BY <3>2 DEF Outstanding
  <2>3. ASSUME Outstanding(c)', ~Outstanding(c) PROVE Converts(c)
    <3>1. PICK i \in 1 .. Len(tasks') : tasks'[i].id = c
      BY <2>3 DEF Outstanding
    <3>2. i \notin 1 .. Len(tasks)
      BY <1>2, <2>3, <3>1 DEF Outstanding
    <3>3. i - Len(tasks) \in 1 .. Len(ids) /\ Len(tasks) + (i - Len(tasks)) = i
      BY <1>2, <3>1, <3>2
    <3>4. ids[i - Len(tasks)] = c /\ c \in converting
      BY <1>2, <3>1, <3>3
    <3> QED BY <1>1, <3>4 DEF Converts
  <2> QED BY <2>1, <2>2, <2>3
<1>5. Once("BATTERY")'
  <2>1. "BATTERY" \in queue => ~Outstanding("BATTERY")'
    BY <1>1, <1>4 DEF Once, Channel
  <2> QED BY <1>2, <1>3, <2>1 DEF Once
<1>6. CycleOver' <=> CycleOver
  BY <1>1, <1>3, <1>4, CycleOverIs DEF Channel
<1>7. power' = power /\ (power <=> ~CycleOver)
  BY <1>1 DEF DarkInv, LitInCycle
<1> QED BY <1>5, <1>6, <1>7 DEF LitInCycle

LEMMA TaskDark ==
  ASSUME DarkInv, RunTask
  PROVE  Once("BATTERY")' /\ LitInCycle'
<1>1. /\ Types /\ Cycle /\ Once("WIN_DISTANCE") /\ Once("BATTERY")
      /\ UNCHANGED << queue, conv, converting, probeTimer >>
      /\ tasks # << >> /\ tasks' = Tail(tasks)
  BY CycleIsOnce DEF DarkInv, Inv, RunTask, adcVars
<1>2. /\ Len(tasks) \in Nat /\ 1 \in 1 .. Len(tasks) /\ Head(tasks) = tasks[1]
      /\ Len(tasks') = Len(tasks) - 1
      /\ \A i \in 1 .. Len(tasks') : /\ i + 1 \in 1 .. Len(tasks) /\ i + 1 # 1
                                     /\ tasks'[i] = tasks[i + 1]
  BY <1>1 DEF Types
<1>3. \A c : Converts(c)' = Converts(c) /\ (Outstanding(c)' => Outstanding(c))
  BY <1>1, <1>2 DEF Converts, Outstanding
<1>4. Once("BATTERY")'
  <2>1. ASSUME NEW i \in 1 .. Len(tasks'), NEW j \in 1 .. Len(tasks'),
               tasks'[i].id = "BATTERY", tasks'[j].id = "BATTERY"
        PROVE  i = j
    <3>1. i + 1 = j + 1
      BY <1>1, <1>2, <2>1 DEF Once
    <3> QED BY <3>1
  <2> QED BY <1>1, <1>3, <2>1 DEF Once
<1>5. CASE tasks[1].id = "WIN_DISTANCE"
  <2>1. power' = FALSE
    BY <1>2, <1>5 DEF RunTask, AdcEvtHandler
  <2>2. Outstanding("WIN_DISTANCE") /\ ~Outstanding("WIN_DISTANCE")'
    <3>1. \A i \in 1 .. Len(tasks') : tasks'[i].id # "WIN_DISTANCE"
      BY <1>1, <1>2, <1>5 DEF Once
    <3> QED BY <1>2, <1>5, <3>1 DEF Outstanding
  <2>3. CycleOver'
    BY <1>1, <1>3, <2>2, CycleOverIs DEF Cycle, Converts, Converted
  <2> QED BY <1>4, <2>1, <2>3 DEF LitInCycle
<1>6. CASE tasks[1].id # "WIN_DISTANCE"
  <2>1. power' = power
    BY <1>2, <1>6 DEF RunTask, AdcCallback
  <2>2. Outstanding("WIN_DISTANCE") => Outstanding("WIN_DISTANCE")'
    <3> SUFFICES ASSUME Outstanding("WIN_DISTANCE") PROVE Outstanding("WIN_DISTANCE")'
      OBVIOUS
    <3>1. PICK i \in 1 .. Len(tasks) : tasks[i].id = "WIN_DISTANCE"
      BY DEF Outstanding
    <3>2. i - 1 \in 1 .. Len(tasks') /\ (i - 1) + 1 = i
      BY <1>2, <1>6, <3>1
    <3>3. tasks'[i - 1].id = "WIN_DISTANCE"
      BY <1>2, <3>1, <3>2
    <3> QED BY <3>2, <3>3 DEF Outstanding
  <2>3. CycleOver' <=> CycleOver
    BY <1>1, <1>3, <2>2, CycleOverIs
  <2> QED BY <1>4, <2>1, <2>3 DEF DarkInv, LitInCycle
<1> QED BY <1>5, <1>6

LEMMA TimersDark ==
  ASSUME DarkInv, PwrTimer \/ ProbeTimer \/ BatteryTimer
  PROVE  Once("BATTERY")' /\ LitInCycle'
<1>1. /\ Types /\ Cycle /\ Once("WIN_DISTANCE") /\ Once("BATTERY")
      /\ (conv = "idle" => queue = {}) /\ (power <=> ~CycleOver) /\ UNCHANGED tasks
  BY CycleIsOnce DEF DarkInv, Inv, Home, Matched, LitInCycle, PwrTimer, ProbeTimer,
                     BatteryTimer
<1>2. \A c : Outstanding(c)' = Outstanding(c)
  BY <1>1 DEF Outstanding
<1>3. CASE PwrTimer
  <2>1. /\ power' = TRUE /\ probeTimer' = TRUE
        /\ UNCHANGED << queue, conv, converting >>
    BY <1>3 DEF PwrTimer, adcVars
  <2> QED BY <1>1, <1>2, <2>1, CycleOverIs DEF Once, Converts, LitInCycle
<1>4. CASE ProbeTimer
  <2>1. /\ probeTimer /\ Probe({"WIN_DISTANCE"}, conv # "idle") /\ UNCHANGED power
        /\ ~Converts("WIN_DISTANCE") /\ ~Outstanding("WIN_DISTANCE")
    BY <1>1, <1>4 DEF ProbeTimer, Cycle, Converted, Converts
  <2>2. Once("BATTERY")'
    BY <1>1, <2>1, ProbeOnce
  <2>3. "WIN_DISTANCE" \in queue' \/ Converts("WIN_DISTANCE")'
    BY <1>1, <2>1, ProbeOnce
  <2>4. ~CycleOver /\ ~CycleOver'
    BY <2>1, <2>3, CycleOverIs
  <2> QED BY <1>1, <2>1, <2>2, <2>4 DEF LitInCycle
<1>5. CASE BatteryTimer
  <2>1. /\ Probe({"BATTERY"}, conv # "idle") /\ UNCHANGED << power, probeTimer >>
        /\ ~Converts("BATTERY") /\ ~Outstanding("BATTERY")
    BY <1>5 DEF BatteryTimer, BatteryAsked, Converts
  <2>2. Once("BATTERY")'
    BY <1>1, <2>1, ProbeOnce
  <2>3. "WIN_DISTANCE" \in queue' \/ Converts("WIN_DISTANCE")'
          <=> "WIN_DISTANCE" \in queue \/ Converts("WIN_DISTANCE")
    BY <1>1, <2>1, ProbeOnce
  <2>4. CycleOver' <=> CycleOver
    BY <1>2, <2>1, <2>3, CycleOverIs
  <2> QED BY <1>1, <2>1, <2>2, <2>4 DEF LitInCycle
<1> QED BY <1>3, <1>4, <1>5

\* Every other step leaves the channels where they are, or converts them.
LEMMA OthersDark ==
  ASSUME DarkInv, UNCHANGED << queue, converting, tasks, power, probeTimer >>,
         conv' = "idle" <=> conv = "idle"
  PROVE  Once("BATTERY")' /\ LitInCycle'
<1>1. \A c : Converts(c)' = Converts(c) /\ Outstanding(c)' = Outstanding(c)
  BY DEF Converts, Outstanding
<1>2. CycleOver' <=> CycleOver
  BY <1>1, CycleOverIs
<1> QED BY <1>1, <1>2 DEF DarkInv, Once, LitInCycle

LEMMA DarkStep == ASSUME TasksMax >= 2, DarkInv, [Next]_vars PROVE DarkInv'
<1>1. Inv'
  BY StepKeepsInv DEF DarkInv
<1>2. CASE PwrTimer \/ ProbeTimer \/ BatteryTimer
  BY <1>1, <1>2, TimersDark DEF DarkInv
<1>3. CASE AdcIsr
  BY <1>1, <1>3, IsrDark DEF DarkInv
<1>4. CASE RunTask
  BY <1>1, <1>4, TaskDark DEF DarkInv
<1>5. CASE \/ Convert \/ UNCHANGED vars
           \/ \E th \in Thresholds : ThresholdSet(th)
           \/ \E r \in Reflections : WindowMoves(r)
           \/ \E s \in Supplies : SupplyMoves(s)
  <2>1. /\ UNCHANGED << queue, converting, tasks, power, probeTimer >>
        /\ conv' = "idle" <=> conv = "idle"
    BY <1>5 DEF Convert, vars, ThresholdSet, WindowMoves, SupplyMoves, adcVars
  <2> QED BY <1>1, <2>1, OthersDark DEF DarkInv
<1> QED BY <1>2, <1>3, <1>4, <1>5 DEF Next

\* With room for a task of each channel the sensor has power exactly while a
\* cycle is under way: no merge, wait or interrupt loses the sample whose task
\* switches it off.
THEOREM LitExactlyInCycle == ASSUME TasksMax >= 2 PROVE Spec => []LitInCycle
<1>1. Init => DarkInv
  <2> SUFFICES ASSUME Init PROVE DarkInv
    OBVIOUS
  <2>1. /\ queue = {} /\ conv = "idle" /\ tasks = << >> /\ power = FALSE
        /\ probeTimer = FALSE
    BY DEF Init
  <2>2. \A c : ~Converts(c) /\ ~Outstanding(c)
    BY <2>1 DEF Converts, Outstanding
  <2>3. Once("BATTERY")
    BY <2>1, <2>2 DEF Once
  <2>4. LitInCycle
    BY <2>1, <2>2, CycleOverIs DEF LitInCycle
  <2> QED BY <2>3, <2>4, InitInv DEF DarkInv
<1>2. DarkInv /\ [Next]_vars => DarkInv'
  BY DarkStep
<1>3. DarkInv => LitInCycle
  BY DEF DarkInv
<1> QED BY <1>1, <1>2, <1>3, PTL DEF Spec
=============================================================================
