---------------------------- MODULE PairingProofs ----------------------------
(***************************************************************************)
(* The button in detail implements the button of BlePeripheral, which may  *)
(* report any push at any time.  So whatever holds of the connection there *)
(* holds of the node whose pin bounces, and whose task queue drops edges.  *)
(***************************************************************************)
EXTENDS Pairing, BlePeripheralProofs

(***************************************************************************)
(* Refinement.                                                             *)
(***************************************************************************)
\* A push hmi does not act on leaves the machine alone.
LEMMA Ignored ==
  ASSUME NEW press \in {"none", "VERY_LONG"}
  PROVE  ButtonCallback(Machine, press) = Machine
BY DEF ButtonCallback

\* To become what it is, the machine does nothing.
LEMMA BecomesItself ==
  Becomes(Machine) => UNCHANGED << state, conn, link, adv, sec, bonded, deleting >>
BY DEF Becomes, Machine

\* Any duration gives an event of Push.
LEMMA PushOfType == \A n : PushOf(n) \in Push
BY DEF PushOf, Push

\* A task of the pin is a press of the abstract button, or changes nothing
\* the connection knows of.
LEMMA HandlerIsPress ==
  DigitalIoInputEventHandler => [\E press \in {"NORMAL", "LONG"} : Button(press)]_vars
<1> SUFFICES ASSUME DigitalIoInputEventHandler
             PROVE  [\E press \in {"NORMAL", "LONG"} : Button(press)]_vars
  OBVIOUS
<1>1. event' \in Push
  BY PushOfType DEF DigitalIoInputEventHandler, DigitalInputCallback, Push
<1>2. Becomes(ButtonCallback(Machine, event')) /\ UNCHANGED << evts, spoilt >>
  BY DEF DigitalIoInputEventHandler
<1>3. CASE event' \in {"NORMAL", "LONG"}
  BY <1>2, <1>3 DEF Button
<1>4. CASE event' \in {"none", "VERY_LONG"}
  BY <1>2, <1>4, Ignored, BecomesItself DEF vars, stackVars
<1> QED BY <1>1, <1>3, <1>4 DEF Push

\* The composition with the detailed button implements the connection with the
\* abstract one (BlePeripheral's Spec), step by step.
THEOREM ImplementsButton == PairingSpec => Spec
<1>1. PairingInit => Init
  BY DEF PairingInit
<1>2. [PairingNext]_pairingVars => [Next]_vars
  <2> SUFFICES ASSUME [PairingNext]_pairingVars PROVE [Next]_vars
    OBVIOUS
  <2>1. CASE LinkNext /\ UNCHANGED buttonVars
    BY <2>1 DEF Next
  <2>2. CASE Edge \/ DigitalIoInputIsr \/ Tick \/ UNCHANGED pairingVars
    BY <2>2 DEF Edge, DigitalIoInputIsr, Tick, pairingVars
  <2>3. CASE DigitalIoInputEventHandler
    BY <2>3, HandlerIsPress DEF Next
  <2> QED BY <2>1, <2>2, <2>3 DEF PairingNext
<1> QED BY <1>1, <1>2, PTL DEF PairingSpec, Spec

\* The handle follows the state of the connection with the real button, too.
COROLLARY HandleFollowsWithButton == PairingSpec => []HandleFollowsState
BY ImplementsButton, HandleFollows

\* Whatever the pin does, a link is known or announced, and CONNECTED has one.
COROLLARY LinksWithButton == PairingSpec => [](LinkIsKnown /\ ConnectedHasLink)
BY ImplementsButton, LinkIsAlwaysKnown, ConnectedLinks, PTL

\* As built, where no client asks for UNBOND, the node whose button bounces is
\* silent only in BONDING: edges, samples and refused tasks never take from the
\* machine the event that makes it advertise again.
COROLLARY SilentOnlyInBondingWithButton ==
  ASSUME NoUnbond
  PROVE  PairingSpec => []NeverSilent
BY ImplementsButton, SilentOnlyInBonding, PTL

\* The button cannot take the bonds away, although hmi.c means it to.
COROLLARY BondsAreKeptWithButton ==
  ASSUME NoUnbond
  PROVE  PairingSpec => [][bonded => bonded']_pairingVars
<1>1. [bonded => bonded']_vars => [bonded => bonded']_pairingVars
  BY DEF pairingVars, vars, stackVars
<1> QED BY <1>1, ImplementsButton, BondsAreKept, PTL

(***************************************************************************)
(* The level of the pin.                                                   *)
(***************************************************************************)
\* LevelIsKnown is not inductive: an edge may be taken back before its interrupt.
\* What every step keeps is that the sample follows the level of the last
\* interrupt.
PinInv == PairingTypeOK /\ (status = sensed \/ tasks # 0 \/ lost)

\* Every step keeps the sample behind the interrupts, with the types.
LEMMA PinStep == PinInv /\ [PairingNext]_pairingVars => PinInv'
<1> SUFFICES ASSUME PinInv, [PairingNext]_pairingVars PROVE PinInv'
  OBVIOUS
<1> USE PairingAssumption DEF PinInv, PairingTypeOK
<1>1. CASE LinkNext /\ UNCHANGED buttonVars
  BY <1>1 DEF buttonVars, pinVars, history
<1>2. CASE UNCHANGED pairingVars
  BY <1>2 DEF pairingVars, buttonVars, pinVars, history
<1>3. CASE Edge
  BY <1>3 DEF Edge, history
<1>4. CASE DigitalIoInputIsr
  BY <1>4 DEF DigitalIoInputIsr
<1>5. CASE Tick
  BY <1>5 DEF Tick, pinVars
<1>6. CASE DigitalIoInputEventHandler
  <2>1. event' \in Push /\ since' \in 0..VeryLongDuration
    BY <1>6, PushOfType DEF DigitalIoInputEventHandler, DigitalInputCallback, Push
  <2>2. tasks \in Nat /\ tasks' = tasks - 1 /\ tasks # 0
    BY <1>6 DEF DigitalIoInputEventHandler
  <2> QED BY <1>6, <2>1, <2>2 DEF DigitalIoInputEventHandler, InIsSet
<1> QED BY <1>1, <1>2, <1>3, <1>4, <1>5, <1>6 DEF PairingNext

LEMMA PinInit == PairingInit => PinInv
<1> SUFFICES ASSUME PairingInit PROVE PinInv
  OBVIOUS
<1>1. tasks \in 0..TasksMax /\ {since, held} \subseteq 0..VeryLongDuration
  BY PairingAssumption DEF PairingInit
<1>2. {pushed, sensed, status} \subseteq BOOLEAN /\ status = sensed /\ event \in Push
  BY Zenon DEF PairingInit, Push
<1>3. {told, lost, slipped, late} \subseteq BOOLEAN
  BY Zenon DEF PairingInit
<1> QED BY Zenon, <1>1, <1>2, <1>3 DEF PinInv, PairingTypeOK

\* The firmware's level is that of the pin whenever the pin is quiet, for any
\* durations, any number of tasks and any order of edges and tasks.
THEOREM LevelKnown == PairingSpec => []LevelIsKnown
<1>1. PinInv => LevelIsKnown
  <2> SUFFICES ASSUME PinInv, sensed = pushed, tasks = 0, ~lost
               PROVE  status = pushed
    BY DEF LevelIsKnown
  <2> QED BY DEF PinInv
<1> QED BY <1>1, PinInit, PinStep, PTL DEF PairingSpec

(***************************************************************************)
(* The duration of a push.                                                 *)
(***************************************************************************)
\* What is known between the interrupts of a push that goes as it should: while
\* a task waits no tick has passed, and otherwise the 100 ms timer has counted
\* for the firmware what it has counted for the finger.
MeasureInv ==
  ~slipped /\ ~late =>
    /\ tasks \in {0, 1}
    /\ sensed \/ tasks = 1 => ~told
    /\ sensed /\ tasks = 1 => held = 0
    /\ (sensed /\ tasks = 0) \/ (~sensed /\ tasks = 1) => since = held

\* The three thresholds divide the durations as the comments on them say.
LEMMA PushOfMeasures ==
  ASSUME NEW n \in 0..VeryLongDuration, PushOf(n) # "none"
  PROVE  n \in Durations[PushOf(n)]
<1> USE PairingAssumption DEF PushOf
<1>1. CASE n = VeryLongDuration
  BY <1>1 DEF Durations
<1>2. CASE LongDuration <= n /\ n < VeryLongDuration
  BY <1>2 DEF Durations
<1>3. CASE NormalDuration <= n /\ n < LongDuration
  BY <1>3 DEF Durations
<1> QED BY <1>1, <1>2, <1>3

\* A task of the pin keeps what is known, and gives the event of the push.
LEMMA HandlerMeasures ==
  ASSUME PinInv, MeasureInv, DigitalIoInputEventHandler
  PROVE  /\ MeasureInv'
         /\ GivesEvent /\ ~slipped /\ ~late => held \in Durations[event'] /\ ~told
<1>1. /\ tasks \in Nat /\ tasks # 0 /\ sensed = pushed /\ tasks' = tasks - 1
      /\ UNCHANGED << sensed, held, slipped, late >>
      /\ since' = IF pushed THEN 0 ELSE since
      /\ event' = IF pushed THEN "none" ELSE PushOf(since)
      /\ told' = (told \/ event' # "none")
  BY DEF DigitalIoInputEventHandler, DigitalInputCallback, InIsSet, PinInv, PairingTypeOK
<1>2. sensed \in BOOLEAN /\ since \in 0..VeryLongDuration
  BY DEF PinInv, PairingTypeOK
<1> SUFFICES ASSUME ~slipped, ~late
             PROVE  /\ MeasureInv'
                    /\ GivesEvent => held \in Durations[event'] /\ ~told
  BY <1>1 DEF MeasureInv
<1>3. /\ tasks = 1 /\ tasks' = 0 /\ ~told
      /\ sensed => held = 0
      /\ ~sensed => since = held
  BY <1>1, <1>2 DEF MeasureInv
<1>4. CASE pushed
  BY <1>1, <1>3, <1>4 DEF MeasureInv, GivesEvent
<1>5. CASE ~pushed
  <2>1. MeasureInv'
    BY <1>1, <1>3, <1>5 DEF MeasureInv
  <2>2. GivesEvent => held \in Durations[event']
    BY <1>1, <1>2, <1>3, <1>5, PushOfMeasures DEF GivesEvent
  <2> QED BY <1>3, <2>1, <2>2
<1> QED BY <1>4, <1>5

\* Every step keeps what is known of the push.
LEMMA MeasureStep ==
  PinInv /\ MeasureInv /\ [PairingNext]_pairingVars
    => MeasureInv' /\ (GivesEvent /\ ~slipped /\ ~late => held \in Durations[event'] /\ ~told)
<1> SUFFICES ASSUME PinInv, MeasureInv, [PairingNext]_pairingVars
             PROVE  /\ MeasureInv'
                    /\ GivesEvent /\ ~slipped /\ ~late
                         => held \in Durations[event'] /\ ~told
  OBVIOUS
<1>1. CASE DigitalIoInputEventHandler
  BY <1>1, HandlerMeasures
<1>2. ASSUME tasks' \in {tasks, tasks + 1} PROVE ~GivesEvent
  BY <1>2 DEF GivesEvent, PinInv, PairingTypeOK
<1>3. CASE \/ LinkNext /\ UNCHANGED buttonVars
           \/ Edge \/ UNCHANGED pairingVars
  <2>1. UNCHANGED << sensed, tasks, since, history >>
    BY <1>3 DEF Edge, buttonVars, pinVars, pairingVars
  <2> QED BY <1>2, <2>1 DEF MeasureInv, history, PinInv, PairingTypeOK
<1>4. CASE Tick
  <2>1. UNCHANGED << sensed, tasks, told, slipped >> /\ late' = (late \/ tasks # 0)
    BY <1>4 DEF Tick, pinVars
  <2>2. sensed /\ since = held => since' = held'
    BY <1>4 DEF Tick
  <2>3. MeasureInv'
    <3> SUFFICES ASSUME ~slipped, ~late' PROVE MeasureInv'
      BY <2>1 DEF MeasureInv
    <3>1. ~late /\ tasks = 0
      BY Zenon, <2>1
    <3> QED BY <2>1, <2>2, <3>1 DEF MeasureInv
  <2> QED BY <1>2, <2>1, <2>3 DEF PinInv, PairingTypeOK
<1>5. CASE DigitalIoInputIsr
  <2>0. tasks \in Nat /\ sensed \in BOOLEAN /\ pushed \in BOOLEAN
    BY DEF PinInv, PairingTypeOK
  <2>1. PICK refused \in BOOLEAN :
          /\ tasks' = IF refused THEN tasks ELSE tasks + 1
          /\ slipped' = (~(pushed /\ tasks = 0 /\ ~refused)
                           /\ (slipped \/ refused \/ tasks # 0))
          /\ late' = (~(pushed /\ tasks = 0 /\ ~refused) /\ late)
    BY <1>5 DEF DigitalIoInputIsr
  <2>2. /\ sensed # pushed /\ sensed' = pushed /\ since' = since
        /\ held' = IF pushed THEN 0 ELSE held
        /\ told' = (~pushed /\ told)
    BY <1>5 DEF DigitalIoInputIsr
  <2>3. ASSUME ~slipped', ~late'
        PROVE  /\ tasks = 0 /\ tasks' = 1 /\ ~told'
               /\ pushed => held' = 0
               /\ ~pushed => since' = held'
    <3>1. tasks = 0 /\ ~refused
      BY Zenon, <2>1, <2>3
    <3>2. tasks' = 1
      BY <2>1, <3>1
    <3>3. CASE pushed
      BY <2>2, <3>1, <3>2, <3>3
    <3>4. CASE ~pushed
      <4>1. ~slipped /\ ~late
        BY Zenon, <2>1, <2>3, <3>4
      <4>2. sensed
        BY <2>0, <2>2, <3>4
      <4>3. ~told /\ since = held
        BY <3>1, <4>1, <4>2 DEF MeasureInv
      <4> QED BY <2>2, <3>1, <3>2, <3>4, <4>3
    <3> QED BY <3>3, <3>4
  <2>4. MeasureInv'
    BY <2>0, <2>2, <2>3 DEF MeasureInv
  <2> QED BY <1>2, <2>0, <2>1, <2>4
<1> QED BY <1>1, <1>3, <1>4, <1>5 DEF PairingNext

\* The duration that hmi is told of is that between the two interrupts of the
\* push, and hmi is told once, for any thresholds: unless an edge was refused or
\* overtook a task, or a task waited through a tick.
THEOREM PushMeasured == PairingSpec => PushIsMeasured
<1>1. PairingInit => PinInv /\ MeasureInv
  BY PinInit DEF PairingInit, MeasureInv
<1>2. PinInv /\ MeasureInv /\ [PairingNext]_pairingVars
        => /\ (PinInv /\ MeasureInv)'
           /\ [GivesEvent /\ ~slipped /\ ~late
                 => held \in Durations[event'] /\ ~told]_pairingVars
  BY PinStep, MeasureStep
<1> QED BY <1>1, <1>2, PTL DEF PairingSpec, PushIsMeasured

=============================================================================
