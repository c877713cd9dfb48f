------------------------- MODULE BlePeripheralProofs -------------------------
(***************************************************************************)
(* Theorems about the connection state machine, for every set of clients'  *)
(* requests, with or without a timeout of advertising, and for events that *)
(* are delivered as late as one likes.                                     *)
(*                                                                         *)
(* HandleFollowsState is not inductive: it says nothing of UNBONDING, from *)
(* which an event leads on.  HandleInv gives every state its handle, and   *)
(* leaves DISCONNECTED out because no handler ends there.                  *)
(***************************************************************************)
EXTENDS BlePeripheral, TLAPS

MachineSet == [state : State, conn : {"INVALID", "HANDLE"},
               link : {"none", "up", "closing"}, adv : BOOLEAN,
               sec : {"none", "requested", "running"}, deleting : BOOLEAN]

\* The handle that belongs to a state.
Consistent(m) ==
  /\ m \in MachineSet
  /\ m.state # "DISCONNECTED"
  /\ m.conn = IF m.state = "ADVERTISING" THEN "INVALID" ELSE "HANDLE"

HandleInv == TypeOK /\ Consistent(Machine)

-----------------------------------------------------------------------------
LEMMA DisconnectKeeps ==
  ASSUME NEW m \in MachineSet
  PROVE  /\ Disconnect(m) \in MachineSet
         /\ Disconnect(m).state = m.state
         /\ Disconnect(m).conn = m.conn
BY DEF Disconnect, MachineSet

LEMMA GotoMoves ==
  ASSUME NEW m \in MachineSet, NEW s \in State
  PROVE  /\ Goto(m, s) \in MachineSet
         /\ Goto(m, s).state = s
         /\ Goto(m, s).conn = m.conn
<1> DEFINE left == IF m.state = "DISCONNECTING" THEN Disconnect(m) ELSE m
<1>1. left \in MachineSet /\ left.conn = m.conn
  BY DisconnectKeeps
<1>2. Goto(m, s) = [left EXCEPT !.state = s]
  BY DEF Goto
<1> HIDE DEF left
<1> QED BY <1>1, <1>2 DEF MachineSet

LEMMA ToConnectedMoves ==
  ASSUME NEW m \in MachineSet
  PROVE  /\ ToConnected(m) \in MachineSet
         /\ ToConnected(m).state = "CONNECTED" /\ ToConnected(m).conn = m.conn
BY GotoMoves DEF ToConnected, State

LEMMA ToAdvertisingMoves ==
  ASSUME NEW m \in MachineSet
  PROVE  /\ ToAdvertising(m) \in MachineSet
         /\ ToAdvertising(m).state = "ADVERTISING" /\ ToAdvertising(m).conn = m.conn
<1> DEFINE g == Goto(m, "ADVERTISING")
<1>1. g \in MachineSet /\ g.state = "ADVERTISING" /\ g.conn = m.conn
  BY GotoMoves DEF State
<1>2. ToAdvertising(m) = StartAdvertising(g)
  BY DEF ToAdvertising
<1> HIDE DEF g
<1> QED BY <1>1, <1>2 DEF StartAdvertising, MachineSet

LEMMA ToDisconnectingMoves ==
  ASSUME NEW m \in MachineSet
  PROVE  /\ ToDisconnecting(m) \in MachineSet
         /\ ToDisconnecting(m).state = "DISCONNECTING"
         /\ ToDisconnecting(m).conn = m.conn
BY GotoMoves, DisconnectKeeps DEF ToDisconnecting, State

LEMMA ToBondingMoves ==
  ASSUME NEW m \in MachineSet
  PROVE  /\ ToBonding(m) \in MachineSet
         /\ ToBonding(m).state = "BONDING" /\ ToBonding(m).conn = m.conn
<1> DEFINE g == Goto(m, "BONDING")
<1>1. g \in MachineSet /\ g.state = "BONDING" /\ g.conn = m.conn
  BY GotoMoves DEF State
<1>2. ToBonding(m) = Bond(g)
  BY DEF ToBonding
<1> HIDE DEF g
<1> QED BY <1>1, <1>2 DEF Bond, MachineSet

\* What a lost connection comes to is a machine that advertises without handle.
LEMMA ToDisconnectedMoves ==
  ASSUME NEW m \in MachineSet
  PROVE  /\ Consistent(ToDisconnected(m))
         /\ ToDisconnected(m).state = "ADVERTISING"
<1> DEFINE g == [Goto(m, "DISCONNECTED") EXCEPT !.conn = "INVALID"]
<1>1. g \in MachineSet /\ g.conn = "INVALID"
  BY GotoMoves DEF State, MachineSet
<1>2. ToDisconnected(m) = ToAdvertising(g)
  BY DEF ToDisconnected
<1> HIDE DEF g
<1> QED BY <1>1, <1>2, ToAdvertisingMoves DEF Consistent

LEMMA RemoveAllBondingsKeeps ==
  ASSUME NEW m, Consistent(m)
  PROVE  Consistent(RemoveAllBondings(m))
BY ToDisconnectedMoves DEF RemoveAllBondings, Consistent, MachineSet

LEMMA ToUnbondingKeeps ==
  ASSUME NEW m, Consistent(m), m.state # "ADVERTISING"
  PROVE  Consistent(ToUnbonding(m))
<1> DEFINE quiet == [Goto(m, "UNBONDING") EXCEPT !.adv = FALSE]
<1>1. Consistent(quiet)
  <2> DEFINE g == Goto(m, "UNBONDING")
  <2>1. /\ g \in MachineSet /\ g.state = "UNBONDING" /\ g.conn = m.conn
        /\ m.conn = "HANDLE"
    BY GotoMoves DEF Consistent, State
  <2> HIDE DEF g
  <2>2. Consistent([g EXCEPT !.adv = FALSE])
    BY <2>1 DEF Consistent, MachineSet
  <2> QED BY <2>2 DEF g
<1>2. ToUnbonding(m) = IF CanDisconnect(quiet) THEN Disconnect(quiet)
                                               ELSE RemoveAllBondings(quiet)
  BY DEF ToUnbonding
<1> HIDE DEF quiet
<1>3. Consistent(Disconnect(quiet))
  BY <1>1, DisconnectKeeps DEF Consistent
<1>4. Consistent(RemoveAllBondings(quiet))
  BY <1>1, RemoveAllBondingsKeeps
<1> QED BY <1>2, <1>3, <1>4

-----------------------------------------------------------------------------
\* One case for each state: no handler leaves a state with the wrong handle.
LEMMA EvtHandlerKeeps ==
  ASSUME NEW m, Consistent(m), NEW e
  PROVE  Consistent(EvtHandler(m, e))
<1>0. m \in MachineSet /\ m.state \in State \ {"DISCONNECTED"}
  BY DEF Consistent, MachineSet
<1>1. CASE m.state = "CONNECTED"
  <2>1. EvtHandler(m, e) = ConnectedHandler(m, e)
    BY <1>1 DEF EvtHandler
  <2>2. Consistent(ToDisconnecting(m)) /\ Consistent(ToBonding(m))
    BY <1>0, <1>1, ToDisconnectingMoves, ToBondingMoves DEF Consistent
  <2>3. Consistent(ToDisconnected(m)) /\ Consistent(ToUnbonding(m))
    BY <1>0, <1>1, ToDisconnectedMoves, ToUnbondingKeeps
  <2> QED BY <2>1, <2>2, <2>3 DEF ConnectedHandler
<1>2. CASE m.state = "DISCONNECTING"
  <2>1. EvtHandler(m, e) = DisconnectingHandler(m, e)
    BY <1>2 DEF EvtHandler
  <2> QED BY <2>1, <1>0, ToDisconnectedMoves DEF DisconnectingHandler
<1>3. CASE m.state = "ADVERTISING"
  <2> DEFINE c == [m EXCEPT !.conn = "HANDLE"]
  <2>1. EvtHandler(m, e) = AdvertisingHandler(m, e)
    BY <1>3 DEF EvtHandler
  <2>2. c \in MachineSet /\ c.conn = "HANDLE"
    BY <1>0 DEF MachineSet
  <2>3. Consistent(ToConnected(c))
    BY <2>2, ToConnectedMoves DEF Consistent
  <2>4. Consistent(ToDisconnected(m))
    BY <1>0, ToDisconnectedMoves
  <2> QED BY <2>1, <2>3, <2>4 DEF AdvertisingHandler
<1>4. CASE m.state = "BONDING"
  <2>1. EvtHandler(m, e) = BondingHandler(m, e)
    BY <1>4 DEF EvtHandler
  <2>2. Consistent(ToConnected(m))
    BY <1>0, <1>4, ToConnectedMoves DEF Consistent
  <2> QED BY <2>1, <2>2 DEF BondingHandler
<1>5. CASE m.state = "UNBONDING"
  <2>1. EvtHandler(m, e) = UnbondingHandler(m, e)
    BY <1>5 DEF EvtHandler
  <2> QED BY <2>1, <1>0, ToDisconnectedMoves, RemoveAllBondingsKeeps
          DEF UnbondingHandler
<1> QED BY <1>0, <1>1, <1>2, <1>3, <1>4, <1>5 DEF State

LEMMA ButtonKeeps ==
  ASSUME NEW m, Consistent(m), NEW press
  PROVE  Consistent(ButtonCallback(m, press))
BY EvtHandlerKeeps DEF ButtonCallback

\* A step to a consistent machine keeps the type of what it assigns.
LEMMA BecomesKeeps ==
  ASSUME NEW m, Consistent(m), Becomes(m), HandleInv
  PROVE  /\ Consistent(Machine)'
         /\ state' \in State /\ conn' \in {"INVALID", "HANDLE"}
         /\ link' \in {"none", "up", "closing"} /\ adv' \in BOOLEAN
         /\ sec' \in {"none", "requested", "running"} /\ deleting' \in BOOLEAN
         /\ bonded' \in BOOLEAN
<1>1. m = Machine'
  BY DEF Consistent, MachineSet, Becomes, Machine
<1> QED BY <1>1 DEF Consistent, MachineSet, Becomes, HandleInv, TypeOK

-----------------------------------------------------------------------------
LEMMA InitHandleInv == Init => HandleInv
<1> SUFFICES ASSUME Init PROVE HandleInv
  OBVIOUS
<1>1. evts \in Seq(Event) /\ Len(evts) <= EvtsMax
  BY BleAssumption DEF Init
<1>2. TypeOK
  BY <1>1 DEF Init, TypeOK, State
<1>3. Consistent(Machine)
  BY DEF Init, Consistent, MachineSet, Machine, State
<1> QED BY <1>2, <1>3 DEF HandleInv

\* What the stack raises is an event, and there is room for it.
LEMMA RaiseKeeps ==
  ASSUME NEW e \in Event, Raise(e), evts \in Seq(Event), Len(evts) <= EvtsMax
  PROVE  evts' \in Seq(Event) /\ Len(evts') <= EvtsMax
BY BleAssumption DEF Raise

LEMMA TailKeeps ==
  ASSUME evts \in Seq(Event), Len(evts) <= EvtsMax, evts # << >>
  PROVE  Tail(evts) \in Seq(Event) /\ Len(Tail(evts)) <= EvtsMax
BY BleAssumption

LEMMA DeliverKeeps ==
  ASSUME NEW raised, NEW e, Deliver(raised, e), HandleInv
  PROVE  HandleInv'
<1>1. Consistent(EvtHandler(Machine, e)) /\ Becomes(EvtHandler(Machine, e))
  BY EvtHandlerKeeps DEF HandleInv, Deliver
<1>2. evts' \in Seq(Event) /\ Len(evts') <= EvtsMax
  BY TailKeeps DEF Deliver, HandleInv, TypeOK
<1>3. spoilt' \in BOOLEAN
  BY DEF Deliver, HandleInv, TypeOK
<1> QED BY <1>1, <1>2, <1>3, BecomesKeeps DEF HandleInv, TypeOK

LEMMA LinkLostKeeps == HandleInv /\ LinkLost => HandleInv'
<1> SUFFICES ASSUME HandleInv, LinkLost PROVE HandleInv'
  OBVIOUS
<1> DEFINE m == EvtHandler(EvtHandler(Machine, "UNBONDED"), "DISCONNECTED")
<1>1. Consistent(m) /\ Becomes(m)
  BY EvtHandlerKeeps DEF HandleInv, LinkLost
<1> HIDE DEF m
<1>2. evts' \in Seq(Event) /\ Len(evts') <= EvtsMax
  BY TailKeeps DEF LinkLost, HandleInv, TypeOK
<1>3. spoilt' \in BOOLEAN
  BY DEF LinkLost, HandleInv, TypeOK
<1> QED BY <1>1, <1>2, <1>3, BecomesKeeps DEF HandleInv, TypeOK

LEMMA CallsKeep ==
  ASSUME NEW m, Consistent(m), Becomes(m), UNCHANGED << evts, spoilt >>, HandleInv
  PROVE  HandleInv'
BY BecomesKeeps DEF HandleInv, TypeOK

\* The stack changes neither state nor handle.
LEMMA StackKeeps ==
  ASSUME HandleInv,
         Connect \/ EndOfLink \/ GattTimeout \/ AdvTimeout \/ SecStart \/ SecEnd \/ DeleteEnd
  PROVE  HandleInv'
<1>1. /\ link' \in {"none", "up", "closing"} /\ adv' \in BOOLEAN
      /\ sec' \in {"none", "requested", "running"} /\ deleting' \in BOOLEAN
      /\ bonded' \in BOOLEAN /\ state' = state /\ conn' = conn /\ spoilt' = spoilt
  BY DEF HandleInv, TypeOK, Connect, EndOfLink, GattTimeout, AdvTimeout, SecStart,
         SecEnd, DeleteEnd
<1>2. evts' = evts \/ \E e \in Event : Raise(e)
  BY DEF Connect, EndOfLink, GattTimeout, AdvTimeout, SecStart, SecEnd, DeleteEnd, Event
<1>3. evts' \in Seq(Event) /\ Len(evts') <= EvtsMax
  BY <1>2, RaiseKeeps DEF HandleInv, TypeOK
<1>4. TypeOK'
  BY <1>1, <1>3 DEF HandleInv, TypeOK
<1>5. Consistent(Machine)'
  BY <1>1, <1>4 DEF HandleInv, Consistent, Machine, MachineSet, TypeOK
<1> QED BY <1>4, <1>5 DEF HandleInv

LEMMA StepKeeps == HandleInv /\ [Next]_vars => HandleInv'
<1> SUFFICES ASSUME HandleInv, [Next]_vars PROVE HandleInv'
  OBVIOUS
<1>0. Consistent(Machine) /\ Machine \in MachineSet
  BY DEF HandleInv, Consistent
<1>1. CASE BleEvt \/ PmEvt
  BY <1>1, DeliverKeeps DEF BleEvt, PmEvt
<1>2. CASE LinkLost
  BY <1>2, LinkLostKeeps
<1>3. CASE ConnParamsFailed
  <2>1. Consistent(Disconnect(Machine))
    BY <1>0, DisconnectKeeps DEF Consistent
  <2> QED BY <1>3, <2>1, CallsKeep DEF ConnParamsFailed
<1>4. CASE \E r \in Requests : Request(r)
  <2>1. PICK r \in Requests : Request(r)
    BY <1>4
  <2>2. Consistent(EvtHandler(Machine, r))
    BY <1>0, EvtHandlerKeeps
  <2> QED BY <2>1, <2>2, CallsKeep DEF Request
<1>5. CASE \E press \in {"NORMAL", "LONG"} : Button(press)
  <2>1. PICK press \in {"NORMAL", "LONG"} : Button(press)
    BY <1>5
  <2>2. Consistent(ButtonCallback(Machine, press))
    BY <1>0, ButtonKeeps
  <2> QED BY <2>1, <2>2, CallsKeep DEF Button
<1>6. CASE Connect \/ EndOfLink \/ GattTimeout \/ AdvTimeout \/ SecStart \/ SecEnd
           \/ DeleteEnd
  BY <1>6, StackKeeps
<1>7. CASE UNCHANGED vars
  BY <1>7 DEF HandleInv, TypeOK, Consistent, Machine, vars, stackVars
<1> QED BY <1>1, <1>2, <1>3, <1>4, <1>5, <1>6, <1>7 DEF Next, LinkNext

\* change_state and the handlers, nested as they may be, keep HandleInv.
THEOREM HandleInvariance == Spec => []HandleInv
BY InitHandleInv, StepKeeps, PTL DEF Spec

\* Every variable keeps its type: no unknown state is ever entered.
THEOREM MachineTypeCorrect == Spec => []TypeOK
<1>1. HandleInv => TypeOK
  BY DEF HandleInv
<1> QED BY <1>1, HandleInvariance, PTL

\* g_conn_handle follows g_current_state.
THEOREM HandleFollows == Spec => []HandleFollowsState
<1>1. HandleInv => HandleFollowsState
  BY DEF HandleInv, HandleFollowsState, Consistent, Machine
<1> QED BY <1>1, HandleInvariance, PTL

\* The advertising controller never lets the machine rest in DISCONNECTED, so
\* the button's branches for that state are dead for every client.
THEOREM NeverAtRest == Spec => []NeverRestsDisconnected
<1>1. HandleInv => NeverRestsDisconnected
  BY DEF HandleInv, NeverRestsDisconnected, Consistent, Machine
<1> QED BY <1>1, HandleInvariance, PTL

-----------------------------------------------------------------------------
(***************************************************************************)
(* The link.  Its events arrive late, so what the machine knows of it is   *)
(* what is still in evts: while the beginning of the link is on its way,   *)
(* the machine is in ADVERTISING with nothing advertised; while a link is  *)
(* up, no end of one is on its way behind its beginning.                   *)
(***************************************************************************)
Begin == {"CONNECTED", "ADVERTISING_STOPPED"}

End == {"DISCONNECTED", "LINK_LOST"}

\* What a handler keeps without looking at evts.
Sane(m) ==
  /\ m.adv => m.link = "none" /\ m.state = "ADVERTISING"
  /\ m.state \in {"DISCONNECTING", "UNBONDING"} => m.link # "up"

\* The end of advertising, by a link or by its timeout, is on its way at most
\* once, and nothing else moves the machine until it arrives.
OneBegin ==
  /\ \A i \in 1 .. Len(evts) : evts[i] \in Begin => ~adv /\ state = "ADVERTISING"
  /\ \A i, j \in 1 .. Len(evts) : evts[i] \in Begin /\ evts[j] \in Begin => i = j
  /\ \A i \in 1 .. Len(evts) : evts[i] = "ADVERTISING_STOPPED" => link = "none"

\* The machine knows of the link, or will.
Known ==
  link = "up" =>
    IF state = "ADVERTISING"
      THEN \E i \in 1 .. Len(evts) :
             evts[i] = "CONNECTED" /\ \A j \in i + 1 .. Len(evts) : evts[j] \notin End
      ELSE \A i \in 1 .. Len(evts) : evts[i] \notin End

LinkInv == HandleInv /\ Sane(Machine) /\ OneBegin /\ Known

-----------------------------------------------------------------------------
\* What a handler may do to the link: close it.
Moved(m, r) ==
  /\ Sane(r)
  /\ r.link = "none" <=> m.link = "none"
  /\ r.link = "up" => m.link = "up"

\* A machine without advertising, and with no link left open where it must not be.
Quiet(m) == m \in MachineSet /\ ~m.adv

LEMMA DisconnectCloses ==
  ASSUME NEW m \in MachineSet
  PROVE  /\ Disconnect(m).link = "none" <=> m.link = "none"
         /\ Disconnect(m).link = "up" => m.link = "up"
         /\ m.conn = "HANDLE" => Disconnect(m).link # "up"
         /\ Disconnect(m).adv = m.adv
BY DEF Disconnect, CanDisconnect, MachineSet

LEMMA GotoCloses ==
  ASSUME NEW m \in MachineSet, NEW s \in State
  PROVE  /\ Goto(m, s).link = "none" <=> m.link = "none"
         /\ Goto(m, s).link = "up" => m.link = "up"
         /\ Goto(m, s).adv = m.adv
<1> DEFINE left == IF m.state = "DISCONNECTING" THEN Disconnect(m) ELSE m
<1>1. /\ left \in MachineSet
      /\ left.link = "none" <=> m.link = "none"
      /\ left.link = "up" => m.link = "up"
      /\ left.adv = m.adv
  BY DisconnectKeeps, DisconnectCloses
<1>2. Goto(m, s) = [left EXCEPT !.state = s]
  BY DEF Goto
<1> HIDE DEF left
<1> QED BY <1>1, <1>2 DEF MachineSet

LEMMA ToConnectedCloses ==
  ASSUME NEW m, Quiet(m)
  PROVE  Moved(m, ToConnected(m))
BY GotoCloses, GotoMoves DEF Quiet, Moved, Sane, ToConnected, State

LEMMA ToDisconnectingCloses ==
  ASSUME NEW m, Quiet(m), m.conn = "HANDLE"
  PROVE  Moved(m, ToDisconnecting(m))
<1> DEFINE g == Goto(m, "DISCONNECTING")
<1>1. /\ g \in MachineSet /\ g.state = "DISCONNECTING" /\ g.conn = m.conn
      /\ g.link = "none" <=> m.link = "none"
      /\ g.link = "up" => m.link = "up"
      /\ g.adv = m.adv
  BY GotoCloses, GotoMoves DEF Quiet, State
<1>2. ToDisconnecting(m) = Disconnect(g)
  BY DEF ToDisconnecting
<1> HIDE DEF g
<1>3. /\ Disconnect(g).state = g.state
      /\ Disconnect(g).link = "none" <=> g.link = "none"
      /\ Disconnect(g).link = "up" => g.link = "up"
      /\ Disconnect(g).link # "up"
      /\ Disconnect(g).adv = g.adv
  BY <1>1, DisconnectKeeps, DisconnectCloses
<1> QED BY <1>1, <1>2, <1>3 DEF Quiet, Moved, Sane

LEMMA ToBondingCloses ==
  ASSUME NEW m, Quiet(m)
  PROVE  Moved(m, ToBonding(m))
<1> DEFINE g == Goto(m, "BONDING")
<1>1. /\ g \in MachineSet /\ g.state = "BONDING"
      /\ g.link = "none" <=> m.link = "none"
      /\ g.link = "up" => m.link = "up"
      /\ g.adv = m.adv
  BY GotoCloses, GotoMoves DEF Quiet, State
<1>2. ToBonding(m) = Bond(g)
  BY DEF ToBonding
<1> HIDE DEF g
<1>3. Bond(g).link = g.link /\ Bond(g).adv = g.adv /\ Bond(g).state = g.state
  BY <1>1 DEF Bond, MachineSet
<1> QED BY <1>1, <1>2, <1>3 DEF Quiet, Moved, Sane

\* Advertising begins again exactly when there is no link.
LEMMA ToDisconnectedCloses ==
  ASSUME NEW m, Quiet(m)
  PROVE  Moved(m, ToDisconnected(m)) /\ ToDisconnected(m).state = "ADVERTISING"
<1> DEFINE d == Goto(m, "DISCONNECTED")
           g == [d EXCEPT !.conn = "INVALID"]
           h == Goto(g, "ADVERTISING")
<1>1. /\ d \in MachineSet /\ d.state = "DISCONNECTED" /\ ~d.adv
      /\ d.link = "none" <=> m.link = "none"
      /\ d.link = "up" => m.link = "up"
  BY GotoCloses, GotoMoves DEF Quiet, State
<1> HIDE DEF d
<1>2. /\ g \in MachineSet /\ ~g.adv /\ g.link = d.link
  BY <1>1 DEF MachineSet
<1> HIDE DEF g
<1>3. /\ h \in MachineSet /\ h.state = "ADVERTISING" /\ ~h.adv
      /\ h.link = "none" <=> g.link = "none"
      /\ h.link = "up" => g.link = "up"
  BY <1>2, GotoCloses, GotoMoves DEF State
<1>4. ToDisconnected(m) = StartAdvertising(h)
  BY DEF ToDisconnected, ToAdvertising, d, g
<1> HIDE DEF h
<1>5. /\ StartAdvertising(h).state = h.state /\ StartAdvertising(h).link = h.link
      /\ StartAdvertising(h).adv => h.link = "none"
  BY <1>3 DEF StartAdvertising, MachineSet
<1> QED BY <1>1, <1>2, <1>3, <1>4, <1>5 DEF Moved, Sane

LEMMA RemoveAllBondingsCloses ==
  ASSUME NEW m, Quiet(m), m.link # "up"
  PROVE  Moved(m, RemoveAllBondings(m))
<1>1. CASE bonded
  <2>1. RemoveAllBondings(m) = [m EXCEPT !.deleting = TRUE]
    BY <1>1 DEF RemoveAllBondings
  <2> QED BY <2>1 DEF Quiet, Moved, Sane, MachineSet
<1>2. CASE ~bonded
  BY <1>2, ToDisconnectedCloses DEF RemoveAllBondings
<1> QED BY <1>1, <1>2

\* Unbonding advertises at once only if there was no link to close.
LEMMA ToUnbondingCloses ==
  ASSUME NEW m, Quiet(m), m.conn = "HANDLE", m.state = "CONNECTED"
  PROVE  /\ Moved(m, ToUnbonding(m))
         /\ ToUnbonding(m).state = "ADVERTISING" => m.link # "up"
<1> DEFINE g == Goto(m, "UNBONDING")
           quiet == [g EXCEPT !.adv = FALSE]
<1>1. /\ g \in MachineSet /\ g.state = "UNBONDING" /\ g.conn = m.conn
      /\ g.link = "none" <=> m.link = "none"
      /\ g.link = "up" => m.link = "up"
      /\ g.link = m.link
  <2>1. g.link = m.link
    BY DEF Goto, Quiet, MachineSet
  <2> QED BY <2>1, GotoCloses, GotoMoves DEF Quiet, State
<1> HIDE DEF g
<1>2. /\ Quiet(quiet) /\ quiet.state = "UNBONDING" /\ quiet.conn = "HANDLE"
      /\ quiet.link = g.link
  BY <1>1 DEF Quiet, MachineSet
<1>3. ToUnbonding(m) = IF CanDisconnect(quiet) THEN Disconnect(quiet)
                                               ELSE RemoveAllBondings(quiet)
  BY DEF ToUnbonding, g
<1> HIDE DEF quiet
<1>4. CASE CanDisconnect(quiet)
  <2>1. /\ Disconnect(quiet).state = quiet.state
        /\ Disconnect(quiet).link = "none" <=> quiet.link = "none"
        /\ Disconnect(quiet).link = "up" => quiet.link = "up"
        /\ Disconnect(quiet).link # "up"
        /\ Disconnect(quiet).adv = quiet.adv
    BY <1>2, DisconnectKeeps, DisconnectCloses DEF Quiet
  <2> QED BY <1>1, <1>2, <1>3, <1>4, <2>1 DEF Quiet, Moved, Sane
<1>5. CASE ~CanDisconnect(quiet)
  <2>1. quiet.link # "up"
    BY <1>2, <1>5 DEF CanDisconnect
  <2>2. Moved(quiet, RemoveAllBondings(quiet))
    BY <1>2, <2>1, RemoveAllBondingsCloses
  <2>3. Moved(m, RemoveAllBondings(quiet))
    BY <1>1, <1>2, <2>2 DEF Moved
  <2>4. m.link # "up"
    BY <1>1, <1>2, <2>1
  <2> QED BY <1>3, <1>5, <2>3, <2>4
<1> QED BY <1>4, <1>5

\* What an event does to the link, and when it leads to ADVERTISING: a machine
\* that advertises waits for the end of its advertising, another one comes to
\* advertise because its link has gone.
LEMMA EvtHandlerCloses ==
  ASSUME NEW m, Consistent(m), Sane(m), NEW e, e \in Begin => ~m.adv
  PROVE  LET r == EvtHandler(m, e)
         IN  /\ Moved(m, r)
             /\ m.state # "ADVERTISING" /\ r.state = "ADVERTISING"
                  => m.link # "up" \/ e = "DISCONNECTED"
             /\ m.state = "ADVERTISING" /\ e \notin Begin => r = m
             /\ m.state = "ADVERTISING" /\ e = "ADVERTISING_STOPPED"
                  => r.state = "ADVERTISING"
             /\ m.state = "ADVERTISING" /\ e = "CONNECTED" => r.state = "CONNECTED"
<1> DEFINE r == EvtHandler(m, e)
<1>0. m \in MachineSet /\ m.state \in State \ {"DISCONNECTED"} /\ Moved(m, m)
  BY DEF Consistent, MachineSet, Moved
<1>1. CASE m.state = "CONNECTED"
  <2>1. r = ConnectedHandler(m, e)
    BY <1>1 DEF EvtHandler
  <2>2. Quiet(m) /\ m.conn = "HANDLE"
    BY <1>1 DEF Consistent, Sane, Quiet
  <2>3. /\ Moved(m, ToDisconnecting(m)) /\ ToDisconnecting(m).state = "DISCONNECTING"
        /\ Moved(m, ToBonding(m)) /\ ToBonding(m).state = "BONDING"
    BY <1>0, <2>2, ToDisconnectingCloses, ToDisconnectingMoves, ToBondingCloses,
       ToBondingMoves
  <2>4. /\ Moved(m, ToDisconnected(m)) /\ Moved(m, ToUnbonding(m))
        /\ ToUnbonding(m).state = "ADVERTISING" => m.link # "up"
    BY <1>1, <2>2, ToDisconnectedCloses, ToUnbondingCloses
  <2> QED BY <1>0, <1>1, <2>1, <2>3, <2>4 DEF ConnectedHandler
<1>2. CASE m.state = "DISCONNECTING"
  <2>1. r = DisconnectingHandler(m, e)
    BY <1>2 DEF EvtHandler
  <2>2. Quiet(m) /\ m.link # "up"
    BY <1>0, <1>2 DEF Sane, Quiet
  <2>3. Moved(m, ToDisconnected(m))
    BY <2>2, ToDisconnectedCloses
  <2> QED BY <1>0, <1>2, <2>1, <2>2, <2>3 DEF DisconnectingHandler
<1>3. CASE m.state = "ADVERTISING"
  <2>1. r = AdvertisingHandler(m, e)
    BY <1>3 DEF EvtHandler
  <2>2. CASE e = "CONNECTED"
    <3> DEFINE c == [m EXCEPT !.conn = "HANDLE"]
    <3>1. Quiet(c) /\ c.link = m.link
      BY <1>0, <2>2 DEF Quiet, MachineSet, Begin
    <3>2. r = ToConnected(c)
      BY <2>1, <2>2 DEF AdvertisingHandler
    <3> HIDE DEF c
    <3>3. Moved(c, r) /\ r.state = "CONNECTED"
      BY <3>1, <3>2, ToConnectedCloses, ToConnectedMoves DEF Quiet
    <3> QED BY <1>3, <2>2, <3>1, <3>3 DEF Moved, Begin
  <2>3. CASE e = "ADVERTISING_STOPPED"
    <3>1. r = ToDisconnected(m)
      BY <2>1, <2>3 DEF AdvertisingHandler
    <3>2. Quiet(m)
      BY <1>0, <2>3 DEF Quiet, Begin
    <3>3. Moved(m, r) /\ r.state = "ADVERTISING"
      BY <3>1, <3>2, ToDisconnectedCloses
    <3> QED BY <1>3, <2>3, <3>3 DEF Begin
  <2>4. CASE e \notin Begin
    BY <1>0, <1>3, <2>1, <2>4 DEF AdvertisingHandler, Begin
  <2> QED BY <2>2, <2>3, <2>4 DEF Begin
<1>4. CASE m.state = "BONDING"
  <2>1. r = BondingHandler(m, e)
    BY <1>4 DEF EvtHandler
  <2>2. Quiet(m)
    BY <1>0, <1>4 DEF Sane, Quiet
  <2>3. Moved(m, ToConnected(m)) /\ ToConnected(m).state = "CONNECTED"
    BY <1>0, <2>2, ToConnectedCloses, ToConnectedMoves
  <2> QED BY <1>0, <1>4, <2>1, <2>3 DEF BondingHandler
<1>5. CASE m.state = "UNBONDING"
  <2>1. r = UnbondingHandler(m, e)
    BY <1>5 DEF EvtHandler
  <2>2. Quiet(m) /\ m.link # "up"
    BY <1>0, <1>5 DEF Sane, Quiet
  <2>3. Moved(m, ToDisconnected(m)) /\ Moved(m, RemoveAllBondings(m))
    BY <2>2, ToDisconnectedCloses, RemoveAllBondingsCloses
  <2> QED BY <1>0, <1>5, <2>1, <2>2, <2>3 DEF UnbondingHandler
<1> QED BY <1>0, <1>1, <1>2, <1>3, <1>4, <1>5 DEF State

-----------------------------------------------------------------------------
(***************************************************************************)
(* The steps, with what they do to evts.                                   *)
(***************************************************************************)
LEMMA TailShifts ==
  ASSUME evts \in Seq(Event), evts # << >>, evts' = Tail(evts)
  PROVE  /\ Len(evts') = Len(evts) - 1 /\ Len(evts) \in Nat \ {0}
         /\ Head(evts) = evts[1]
         /\ \A i \in 1 .. Len(evts') : i + 1 \in 2 .. Len(evts)
                                       /\ evts'[i] = evts[i + 1]
OBVIOUS

\* The machine r that a step leads to.
LEMMA NowIs ==
  ASSUME NEW r, r \in MachineSet, Becomes(r)
  PROVE  Machine' = r /\ state' = r.state /\ link' = r.link /\ adv' = r.adv
BY DEF Becomes, Machine, MachineSet

\* A call, or an event that the machine has no use for: evts stays.
LEMMA CallKnows ==
  ASSUME LinkInv, NEW r, Consistent(r), Becomes(r), UNCHANGED evts,
         Moved(Machine, r),
         state = "ADVERTISING" => r.state = "ADVERTISING" /\ r.adv = adv,
         state # "ADVERTISING" /\ r.state = "ADVERTISING" => link # "up"
  PROVE  Sane(Machine)' /\ OneBegin' /\ Known'
<1>1. Machine' = r /\ state' = r.state /\ link' = r.link /\ adv' = r.adv
  BY NowIs DEF Consistent
<1>2. Sane(Machine)'
  BY <1>1 DEF Moved, Sane, Machine
<1>3. (link' = "none" <=> link = "none") /\ (link' = "up" => link = "up")
  BY <1>1 DEF Moved, Machine
<1>4. OneBegin'
  BY <1>1, <1>3 DEF LinkInv, OneBegin
<1>5. Known'
  BY <1>1, <1>3 DEF LinkInv, Known
<1> QED BY <1>2, <1>4, <1>5

\* The delivery of the oldest event, e to the machine, raised in evts.
LEMMA DeliveryKnows ==
  ASSUME LinkInv, evts # << >>, evts' = Tail(evts), NEW r, Consistent(r), Becomes(r),
         Moved(Machine, r),
         state # "ADVERTISING" /\ r.state = "ADVERTISING"
           => link # "up" \/ Head(evts) \in End,
         state = "ADVERTISING" /\ Head(evts) \notin Begin => r = Machine,
         state = "ADVERTISING" /\ Head(evts) = "ADVERTISING_STOPPED"
           => r.state = "ADVERTISING",
         state = "ADVERTISING" /\ Head(evts) = "CONNECTED" => r.state = "CONNECTED"
  PROVE  Sane(Machine)' /\ OneBegin' /\ Known'
<1>1. Machine' = r /\ state' = r.state /\ link' = r.link /\ adv' = r.adv
  BY NowIs DEF Consistent
<1>2. Sane(Machine)'
  BY <1>1 DEF Moved, Sane, Machine
<1>3. (link' = "none" <=> link = "none") /\ (link' = "up" => link = "up")
  BY <1>1 DEF Moved, Machine
<1>4. /\ Len(evts') = Len(evts) - 1 /\ Len(evts) \in Nat \ {0}
      /\ Head(evts) = evts[1]
      /\ \A i \in 1 .. Len(evts') : i + 1 \in 2 .. Len(evts)
                                    /\ evts'[i] = evts[i + 1]
  BY TailShifts DEF LinkInv, HandleInv, TypeOK
<1>5. Machine.state = state /\ Machine.adv = adv
  BY DEF Machine
<1>6. OneBegin /\ Known /\ 1 \in 1 .. Len(evts) /\ \A i \in 2 .. Len(evts) : i \in 1 .. Len(evts)
  BY <1>4 DEF LinkInv
<1>7. OneBegin'
  <2>1. ASSUME NEW i \in 1 .. Len(evts'), evts'[i] \in Begin
        PROVE  ~adv' /\ state' = "ADVERTISING"
    <3>1. i + 1 \in 1 .. Len(evts) /\ i + 1 # 1 /\ evts[i + 1] \in Begin
      BY <1>4, <1>6, <2>1
    <3>2. ~adv /\ state = "ADVERTISING" /\ Head(evts) \notin Begin
      BY <1>4, <1>6, <3>1 DEF OneBegin
    <3> QED BY <1>1, <1>5, <3>2
  <2>2. ASSUME NEW i \in 1 .. Len(evts'), NEW j \in 1 .. Len(evts'),
               evts'[i] \in Begin, evts'[j] \in Begin
        PROVE  i = j
    <3>1. i + 1 = j + 1
      BY <1>4, <1>6, <2>2 DEF OneBegin
    <3> QED BY <3>1
  <2>3. \A i \in 1 .. Len(evts') : evts'[i] = "ADVERTISING_STOPPED" => link' = "none"
    BY <1>3, <1>4, <1>6 DEF OneBegin
  <2> QED BY <2>1, <2>2, <2>3 DEF OneBegin
<1>8. Known'
  <2> SUFFICES ASSUME link' = "up"
               PROVE  IF state' = "ADVERTISING"
                        THEN \E i \in 1 .. Len(evts') : evts'[i] = "CONNECTED"
                               /\ \A j \in i + 1 .. Len(evts') : evts'[j] \notin End
                        ELSE \A i \in 1 .. Len(evts') : evts'[i] \notin End
    BY DEF Known
  <2>1. link = "up"
    BY <1>3
  <2>2. CASE state # "ADVERTISING"
    <3>1. \A i \in 1 .. Len(evts) : evts[i] \notin End
      BY <1>6, <2>1, <2>2 DEF Known
    <3>2. state' # "ADVERTISING"
      BY <1>1, <1>4, <1>6, <2>1, <2>2, <3>1
    <3> QED BY <1>4, <1>6, <3>1, <3>2
  <2>3. CASE state = "ADVERTISING"
    <3>1. PICK i \in 1 .. Len(evts) :
            evts[i] = "CONNECTED" /\ \A j \in i + 1 .. Len(evts) : evts[j] \notin End
      BY <1>6, <2>1, <2>3 DEF Known
    <3>2. CASE i = 1
      <4>1. state' # "ADVERTISING"
        BY <1>1, <1>4, <2>3, <3>1, <3>2
      <4>2. \A j \in 2 .. Len(evts) : evts[j] \notin End
        BY <3>1, <3>2
      <4> QED BY <1>4, <4>1, <4>2
    <3>3. CASE i # 1
      <4>1. Head(evts) \notin Begin
        BY <1>4, <1>6, <3>1, <3>3 DEF OneBegin, Begin
      <4>2. state' = "ADVERTISING"
        BY <1>1, <1>5, <2>3, <4>1
      <4>3. i - 1 \in 1 .. Len(evts') /\ (i - 1) + 1 = i
        BY <1>4, <3>3
      <4>4. evts'[i - 1] = "CONNECTED"
        BY <1>4, <3>1, <4>3
      <4>5. \A j \in (i - 1) + 1 .. Len(evts') : evts'[j] \notin End
        <5> SUFFICES ASSUME NEW j \in i .. Len(evts') PROVE evts'[j] \notin End
          BY <4>3
        <5>1. j \in 1 .. Len(evts') /\ j + 1 \in i + 1 .. Len(evts)
          BY <1>4
        <5> QED BY <1>4, <3>1, <5>1
      <4> QED BY <4>2, <4>3, <4>4, <4>5
    <3> QED BY <3>2, <3>3
  <2> QED BY <2>2, <2>3
<1> QED BY <1>2, <1>7, <1>8

LEMMA DeliverKnows ==
  ASSUME LinkInv, NEW raised, NEW e, Deliver(raised, e),
         e \in Begin \cup {"DISCONNECTED"} => raised = e,
         raised \in Begin => e = raised
  PROVE  LinkInv'
<1> DEFINE r == EvtHandler(Machine, e)
<1>1. /\ HandleInv /\ Consistent(Machine) /\ Sane(Machine)
      /\ Machine.state = state /\ Machine.link = link /\ Machine.adv = adv
  BY DEF LinkInv, HandleInv, Machine
<1>2. evts # << >> /\ Head(evts) = raised /\ evts' = Tail(evts) /\ Becomes(r)
  BY DEF Deliver
<1>3. raised \in Begin => ~adv
  <2>1. 1 \in 1 .. Len(evts) /\ Head(evts) = evts[1]
    BY <1>1, <1>2 DEF HandleInv, TypeOK
  <2> QED BY <1>2, <2>1 DEF LinkInv, OneBegin
<1>4. Consistent(r)
  BY <1>1, EvtHandlerKeeps
<1>5. /\ Moved(Machine, r)
      /\ state # "ADVERTISING" /\ r.state = "ADVERTISING"
           => link # "up" \/ e = "DISCONNECTED"
      /\ state = "ADVERTISING" /\ e \notin Begin => r = Machine
      /\ state = "ADVERTISING" /\ e = "ADVERTISING_STOPPED" => r.state = "ADVERTISING"
      /\ state = "ADVERTISING" /\ e = "CONNECTED" => r.state = "CONNECTED"
  BY <1>1, <1>3, EvtHandlerCloses
<1>6. HandleInv'
  BY <1>1, DeliverKeeps
<1> HIDE DEF r
<1>7. Sane(Machine)' /\ OneBegin' /\ Known'
  BY <1>2, <1>4, <1>5, DeliveryKnows DEF End, Begin
<1> QED BY <1>6, <1>7 DEF LinkInv

LEMMA LinkLostKnows == LinkInv /\ LinkLost => LinkInv'
<1> SUFFICES ASSUME LinkInv, LinkLost PROVE LinkInv'
  OBVIOUS
<1> DEFINE n == EvtHandler(Machine, "UNBONDED")
           r == EvtHandler(n, "DISCONNECTED")
<1>1. /\ HandleInv /\ Consistent(Machine) /\ Sane(Machine)
      /\ Machine.state = state /\ Machine.link = link /\ Machine.adv = adv
  BY DEF LinkInv, HandleInv, Machine
<1>2. evts # << >> /\ Head(evts) = "LINK_LOST" /\ evts' = Tail(evts) /\ Becomes(r)
  BY DEF LinkLost
<1>3. Consistent(n)
  BY <1>1, EvtHandlerKeeps
<1>4. /\ Moved(Machine, n)
      /\ state = "ADVERTISING" => n = Machine
  BY <1>1, EvtHandlerCloses DEF Begin
<1> HIDE DEF n
<1>5. Consistent(r)
  BY <1>3, EvtHandlerKeeps
<1>6. /\ Moved(n, r)
      /\ n.state = "ADVERTISING" => r = n
  BY <1>3, <1>4, EvtHandlerCloses DEF Begin, Moved
<1> HIDE DEF r
<1>7. Moved(Machine, r)
  BY <1>4, <1>6 DEF Moved
<1>8. HandleInv'
  BY <1>1, LinkLostKeeps
<1>9. Sane(Machine)' /\ OneBegin' /\ Known'
  BY <1>1, <1>2, <1>4, <1>5, <1>6, <1>7, DeliveryKnows DEF End, Begin
<1> QED BY <1>8, <1>9 DEF LinkInv

LEMMA RequestKnows ==
  ASSUME LinkInv, NEW e \in {"DISCONNECT", "ADVERTISE", "BOND", "UNBOND"},
         Becomes(EvtHandler(Machine, e)), UNCHANGED evts
  PROVE  Sane(Machine)' /\ OneBegin' /\ Known'
<1> DEFINE r == EvtHandler(Machine, e)
<1>1. /\ Consistent(Machine) /\ Sane(Machine)
      /\ Machine.state = state /\ Machine.link = link /\ Machine.adv = adv
  BY DEF LinkInv, HandleInv, Machine
<1>2. Consistent(r)
  BY <1>1, EvtHandlerKeeps
<1>3. /\ Moved(Machine, r)
      /\ state # "ADVERTISING" /\ r.state = "ADVERTISING" => link # "up"
      /\ state = "ADVERTISING" => r = Machine
  BY <1>1, EvtHandlerCloses DEF Begin
<1> HIDE DEF r
<1>4. state = "ADVERTISING" => r.state = "ADVERTISING" /\ r.adv = adv
  BY <1>1, <1>3
<1>5. Becomes(r)
  BY DEF r
<1> QED BY <1>2, <1>3, <1>4, <1>5, CallKnows

LEMMA AppendEnds ==
  ASSUME evts \in Seq(Event), NEW e \in Event, evts' = Append(evts, e)
  PROVE  /\ Len(evts) \in Nat /\ Len(evts') = Len(evts) + 1
         /\ evts'[Len(evts) + 1] = e
         /\ \A i \in 1 .. Len(evts) : evts'[i] = evts[i]
OBVIOUS

\* An event that says nothing of the link.
LEMMA RaiseKnows ==
  ASSUME LinkInv, NEW e \in Event \ (Begin \cup End), evts' = Append(evts, e),
         UNCHANGED << state, link, adv >>
  PROVE  Sane(Machine)' /\ OneBegin' /\ Known'
<1>1. /\ Len(evts) \in Nat /\ Len(evts') = Len(evts) + 1
      /\ evts'[Len(evts) + 1] = e
      /\ \A i \in 1 .. Len(evts) : evts'[i] = evts[i]
  BY AppendEnds DEF LinkInv, HandleInv, TypeOK
<1>2. Sane(Machine)'
  BY DEF LinkInv, Sane, Machine
<1>3. \A i \in 1 .. Len(evts') :
        i = Len(evts) + 1 \/ (i \in 1 .. Len(evts) /\ evts'[i] = evts[i])
  BY <1>1
<1>4. OneBegin'
  BY <1>1, <1>3 DEF LinkInv, OneBegin, Begin
<1>5. Known'
  <2> SUFFICES ASSUME link = "up" PROVE Known'
    BY DEF Known
  <2>1. CASE state # "ADVERTISING"
    BY <1>1, <1>3, <2>1 DEF LinkInv, Known
  <2>2. CASE state = "ADVERTISING"
    <3>1. PICK i \in 1 .. Len(evts) :
            evts[i] = "CONNECTED" /\ \A j \in i + 1 .. Len(evts) : evts[j] \notin End
      BY <2>2 DEF LinkInv, Known
    <3>2. i \in 1 .. Len(evts') /\ evts'[i] = "CONNECTED"
      BY <1>1, <3>1
    <3>3. \A j \in i + 1 .. Len(evts') : evts'[j] \notin End
      <4> SUFFICES ASSUME NEW j \in i + 1 .. Len(evts') PROVE evts'[j] \notin End
        OBVIOUS
      <4>1. CASE j = Len(evts) + 1
        BY <1>1, <4>1
      <4>2. CASE j # Len(evts) + 1
        <5>1. j \in i + 1 .. Len(evts) /\ j \in 1 .. Len(evts)
          BY <1>1, <4>2
        <5> QED BY <1>1, <3>1, <5>1
      <4> QED BY <4>1, <4>2
    <3> QED BY <2>2, <3>2, <3>3 DEF Known
  <2> QED BY <2>1, <2>2
<1> QED BY <1>2, <1>4, <1>5

\* A link begins where the machine advertises, with no beginning on its way.
LEMMA ConnectKnows ==
  ASSUME LinkInv, Connect
  PROVE  Sane(Machine)' /\ OneBegin' /\ Known'
<1>1. /\ adv /\ evts' = Append(evts, "CONNECTED")
      /\ adv' = FALSE /\ link' = "up" /\ state' = state
  BY DEF Connect, Raise
<1>2. link = "none" /\ state = "ADVERTISING"
  BY <1>1 DEF LinkInv, Sane, Machine
<1>3. /\ Len(evts) \in Nat /\ Len(evts') = Len(evts) + 1
      /\ evts'[Len(evts) + 1] = "CONNECTED"
      /\ \A i \in 1 .. Len(evts) : evts'[i] = evts[i]
  BY <1>1, AppendEnds DEF LinkInv, HandleInv, TypeOK, Event
<1>4. \A i \in 1 .. Len(evts) : evts[i] \notin Begin
  BY <1>1 DEF LinkInv, OneBegin
<1>5. \A i \in 1 .. Len(evts') :
        i = Len(evts) + 1 \/ (i \in 1 .. Len(evts) /\ evts'[i] \notin Begin)
  BY <1>3, <1>4
<1>6. OneBegin'
  BY <1>1, <1>2, <1>3, <1>5 DEF OneBegin, Begin
<1>7. Known'
  <2>1. Len(evts) + 1 \in 1 .. Len(evts')
        /\ \A j \in (Len(evts) + 1) + 1 .. Len(evts') : FALSE
    BY <1>3
  <2> QED BY <1>1, <1>2, <1>3, <2>1 DEF Known
<1>8. Sane(Machine)'
  BY <1>1, <1>2 DEF Sane, Machine
<1> QED BY <1>6, <1>7, <1>8

LEMMA EndOfLinkKnows ==
  ASSUME LinkInv, EndOfLink
  PROVE  Sane(Machine)' /\ OneBegin' /\ Known'
<1>1. /\ link # "none" /\ link' = "none" /\ adv' = adv /\ state' = state
      /\ \E e \in End : evts' = Append(evts, e)
  BY DEF EndOfLink, Raise, End
<1>2. PICK e \in End : evts' = Append(evts, e)
  BY <1>1
<1>3. e \in Event /\ e \notin Begin
  BY DEF End, Event, Begin
<1>4. /\ Len(evts) \in Nat /\ Len(evts') = Len(evts) + 1
      /\ evts'[Len(evts) + 1] = e
      /\ \A i \in 1 .. Len(evts) : evts'[i] = evts[i]
  BY <1>2, <1>3, AppendEnds DEF LinkInv, HandleInv, TypeOK
<1>5. \A i \in 1 .. Len(evts') : evts'[i] \in Begin =>
        i \in 1 .. Len(evts) /\ evts'[i] = evts[i]
  BY <1>3, <1>4
<1>6. OneBegin'
  BY <1>1, <1>5 DEF LinkInv, OneBegin, Begin
<1>7. Known' /\ Sane(Machine)'
  BY <1>1 DEF LinkInv, Known, Sane, Machine
<1> QED BY <1>6, <1>7

LEMMA AdvTimeoutKnows ==
  ASSUME LinkInv, AdvTimeout
  PROVE  Sane(Machine)' /\ OneBegin' /\ Known'
<1>1. /\ adv /\ evts' = Append(evts, "ADVERTISING_STOPPED")
      /\ adv' = FALSE /\ link' = link /\ state' = state
  BY DEF AdvTimeout, Raise
<1>2. link = "none" /\ state = "ADVERTISING"
  BY <1>1 DEF LinkInv, Sane, Machine
<1>3. /\ Len(evts) \in Nat /\ Len(evts') = Len(evts) + 1
      /\ \A i \in 1 .. Len(evts) : evts'[i] = evts[i]
  BY <1>1, AppendEnds DEF LinkInv, HandleInv, TypeOK, Event
<1>4. \A i \in 1 .. Len(evts) : evts[i] \notin Begin
  BY <1>1 DEF LinkInv, OneBegin
<1>5. \A i \in 1 .. Len(evts') :
        i = Len(evts) + 1 \/ (i \in 1 .. Len(evts) /\ evts'[i] \notin Begin)
  BY <1>3, <1>4
<1>6. OneBegin'
  BY <1>1, <1>2, <1>5 DEF OneBegin, Begin
<1>7. Known' /\ Sane(Machine)'
  BY <1>1, <1>2 DEF Known, Sane, Machine
<1> QED BY <1>6, <1>7

LEMMA StackKnows ==
  ASSUME LinkInv,
         Connect \/ EndOfLink \/ GattTimeout \/ AdvTimeout \/ SecStart \/ SecEnd \/ DeleteEnd
  PROVE  LinkInv'
<1>1. HandleInv'
  BY StackKeeps DEF LinkInv
<1>2. CASE GattTimeout \/ SecEnd \/ DeleteEnd
  <2>1. UNCHANGED << state, link, adv >>
        /\ \E e \in Event \ (Begin \cup End) : evts' = Append(evts, e)
    BY <1>2 DEF GattTimeout, SecEnd, DeleteEnd, Raise, Event, Begin, End
  <2> QED BY <1>1, <2>1, RaiseKnows DEF LinkInv
<1>3. CASE SecStart
  BY <1>1, <1>3 DEF SecStart, LinkInv, Sane, Machine, OneBegin, Known
<1>4. CASE Connect \/ EndOfLink \/ AdvTimeout
  BY <1>1, <1>4, ConnectKnows, EndOfLinkKnows, AdvTimeoutKnows DEF LinkInv
<1> QED BY <1>2, <1>3, <1>4

LEMMA MachineKnows ==
  ASSUME LinkInv,
         \/ BleEvt \/ PmEvt \/ LinkLost \/ ConnParamsFailed
         \/ \E r \in Requests : Request(r)
         \/ \E press \in {"NORMAL", "LONG"} : Button(press)
         \/ UNCHANGED vars
  PROVE  LinkInv'
<1>0. HandleInv /\ Consistent(Machine) /\ Machine \in MachineSet /\ Sane(Machine)
      /\ OneBegin /\ Known /\ Moved(Machine, Machine)
  BY DEF LinkInv, HandleInv, Consistent, Moved
<1>1. HandleInv'
  <2>1. [Next]_vars
    BY DEF Next, LinkNext
  <2> QED BY <1>0, <2>1, StepKeeps
<1>2. CASE BleEvt \/ PmEvt
  BY <1>2, DeliverKnows DEF BleEvt, PmEvt, Begin
<1>3. CASE LinkLost
  BY <1>3, LinkLostKnows
<1>4. CASE ConnParamsFailed
  <2>1. /\ Becomes(Disconnect(Machine)) /\ UNCHANGED evts /\ link = "up"
    BY <1>4 DEF ConnParamsFailed, CanDisconnect, Machine
  <2>2. /\ Disconnect(Machine).state = state /\ Disconnect(Machine).adv = adv
        /\ Consistent(Disconnect(Machine))
        /\ Moved(Machine, Disconnect(Machine))
    <3>1. Machine.state = state /\ Machine.adv = adv
      BY DEF Machine
    <3> QED BY <1>0, <3>1, DisconnectKeeps, DisconnectCloses DEF Consistent, Moved, Sane
  <2>3. Sane(Machine)' /\ OneBegin' /\ Known'
    BY <2>1, <2>2, CallKnows
  <2> QED BY <1>1, <2>3 DEF LinkInv
<1>5. CASE \E r \in Requests : Request(r)
  <2>1. PICK r \in Requests : Request(r)
    BY <1>5
  <2>2. Sane(Machine)' /\ OneBegin' /\ Known'
    BY <2>1, RequestKnows, BleAssumption DEF Request
  <2> QED BY <1>1, <2>2 DEF LinkInv
<1>6. CASE \E press \in {"NORMAL", "LONG"} : Button(press)
  <2>1. PICK press \in {"NORMAL", "LONG"} : Button(press)
    BY <1>6
  <2>2. UNCHANGED evts
        /\ \/ \E e \in {"BOND", "DISCONNECT", "ADVERTISE", "UNBOND"} :
                Becomes(EvtHandler(Machine, e))
           \/ Becomes(Machine)
    BY <2>1 DEF Button, ButtonCallback
  <2>3. Sane(Machine)' /\ OneBegin' /\ Known'
    <3>1. CASE Becomes(Machine)
      <4>1. Machine.state = state /\ Machine.adv = adv /\ Machine.link = link
        BY DEF Machine
      <4> QED BY <1>0, <2>2, <3>1, <4>1, CallKnows
    <3> QED BY <2>2, <3>1, RequestKnows
  <2> QED BY <1>1, <2>3 DEF LinkInv
<1>7. CASE UNCHANGED vars
  BY <1>1, <1>7 DEF vars, stackVars, LinkInv, Sane, Machine, OneBegin, Known
<1> QED BY <1>2, <1>3, <1>4, <1>5, <1>6, <1>7

LEMMA InitKnows == Init => LinkInv
<1> SUFFICES ASSUME Init PROVE LinkInv
  OBVIOUS
<1>1. evts = << >> /\ link = "none" /\ state = "ADVERTISING"
  BY DEF Init
<1> QED BY <1>1, InitHandleInv DEF LinkInv, Sane, Machine, OneBegin, Known

\* A central that is connected is never taken for one that left: however late the
\* events arrive, with all of them delivered the machine is neither in
\* ADVERTISING nor does it advertise.
THEOREM LinkIsAlwaysKnown == Spec => []LinkIsKnown
<1>1. LinkInv => LinkIsKnown
  <2> SUFFICES ASSUME LinkInv, link = "up", evts = << >>
               PROVE  state # "ADVERTISING" /\ ~adv
    BY DEF LinkIsKnown
  <2>1. ~adv
    BY DEF LinkInv, Sane, Machine
  <2>2. state # "ADVERTISING"
    BY DEF LinkInv, Known
  <2> QED BY <2>1, <2>2
<1>2. LinkInv /\ [Next]_vars => LinkInv'
  BY MachineKnows, StackKnows DEF Next, LinkNext
<1> QED BY <1>1, <1>2, InitKnows, PTL DEF Spec

-----------------------------------------------------------------------------
(***************************************************************************)
(* The end of a link and the end of an unbonding.  Both arrive late, and   *)
(* both end a state only if nothing that was raised before them is taken   *)
(* for them: the events of a link precede its end, and what a deletion     *)
(* reports is delivered before the next link is known.                     *)
(***************************************************************************)
Deletion == {"PEERS_DELETE_SUCCEEDED", "PEERS_DELETE_FAILED"}

\* What is raised while there is a link and matters to its state.
OfLink == {"CONNECTED", "CONN_SEC_SUCCEEDED", "CONN_SEC_FAILED"}

EndFollows ==
  link = "none" =>
    \A i \in 1 .. Len(evts) :
      evts[i] \in OfLink => \E j \in i + 1 .. Len(evts) : evts[j] \in End

\* A machine in CONNECTED that lost its link has still to hear of the end.
EndComes ==
  state = "CONNECTED" /\ link = "none" =>
    spoilt \/ \E i \in 1 .. Len(evts) : evts[i] \in End

DeletionKnown ==
  /\ deleting => state = "UNBONDING" /\ bonded
  /\ \A i \in 1 .. Len(evts) :
       evts[i] \in Deletion => state \in {"UNBONDING", "ADVERTISING"}
  /\ \A i, j \in 1 .. Len(evts) :
       evts[i] \in Deletion /\ evts[j] = "CONNECTED" => i < j
  /\ \A i \in 1 .. Len(evts) :
       evts[i] = "PEERS_DELETE_SUCCEEDED" /\ state = "UNBONDING" => ~bonded

EndInv == LinkInv /\ EndFollows /\ EndComes /\ (spoilt \/ DeletionKnown)

-----------------------------------------------------------------------------
LEMMA DisconnectDeletesNothing ==
  ASSUME NEW m \in MachineSet
  PROVE  Disconnect(m).deleting = m.deleting
BY DEF Disconnect, MachineSet

LEMMA GotoDeletesNothing ==
  ASSUME NEW m \in MachineSet, NEW s \in State
  PROVE  Goto(m, s).deleting = m.deleting
<1> DEFINE left == IF m.state = "DISCONNECTING" THEN Disconnect(m) ELSE m
<1>1. left \in MachineSet /\ left.deleting = m.deleting
  BY DisconnectKeeps, DisconnectDeletesNothing
<1>2. Goto(m, s) = [left EXCEPT !.state = s]
  BY DEF Goto
<1> HIDE DEF left
<1> QED BY <1>1, <1>2 DEF MachineSet

LEMMA ToDeletesNothing ==
  ASSUME NEW m \in MachineSet
  PROVE  /\ ToConnected(m).deleting = m.deleting
         /\ ToDisconnecting(m).deleting = m.deleting
         /\ ToBonding(m).deleting = m.deleting
<1>1. ToConnected(m).deleting = m.deleting
  BY GotoDeletesNothing DEF ToConnected, State
<1>2. ToDisconnecting(m).deleting = m.deleting
  BY GotoMoves, GotoDeletesNothing, DisconnectDeletesNothing DEF ToDisconnecting, State
<1>3. ToBonding(m).deleting = m.deleting
  <2> DEFINE g == Goto(m, "BONDING")
  <2>1. g \in MachineSet /\ g.deleting = m.deleting
    BY GotoMoves, GotoDeletesNothing DEF State
  <2>2. ToBonding(m) = Bond(g)
    BY DEF ToBonding
  <2> HIDE DEF g
  <2> QED BY <2>1, <2>2 DEF Bond, MachineSet
<1> QED BY <1>1, <1>2, <1>3

LEMMA ToDisconnectedDeletesNothing ==
  ASSUME NEW m \in MachineSet
  PROVE  ToDisconnected(m).deleting = m.deleting
<1> DEFINE d == Goto(m, "DISCONNECTED")
           g == [d EXCEPT !.conn = "INVALID"]
           h == Goto(g, "ADVERTISING")
<1>1. d \in MachineSet /\ d.deleting = m.deleting
  BY GotoMoves, GotoDeletesNothing DEF State
<1> HIDE DEF d
<1>2. g \in MachineSet /\ g.deleting = d.deleting
  BY <1>1 DEF MachineSet
<1> HIDE DEF g
<1>3. h \in MachineSet /\ h.deleting = g.deleting
  BY <1>2, GotoMoves, GotoDeletesNothing DEF State
<1>4. ToDisconnected(m) = StartAdvertising(h)
  BY DEF ToDisconnected, ToAdvertising, d, g
<1> HIDE DEF h
<1>5. StartAdvertising(h).deleting = h.deleting
  BY <1>3 DEF StartAdvertising, MachineSet
<1> QED BY <1>1, <1>2, <1>3, <1>4, <1>5

\* A deletion begins only where there are bonds, and in the state of m.
LEMMA RemoveAllBondingsDeletes ==
  ASSUME NEW m \in MachineSet, m.state = "UNBONDING"
  PROVE  LET r == RemoveAllBondings(m)
         IN  /\ r.state = "UNBONDING" <=> bonded
             /\ ~bonded => r.state = "ADVERTISING" /\ r.deleting = m.deleting
<1>1. CASE bonded
  <2>1. RemoveAllBondings(m) = [m EXCEPT !.deleting = TRUE]
    BY <1>1 DEF RemoveAllBondings
  <2> QED BY <1>1, <2>1 DEF MachineSet
<1>2. CASE ~bonded
  BY <1>2, ToDisconnectedMoves, ToDisconnectedDeletesNothing DEF RemoveAllBondings
<1> QED BY <1>1, <1>2

LEMMA ToUnbondingDeletes ==
  ASSUME NEW m \in MachineSet
  PROVE  LET r == ToUnbonding(m)
         IN  /\ r.state \in {"UNBONDING", "ADVERTISING"}
             /\ r.deleting => m.deleting \/ (bonded /\ r.state = "UNBONDING")
<1> DEFINE g == Goto(m, "UNBONDING")
           quiet == [g EXCEPT !.adv = FALSE]
<1>1. g \in MachineSet /\ g.state = "UNBONDING" /\ g.deleting = m.deleting
  BY GotoMoves, GotoDeletesNothing DEF State
<1>2. ToUnbonding(m) = IF CanDisconnect(quiet) THEN Disconnect(quiet)
                                               ELSE RemoveAllBondings(quiet)
  BY DEF ToUnbonding
<1> HIDE DEF g
<1>3. /\ quiet \in MachineSet /\ quiet.state = "UNBONDING"
      /\ quiet.deleting = m.deleting
  BY <1>1 DEF MachineSet
<1> HIDE DEF quiet
<1>4. Disconnect(quiet).state = "UNBONDING" /\ Disconnect(quiet).deleting = m.deleting
  BY <1>3, DisconnectKeeps, DisconnectDeletesNothing
<1>5. LET r == RemoveAllBondings(quiet)
      IN  /\ r.state = "UNBONDING" <=> bonded
          /\ ~bonded => r.state = "ADVERTISING" /\ r.deleting = m.deleting
  BY <1>3, RemoveAllBondingsDeletes
<1> QED BY <1>2, <1>4, <1>5

\* Where an event leads: who comes to CONNECTED, and who leaves UNBONDING.
LEMMA EvtHandlerGoes ==
  ASSUME NEW m, Consistent(m), NEW e
  PROVE  LET r == EvtHandler(m, e)
         IN  /\ r.state = "CONNECTED" =>
                  \/ m.state = "CONNECTED" /\ r = m /\ e # "DISCONNECTED"
                  \/ m.state = "ADVERTISING" /\ e = "CONNECTED"
                  \/ m.state = "BONDING" /\ e \in {"BONDED", "UNBONDED"}
             /\ r.deleting => m.deleting \/ (bonded /\ r.state = "UNBONDING")
             /\ r.state = "UNBONDING" =>
                  m.state = "UNBONDING" \/ (m.state = "CONNECTED" /\ e = "UNBOND")
             /\ m.state = "UNBONDING" /\ r.state # "UNBONDING" =>
                  /\ r.state = "ADVERTISING"
                  /\ e = "UNBONDED" \/ (e = "DISCONNECTED" /\ ~bonded)
             /\ m.state = "ADVERTISING" =>
                  r = m \/ (r.state = "ADVERTISING" /\ e = "ADVERTISING_STOPPED")
                        \/ e = "CONNECTED"
<1> DEFINE r == EvtHandler(m, e)
<1>0. /\ m \in MachineSet /\ m.state \in State \ {"DISCONNECTED"}
      /\ ToDisconnected(m).state = "ADVERTISING"
      /\ ToDisconnected(m).deleting = m.deleting
      /\ ToConnected(m).deleting = m.deleting /\ ToConnected(m).state = "CONNECTED"
  BY ToDisconnectedMoves, ToDisconnectedDeletesNothing, ToDeletesNothing, ToConnectedMoves
     DEF Consistent, MachineSet
<1>1. CASE m.state = "CONNECTED"
  <2>1. r = ConnectedHandler(m, e)
    BY <1>1 DEF EvtHandler
  <2>2. /\ ToDisconnecting(m).state = "DISCONNECTING"
        /\ ToDisconnecting(m).deleting = m.deleting
        /\ ToBonding(m).state = "BONDING" /\ ToBonding(m).deleting = m.deleting
    BY <1>0, ToDisconnectingMoves, ToBondingMoves, ToDeletesNothing
  <2>3. /\ ToUnbonding(m).state \in {"UNBONDING", "ADVERTISING"}
        /\ ToUnbonding(m).deleting
             => m.deleting \/ (bonded /\ ToUnbonding(m).state = "UNBONDING")
    BY <1>0, ToUnbondingDeletes
  <2> QED BY <1>0, <1>1, <2>1, <2>2, <2>3 DEF ConnectedHandler
<1>2. CASE m.state = "DISCONNECTING"
  <2>1. r = DisconnectingHandler(m, e)
    BY <1>2 DEF EvtHandler
  <2> QED BY <1>0, <1>2, <2>1 DEF DisconnectingHandler
<1>3. CASE m.state = "ADVERTISING"
  <2> DEFINE c == [m EXCEPT !.conn = "HANDLE"]
  <2>1. r = AdvertisingHandler(m, e)
    BY <1>3 DEF EvtHandler
  <2>2. c \in MachineSet /\ c.deleting = m.deleting
    BY <1>0 DEF MachineSet
  <2>3. ToConnected(c).state = "CONNECTED" /\ ToConnected(c).deleting = m.deleting
    BY <2>2, ToConnectedMoves, ToDeletesNothing
  <2> HIDE DEF c
  <2>4. r = CASE e = "ADVERTISING_STOPPED" -> ToDisconnected(m)
              [] e = "CONNECTED" -> ToConnected(c)
              [] OTHER -> m
    BY <2>1 DEF AdvertisingHandler, c
  <2> QED BY <1>0, <1>3, <2>3, <2>4
<1>4. CASE m.state = "BONDING"
  <2>1. r = BondingHandler(m, e)
    BY <1>4 DEF EvtHandler
  <2> QED BY <1>0, <1>4, <2>1 DEF BondingHandler
<1>5. CASE m.state = "UNBONDING"
  <2>1. r = UnbondingHandler(m, e)
    BY <1>5 DEF EvtHandler
  <2>2. LET n == RemoveAllBondings(m)
        IN  /\ n.state = "UNBONDING" <=> bonded
            /\ ~bonded => n.state = "ADVERTISING" /\ n.deleting = m.deleting
    BY <1>0, <1>5, RemoveAllBondingsDeletes
  <2> QED BY <1>0, <1>5, <2>1, <2>2 DEF UnbondingHandler
<1> QED BY <1>0, <1>1, <1>2, <1>3, <1>4, <1>5 DEF State

-----------------------------------------------------------------------------
\* The events that on_ble_evt, on_adv_evt and pm_evt_handler make of what is raised.
Translates(raised, e) ==
  \/ raised = e /\ e \in {"CONNECTED", "DISCONNECTED", "ADVERTISING_STOPPED"}
  \/ raised = "GATT_TIMEOUT" /\ e = "DISCONNECT"
  \/ raised = "CONN_SEC_SUCCEEDED" /\ e = "BONDED"
  \/ raised \in Deletion \cup {"CONN_SEC_FAILED"} /\ e = "UNBONDED"

\* What an unbonding that ends owes.
Unbonded == state = "UNBONDING" /\ state' # "UNBONDING" => ~bonded' \/ spoilt'

LEMMA NowDeletes ==
  ASSUME NEW r, Consistent(r), Becomes(r)
  PROVE  state' = r.state /\ link' = r.link /\ deleting' = r.deleting /\ bonded' = bonded
BY DEF Becomes

\* Shifting evts takes no end away from what it follows.
LEMMA TailFollows ==
  ASSUME EndInv, evts # << >>, evts' = Tail(evts), link' = "none" <=> link = "none"
  PROVE  EndFollows'
<1>1. /\ Len(evts') = Len(evts) - 1 /\ Len(evts) \in Nat \ {0}
      /\ \A i \in 1 .. Len(evts') : i + 1 \in 2 .. Len(evts)
                                    /\ evts'[i] = evts[i + 1]
  BY TailShifts DEF EndInv, LinkInv, HandleInv, TypeOK
<1> SUFFICES ASSUME link = "none", NEW i \in 1 .. Len(evts'), evts'[i] \in OfLink
             PROVE  \E j \in i + 1 .. Len(evts') : evts'[j] \in End
  BY DEF EndFollows
<1>2. i + 1 \in 1 .. Len(evts) /\ evts[i + 1] \in OfLink
  BY <1>1
<1>3. PICK j \in (i + 1) + 1 .. Len(evts) : evts[j] \in End
  BY <1>2 DEF EndInv, EndFollows
<1>4. j - 1 \in i + 1 .. Len(evts') /\ j - 1 \in 1 .. Len(evts') /\ (j - 1) + 1 = j
  BY <1>1, <1>3
<1> QED BY <1>1, <1>3, <1>4

\* The first event of evts is delivered, and it is not the end awaited.
LEMMA DeliverEnds ==
  ASSUME EndInv, NEW raised, NEW e, Translates(raised, e), Deliver(raised, e)
  PROVE  EndFollows' /\ EndComes' /\ (spoilt' \/ DeletionKnown') /\ Unbonded
<1> DEFINE r == EvtHandler(Machine, e)
<1>1. /\ LinkInv /\ Consistent(Machine) /\ Sane(Machine) /\ OneBegin
      /\ Machine.state = state /\ Machine.link = link /\ Machine.deleting = deleting
  BY DEF EndInv, LinkInv, HandleInv, Machine
<1>2. evts # << >> /\ Head(evts) = raised /\ evts' = Tail(evts) /\ Becomes(r)
  BY DEF Deliver
<1>3. /\ Len(evts') = Len(evts) - 1 /\ Len(evts) \in Nat \ {0}
      /\ raised = evts[1] /\ 1 \in 1 .. Len(evts)
      /\ \A i \in 1 .. Len(evts') : i + 1 \in 2 .. Len(evts) /\ i + 1 \in 1 .. Len(evts)
                                    /\ evts'[i] = evts[i + 1]
  BY <1>1, <1>2, TailShifts DEF LinkInv, HandleInv, TypeOK
<1>4. Consistent(r)
  BY <1>1, EvtHandlerKeeps
<1>5. /\ r.state = "CONNECTED" =>
           \/ state = "CONNECTED" /\ e # "DISCONNECTED"
           \/ state = "ADVERTISING" /\ e = "CONNECTED"
           \/ state = "BONDING" /\ e \in {"BONDED", "UNBONDED"}
      /\ r.deleting => deleting \/ (bonded /\ r.state = "UNBONDING")
      /\ r.state = "UNBONDING" => state = "UNBONDING"
      /\ state = "UNBONDING" /\ r.state # "UNBONDING" =>
           /\ r.state = "ADVERTISING"
           /\ e = "UNBONDED" \/ (e = "DISCONNECTED" /\ ~bonded)
      /\ state = "ADVERTISING" => r.state = "ADVERTISING" \/ e = "CONNECTED"
  BY <1>1, EvtHandlerGoes DEF Translates
<1>6. r.link = "none" <=> link = "none"
  <2>1. e \in Begin => ~Machine.adv
    BY <1>1, <1>3 DEF OneBegin, Begin, Translates, Deletion, Machine
  <2> QED BY <1>1, <2>1, EvtHandlerCloses DEF Moved
<1>7. state' = r.state /\ link' = r.link /\ deleting' = r.deleting /\ bonded' = bonded
  BY <1>2, <1>4, NowDeletes
<1> HIDE DEF r
<1>8. EndFollows'
  BY <1>2, <1>6, <1>7, TailFollows
<1>9. spoilt' = (spoilt \/ (raised \in {"CONN_SEC_FAILED", "PEERS_DELETE_FAILED"}
                             /\ state = "UNBONDING"))
  BY DEF Deliver
<1>10. EndComes'
  <2> SUFFICES ASSUME r.state = "CONNECTED", link = "none", ~spoilt
               PROVE  \E i \in 1 .. Len(evts') : evts'[i] \in End
    BY <1>6, <1>7, <1>9 DEF EndComes
  <2>1. DeletionKnown
    BY DEF EndInv
  <2>2. \E j \in 2 .. Len(evts) : evts[j] \in End
    <3>1. CASE raised \in OfLink
      <4>1. PICK j \in 1 + 1 .. Len(evts) : evts[j] \in End
        BY <1>3, <3>1 DEF EndInv, EndFollows
      <4> QED BY <4>1
    <3>2. CASE raised \notin OfLink
      <4>1. raised \in Deletion => state \in {"UNBONDING", "ADVERTISING"}
        BY <1>3, <2>1 DEF DeletionKnown
      <4>2. state = "CONNECTED" /\ e # "DISCONNECTED"
        BY <1>5, <3>2, <4>1 DEF Translates, OfLink, Deletion
      <4>3. PICK j \in 1 .. Len(evts) : evts[j] \in End
        BY <4>2 DEF EndInv, EndComes
      <4>4. evts[1] \notin End
        BY <1>3, <4>2 DEF Translates, Deletion, End
      <4>5. j \in 2 .. Len(evts)
        BY <1>3, <4>3, <4>4
      <4> QED BY <4>3, <4>5
    <3> QED BY <3>1, <3>2
  <2>3. PICK j \in 2 .. Len(evts) : evts[j] \in End
    BY <2>2
  <2>4. j - 1 \in 1 .. Len(evts') /\ (j - 1) + 1 = j
    BY <1>3, <2>3
  <2> QED BY <1>3, <2>3, <2>4
<1>11. Unbonded /\ (spoilt' \/ DeletionKnown')
  <2> SUFFICES ASSUME ~spoilt' PROVE Unbonded /\ DeletionKnown'
    BY DEF Unbonded
  <2>1. DeletionKnown /\ (state = "UNBONDING" /\ e = "UNBONDED"
                            => raised = "PEERS_DELETE_SUCCEEDED")
    BY <1>9 DEF EndInv, Translates, Deletion
  <2>2. state = "UNBONDING" /\ e = "UNBONDED" => ~bonded
    BY <1>3, <2>1 DEF DeletionKnown
  <2>3. Unbonded
    BY <1>5, <1>7, <2>2 DEF Unbonded
  <2>4. deleting' => state' = "UNBONDING" /\ bonded'
    BY <1>5, <1>7, <2>1, <2>2 DEF DeletionKnown
  <2>5. ASSUME NEW i \in 1 .. Len(evts'), evts'[i] \in Deletion
        PROVE  state' \in {"UNBONDING", "ADVERTISING"}
    <3>1. state \in {"UNBONDING", "ADVERTISING"}
      BY <1>3, <2>1, <2>5 DEF DeletionKnown
    <3>2. e # "CONNECTED"
      <4> SUFFICES ASSUME e = "CONNECTED" PROVE FALSE
        OBVIOUS
      <4>1. evts[1] = "CONNECTED"
        BY <1>3 DEF Translates
      <4>2. i + 1 < 1
        BY <1>3, <2>1, <2>5, <4>1 DEF DeletionKnown
      <4> QED BY <4>2
    <3> QED BY <1>5, <1>7, <3>1, <3>2
  <2>6. ASSUME NEW i \in 1 .. Len(evts'), NEW j \in 1 .. Len(evts'),
               evts'[i] \in Deletion, evts'[j] = "CONNECTED"
        PROVE  i < j
    <3>1. i + 1 < j + 1
      BY <1>3, <2>1, <2>6 DEF DeletionKnown
    <3> QED BY <3>1
  <2>7. ASSUME NEW i \in 1 .. Len(evts'), evts'[i] = "PEERS_DELETE_SUCCEEDED",
               state' = "UNBONDING"
        PROVE  ~bonded'
    <3>1. state = "UNBONDING"
      BY <1>5, <1>7, <2>7
    <3> QED BY <1>3, <1>7, <2>1, <2>7, <3>1 DEF DeletionKnown
  <2>8. DeletionKnown'
    BY <2>4, <2>5, <2>6, <2>7 DEF DeletionKnown
  <2> QED BY <2>3, <2>8
<1> QED BY <1>8, <1>10, <1>11

\* The peer manager's report of a procedure that its link ended, then the end.
LEMMA LinkLostEnds ==
  ASSUME EndInv, LinkLost
  PROVE  EndFollows' /\ EndComes' /\ (spoilt' \/ DeletionKnown') /\ Unbonded
<1> DEFINE n == EvtHandler(Machine, "UNBONDED")
           r == EvtHandler(n, "DISCONNECTED")
<1>1. /\ LinkInv /\ Consistent(Machine) /\ Sane(Machine)
      /\ Machine.state = state /\ Machine.link = link /\ Machine.deleting = deleting
  BY DEF EndInv, LinkInv, HandleInv, Machine
<1>2. evts # << >> /\ evts' = Tail(evts) /\ Becomes(r)
      /\ spoilt' = (spoilt \/ state = "UNBONDING")
  BY DEF LinkLost
<1>3. /\ Len(evts') = Len(evts) - 1 /\ Len(evts) \in Nat \ {0}
      /\ \A i \in 1 .. Len(evts') : i + 1 \in 2 .. Len(evts) /\ i + 1 \in 1 .. Len(evts)
                                    /\ evts'[i] = evts[i + 1]
  BY <1>1, <1>2, TailShifts DEF LinkInv, HandleInv, TypeOK
<1>4. /\ Consistent(n)
      /\ Moved(Machine, n)
      /\ n.deleting => deleting \/ (bonded /\ n.state = "UNBONDING")
      /\ n.state = "UNBONDING" => state = "UNBONDING"
      /\ state = "ADVERTISING" => n = Machine
  BY <1>1, EvtHandlerKeeps, EvtHandlerCloses, EvtHandlerGoes DEF Begin
<1> HIDE DEF n
<1>5. /\ Consistent(r)
      /\ Moved(n, r)
      /\ r.state # "CONNECTED"
      /\ r.deleting => n.deleting \/ (bonded /\ r.state = "UNBONDING")
      /\ r.state = "UNBONDING" => n.state = "UNBONDING"
      /\ n.state = "ADVERTISING" => r = n
  BY <1>4, EvtHandlerKeeps, EvtHandlerCloses, EvtHandlerGoes DEF Begin, Moved
<1>6. r.link = "none" <=> link = "none"
  BY <1>1, <1>4, <1>5 DEF Moved
<1>7. state' = r.state /\ link' = r.link /\ deleting' = r.deleting /\ bonded' = bonded
  BY <1>2, <1>5, NowDeletes
<1> HIDE DEF r
<1>8. EndFollows'
  BY <1>2, <1>6, <1>7, TailFollows
<1>9. EndComes' /\ Unbonded
  BY <1>2, <1>5, <1>7 DEF EndComes, Unbonded
<1>10. ASSUME ~spoilt' PROVE DeletionKnown'
  <2>1. DeletionKnown /\ state # "UNBONDING"
    BY <1>2, <1>10 DEF EndInv
  <2>2. state' # "UNBONDING" /\ ~deleting'
    BY <1>4, <1>5, <1>7, <2>1 DEF DeletionKnown
  <2>3. \A i \in 1 .. Len(evts') : evts'[i] \in Deletion => state' = "ADVERTISING"
    BY <1>1, <1>3, <1>4, <1>5, <1>7, <2>1 DEF DeletionKnown
  <2>4. ASSUME NEW i \in 1 .. Len(evts'), NEW j \in 1 .. Len(evts'),
               evts'[i] \in Deletion, evts'[j] = "CONNECTED"
        PROVE  i < j
    <3>1. i + 1 < j + 1
      BY <1>3, <2>1, <2>4 DEF DeletionKnown
    <3> QED BY <3>1
  <2> QED BY <2>2, <2>3, <2>4 DEF DeletionKnown
<1> QED BY <1>8, <1>9, <1>10

\* A call, or a step of the machine that leaves evts alone.
LEMMA CallEnds ==
  ASSUME EndInv, NEW r, Consistent(r), Becomes(r), UNCHANGED << evts, spoilt >>,
         r.link = "none" <=> link = "none",
         r.state = "CONNECTED" => state = "CONNECTED",
         r.deleting => deleting \/ (bonded /\ r.state = "UNBONDING"),
         r.state = "UNBONDING" /\ state # "UNBONDING" => state = "CONNECTED",
         state = "UNBONDING" => r.state = "UNBONDING",
         state = "ADVERTISING" => r.state = "ADVERTISING"
  PROVE  EndFollows' /\ EndComes' /\ (spoilt' \/ DeletionKnown') /\ Unbonded
<1>1. state' = r.state /\ link' = r.link /\ deleting' = r.deleting /\ bonded' = bonded
  BY NowDeletes
<1>2. EndFollows' /\ EndComes' /\ Unbonded
  BY <1>1 DEF EndInv, EndFollows, EndComes, Unbonded
<1>3. ASSUME DeletionKnown PROVE DeletionKnown'
  <2>1. deleting' => state' = "UNBONDING" /\ bonded'
    BY <1>1, <1>3 DEF DeletionKnown
  <2>2. \A i \in 1 .. Len(evts) : evts[i] \in Deletion =>
          /\ state \in {"UNBONDING", "ADVERTISING"}
          /\ state' = state
    BY <1>1, <1>3 DEF DeletionKnown
  <2>3. \A i \in 1 .. Len(evts) :
          evts[i] = "PEERS_DELETE_SUCCEEDED" /\ state' = "UNBONDING" => ~bonded'
    BY <1>1, <1>3, <2>2 DEF DeletionKnown, Deletion
  <2> QED BY <1>3, <2>1, <2>2, <2>3 DEF DeletionKnown
<1> QED BY <1>2, <1>3 DEF EndInv

LEMMA RequestEnds ==
  ASSUME EndInv, NEW e \in {"DISCONNECT", "ADVERTISE", "BOND", "UNBOND"},
         Becomes(EvtHandler(Machine, e)), UNCHANGED << evts, spoilt >>
  PROVE  EndFollows' /\ EndComes' /\ (spoilt' \/ DeletionKnown') /\ Unbonded
<1> DEFINE r == EvtHandler(Machine, e)
<1>1. /\ Consistent(Machine) /\ Sane(Machine)
      /\ Machine.state = state /\ Machine.link = link /\ Machine.deleting = deleting
  BY DEF EndInv, LinkInv, HandleInv, Machine
<1>2. /\ Consistent(r) /\ Becomes(r)
      /\ r.link = "none" <=> link = "none"
  BY <1>1, EvtHandlerKeeps, EvtHandlerCloses DEF Begin, Moved
<1>3. /\ r.state = "CONNECTED" => state = "CONNECTED"
      /\ r.deleting => deleting \/ (bonded /\ r.state = "UNBONDING")
      /\ state = "UNBONDING" => r.state = "UNBONDING"
      /\ state = "ADVERTISING" => r.state = "ADVERTISING"
      /\ r.state = "UNBONDING" /\ state # "UNBONDING" => state = "CONNECTED"
  BY <1>1, EvtHandlerGoes
<1> HIDE DEF r
<1> QED BY <1>2, <1>3, CallEnds

-----------------------------------------------------------------------------
\* The stack raises something of a link that is up, or the end of the link.
LEMMA RaiseEnds ==
  ASSUME EndInv, NEW e \in Event \ (Deletion \cup {"CONNECTED"}), evts' = Append(evts, e),
         link' = "none" => (link = "none" /\ e \notin OfLink) \/ e \in End,
         UNCHANGED << state, deleting, spoilt >>,
         state = "UNBONDING" => UNCHANGED bonded
  PROVE  EndFollows' /\ EndComes' /\ (spoilt' \/ DeletionKnown')
<1>1. /\ Len(evts) \in Nat /\ Len(evts') = Len(evts) + 1
      /\ evts'[Len(evts) + 1] = e
      /\ \A i \in 1 .. Len(evts) : evts'[i] = evts[i]
  BY AppendEnds DEF EndInv, LinkInv, HandleInv, TypeOK
<1>2. \A i \in 1 .. Len(evts') :
        i = Len(evts) + 1 \/ (i \in 1 .. Len(evts) /\ evts'[i] = evts[i])
  BY <1>1
<1>3. EndFollows'
  <2> SUFFICES ASSUME link' = "none", NEW i \in 1 .. Len(evts'), evts'[i] \in OfLink
               PROVE  \E j \in i + 1 .. Len(evts') : evts'[j] \in End
    BY DEF EndFollows
  <2>1. CASE e \in End
    <3>1. i # Len(evts) + 1
      BY <1>1, <2>1 DEF OfLink, End
    <3>2. Len(evts) + 1 \in i + 1 .. Len(evts')
      BY <1>1, <1>2, <3>1
    <3> QED BY <1>1, <2>1, <3>2
  <2>2. CASE e \notin End
    <3>1. link = "none" /\ i \in 1 .. Len(evts) /\ evts[i] \in OfLink
      BY <1>1, <1>2, <2>2
    <3>2. PICK j \in i + 1 .. Len(evts) : evts[j] \in End
      BY <3>1 DEF EndInv, EndFollows
    <3>3. j \in i + 1 .. Len(evts') /\ j \in 1 .. Len(evts)
      BY <1>1, <3>1, <3>2
    <3> QED BY <1>1, <3>2, <3>3
  <2> QED BY <2>1, <2>2
<1>4. EndComes'
  <2> SUFFICES ASSUME link' = "none", state = "CONNECTED", ~spoilt
               PROVE  \E i \in 1 .. Len(evts') : evts'[i] \in End
    BY DEF EndComes
  <2>1. CASE e \in End
    <3>1. Len(evts) + 1 \in 1 .. Len(evts')
      BY <1>1
    <3> QED BY <1>1, <2>1, <3>1
  <2>2. CASE e \notin End
    <3>1. PICK i \in 1 .. Len(evts) : evts[i] \in End
      BY <2>2 DEF EndInv, EndComes
    <3>2. i \in 1 .. Len(evts')
      BY <1>1, <3>1
    <3> QED BY <1>1, <3>1, <3>2
  <2> QED BY <2>1, <2>2
<1>5. ASSUME DeletionKnown PROVE DeletionKnown'
  <2>1. \A i \in 1 .. Len(evts') : evts'[i] \in Deletion \cup {"CONNECTED"} =>
          i \in 1 .. Len(evts) /\ evts'[i] = evts[i]
    BY <1>1, <1>2
  <2>2. deleting' => state' = "UNBONDING" /\ bonded'
    BY <1>5 DEF DeletionKnown
  <2>3. \A i \in 1 .. Len(evts') :
          /\ evts'[i] \in Deletion => state' \in {"UNBONDING", "ADVERTISING"}
          /\ evts'[i] = "PEERS_DELETE_SUCCEEDED" /\ state' = "UNBONDING" => ~bonded'
    BY <1>5, <2>1 DEF DeletionKnown, Deletion
  <2>4. \A i, j \in 1 .. Len(evts') :
          evts'[i] \in Deletion /\ evts'[j] = "CONNECTED" => i < j
    BY <1>5, <2>1 DEF DeletionKnown
  <2> QED BY <2>2, <2>3, <2>4 DEF DeletionKnown
<1> QED BY <1>3, <1>4, <1>5 DEF EndInv

\* A link begins behind all that an earlier deletion has to report.
LEMMA ConnectEnds ==
  ASSUME EndInv, Connect
  PROVE  EndFollows' /\ EndComes' /\ (spoilt' \/ DeletionKnown')
<1>1. /\ adv /\ evts' = Append(evts, "CONNECTED") /\ link' = "up"
      /\ UNCHANGED << state, bonded, deleting, spoilt >>
  BY DEF Connect, Raise
<1>2. /\ Len(evts) \in Nat /\ Len(evts') = Len(evts) + 1
      /\ evts'[Len(evts) + 1] = "CONNECTED"
      /\ \A i \in 1 .. Len(evts) : evts'[i] = evts[i]
  BY <1>1, AppendEnds DEF EndInv, LinkInv, HandleInv, TypeOK, Event
<1>3. \A i \in 1 .. Len(evts') : evts'[i] \in Deletion =>
        i \in 1 .. Len(evts) /\ evts'[i] = evts[i]
  BY <1>2 DEF Deletion
<1>4. \A i \in 1 .. Len(evts) : evts[i] # "CONNECTED"
  BY <1>1 DEF EndInv, LinkInv, OneBegin, Begin
<1>5. \A j \in 1 .. Len(evts') : evts'[j] = "CONNECTED" => j = Len(evts) + 1
  BY <1>2, <1>4
<1>6. DeletionKnown => DeletionKnown'
  <2> SUFFICES ASSUME DeletionKnown PROVE DeletionKnown'
    OBVIOUS
  <2>1. deleting' => state' = "UNBONDING" /\ bonded'
    BY <1>1 DEF DeletionKnown
  <2>2. \A i \in 1 .. Len(evts') :
          /\ evts'[i] \in Deletion => state' \in {"UNBONDING", "ADVERTISING"}
          /\ evts'[i] = "PEERS_DELETE_SUCCEEDED" /\ state' = "UNBONDING" => ~bonded'
    BY <1>1, <1>3 DEF DeletionKnown, Deletion
  <2>3. \A i, j \in 1 .. Len(evts') :
          evts'[i] \in Deletion /\ evts'[j] = "CONNECTED" => i < j
    BY <1>2, <1>3, <1>5
  <2> QED BY <2>1, <2>2, <2>3 DEF DeletionKnown
<1> QED BY <1>1, <1>6 DEF EndInv, EndFollows, EndComes

\* A deletion ends in UNBONDING, where no link is expected.
LEMMA DeleteEndEnds ==
  ASSUME EndInv, DeleteEnd
  PROVE  EndFollows' /\ EndComes' /\ (spoilt' \/ DeletionKnown')
<1>1. /\ deleting /\ ~deleting'
      /\ UNCHANGED << state, link, spoilt >>
      /\ \E e \in Deletion : evts' = Append(evts, e)
                             /\ (e = "PEERS_DELETE_SUCCEEDED" => ~bonded')
      /\ ~bonded' \/ bonded' = bonded
  BY DEF DeleteEnd, Raise, Deletion
<1>2. PICK e \in Deletion : evts' = Append(evts, e)
                            /\ (e = "PEERS_DELETE_SUCCEEDED" => ~bonded')
  BY <1>1
<1>3. e \in Event /\ e \notin OfLink /\ e # "CONNECTED"
  BY DEF Deletion, Event, OfLink
<1>4. /\ Len(evts) \in Nat /\ Len(evts') = Len(evts) + 1
      /\ evts'[Len(evts) + 1] = e
      /\ \A i \in 1 .. Len(evts) : evts'[i] = evts[i]
  BY <1>2, <1>3, AppendEnds DEF EndInv, LinkInv, HandleInv, TypeOK
<1>5. \A i \in 1 .. Len(evts') :
        i = Len(evts) + 1 \/ (i \in 1 .. Len(evts) /\ evts'[i] = evts[i])
  BY <1>4
<1>6. EndFollows'
  <2> SUFFICES ASSUME link = "none", NEW i \in 1 .. Len(evts'), evts'[i] \in OfLink
               PROVE  \E j \in i + 1 .. Len(evts') : evts'[j] \in End
    BY <1>1 DEF EndFollows
  <2>1. i \in 1 .. Len(evts) /\ evts[i] \in OfLink
    BY <1>3, <1>4, <1>5
  <2>2. PICK j \in i + 1 .. Len(evts) : evts[j] \in End
    BY <2>1 DEF EndInv, EndFollows
  <2>3. j \in i + 1 .. Len(evts') /\ j \in 1 .. Len(evts)
    BY <1>4, <2>1, <2>2
  <2> QED BY <1>4, <2>2, <2>3
<1>7. ASSUME DeletionKnown
      PROVE  EndComes' /\ DeletionKnown'
  <2>1. state = "UNBONDING" /\ bonded
    BY <1>1, <1>7 DEF DeletionKnown
  <2>2. \A i \in 1 .. Len(evts) : evts[i] # "CONNECTED"
    BY <2>1 DEF EndInv, LinkInv, OneBegin, Begin
  <2>3. \A i \in 1 .. Len(evts) : evts[i] # "PEERS_DELETE_SUCCEEDED"
    BY <1>7, <2>1 DEF DeletionKnown
  <2>4. \A i \in 1 .. Len(evts') :
          /\ evts'[i] # "CONNECTED"
          /\ evts'[i] = "PEERS_DELETE_SUCCEEDED" => ~bonded'
    BY <1>2, <1>3, <1>4, <1>5, <2>2, <2>3
  <2> QED BY <1>1, <2>1, <2>4 DEF EndComes, DeletionKnown
<1>8. CASE spoilt
  BY <1>1, <1>6, <1>8 DEF EndComes
<1> QED BY <1>6, <1>7, <1>8 DEF EndInv

LEMMA StackEnds ==
  ASSUME EndInv,
         Connect \/ EndOfLink \/ GattTimeout \/ AdvTimeout \/ SecStart \/ SecEnd \/ DeleteEnd
  PROVE  EndFollows' /\ EndComes' /\ (spoilt' \/ DeletionKnown') /\ Unbonded
<1>1. state' = state
  BY DEF Connect, EndOfLink, GattTimeout, AdvTimeout, SecStart, SecEnd, DeleteEnd
<1>2. Unbonded
  BY <1>1 DEF Unbonded
<1>3. CASE Connect \/ DeleteEnd
  BY <1>2, <1>3, ConnectEnds, DeleteEndEnds
<1>4. CASE SecStart
  BY <1>2, <1>4 DEF SecStart, EndInv, EndFollows, EndComes, DeletionKnown
<1>5. CASE EndOfLink
  <2>1. /\ UNCHANGED << state, deleting, spoilt, bonded >>
        /\ \E e \in End : evts' = Append(evts, e)
    BY <1>5 DEF EndOfLink, Raise, End
  <2>2. PICK e \in End : evts' = Append(evts, e)
    BY <2>1
  <2>3. e \in Event \ (Deletion \cup {"CONNECTED"})
    BY DEF End, Event, Deletion
  <2> QED BY <1>2, <2>1, <2>2, <2>3, RaiseEnds
<1>6. CASE GattTimeout
  <2>1. /\ UNCHANGED << state, deleting, spoilt, bonded >> /\ link' = "up"
        /\ evts' = Append(evts, "GATT_TIMEOUT")
    BY <1>6 DEF GattTimeout, Raise
  <2>2. "GATT_TIMEOUT" \in Event \ (Deletion \cup {"CONNECTED"})
    BY DEF Event, Deletion
  <2> QED BY <1>2, <2>1, <2>2, RaiseEnds
<1>7. CASE AdvTimeout
  <2>1. /\ UNCHANGED << state, deleting, spoilt, bonded, link >>
        /\ evts' = Append(evts, "ADVERTISING_STOPPED")
    BY <1>7 DEF AdvTimeout, Raise
  <2>2. "ADVERTISING_STOPPED" \in Event \ (Deletion \cup {"CONNECTED"} \cup OfLink)
    BY DEF Event, Deletion, OfLink
  <2> QED BY <1>2, <2>1, <2>2, RaiseEnds
<1>8. CASE SecEnd
  <2>1. /\ UNCHANGED << state, deleting, spoilt >> /\ link = "up" /\ link' = "up"
        /\ \E e \in {"CONN_SEC_SUCCEEDED", "CONN_SEC_FAILED"} : evts' = Append(evts, e)
    BY <1>8 DEF SecEnd, Raise
  <2>2. PICK e \in {"CONN_SEC_SUCCEEDED", "CONN_SEC_FAILED"} : evts' = Append(evts, e)
    BY <2>1
  <2>3. e \in Event \ (Deletion \cup {"CONNECTED"})
    BY DEF Event, Deletion
  <2>4. state # "UNBONDING"
    BY <2>1 DEF EndInv, LinkInv, Sane, Machine
  <2> QED BY <1>2, <2>1, <2>2, <2>3, <2>4, RaiseEnds
<1> QED BY <1>3, <1>4, <1>5, <1>6, <1>7, <1>8

\* Every step keeps the invariant, and ends no unbonding too early.
LEMMA StepEnds == EndInv /\ [Next]_vars => EndInv' /\ Unbonded
<1> SUFFICES ASSUME EndInv, [Next]_vars PROVE EndInv' /\ Unbonded
  OBVIOUS
<1>0. LinkInv /\ LinkInv'
  BY MachineKnows, StackKnows DEF EndInv, Next, LinkNext
<1> DEFINE Kept == EndFollows' /\ EndComes' /\ (spoilt' \/ DeletionKnown') /\ Unbonded
<1>1. CASE BleEvt \/ PmEvt
  <2>1. \E raised, e : Translates(raised, e) /\ Deliver(raised, e)
    BY <1>1 DEF BleEvt, PmEvt, Translates, Deletion
  <2>2. PICK raised, e : Translates(raised, e) /\ Deliver(raised, e)
    BY <2>1
  <2>3. Kept
    BY <2>2, DeliverEnds
  <2> QED BY <1>0, <2>3 DEF EndInv
<1>2. CASE LinkLost
  BY <1>0, <1>2, LinkLostEnds DEF EndInv
<1>3. CASE ConnParamsFailed
  <2> DEFINE r == Disconnect(Machine)
  <2>1. Becomes(r) /\ UNCHANGED << evts, spoilt >>
    BY <1>3 DEF ConnParamsFailed
  <2>2. /\ Consistent(Machine) /\ Machine \in MachineSet
        /\ Machine.state = state /\ Machine.link = link /\ Machine.deleting = deleting
    BY <1>0 DEF LinkInv, HandleInv, Consistent, Machine
  <2>3. /\ Consistent(r) /\ r.state = state /\ r.deleting = deleting
        /\ r.link = "none" <=> link = "none"
    BY <2>2, DisconnectKeeps, DisconnectCloses, DisconnectDeletesNothing DEF Consistent
  <2> HIDE DEF r
  <2>4. Kept
    BY <2>1, <2>3, CallEnds
  <2> QED BY <1>0, <2>4 DEF EndInv
<1>4. CASE \E r \in Requests : Request(r)
  <2>1. PICK r \in Requests : Request(r)
    BY <1>4
  <2>2. Kept
    BY <2>1, RequestEnds, BleAssumption DEF Request
  <2> QED BY <1>0, <2>2 DEF EndInv
<1>5. CASE \E press \in {"NORMAL", "LONG"} : Button(press)
  <2>1. PICK press \in {"NORMAL", "LONG"} : Button(press)
    BY <1>5
  <2>2. UNCHANGED << evts, spoilt >>
        /\ \/ \E e \in {"BOND", "DISCONNECT", "ADVERTISE", "UNBOND"} :
                Becomes(EvtHandler(Machine, e))
           \/ Becomes(Machine)
    BY <2>1 DEF Button, ButtonCallback
  <2>3. CASE Becomes(Machine)
    <3>1. UNCHANGED << state, link, deleting, bonded >>
      BY <2>3 DEF Becomes, Machine
    <3> QED BY <1>0, <2>2, <3>1
            DEF EndInv, EndFollows, EndComes, DeletionKnown, Unbonded
  <2>4. CASE \E e \in {"BOND", "DISCONNECT", "ADVERTISE", "UNBOND"} :
               Becomes(EvtHandler(Machine, e))
    BY <1>0, <2>2, <2>4, RequestEnds DEF EndInv
  <2> QED BY <2>2, <2>3, <2>4
<1>6. CASE Connect \/ EndOfLink \/ GattTimeout \/ AdvTimeout \/ SecStart \/ SecEnd
           \/ DeleteEnd
  BY <1>0, <1>6, StackEnds DEF EndInv
<1>7. CASE UNCHANGED vars
  BY <1>0, <1>7 DEF vars, stackVars, EndInv, EndFollows, EndComes, DeletionKnown, Unbonded
<1> QED BY <1>1, <1>2, <1>3, <1>4, <1>5, <1>6, <1>7 DEF Next, LinkNext

LEMMA InitEnds == Init => EndInv
<1> SUFFICES ASSUME Init PROVE EndInv
  OBVIOUS
<1>1. evts = << >> /\ state = "ADVERTISING" /\ ~deleting
  BY DEF Init
<1> QED BY <1>1, InitKnows DEF EndInv, EndFollows, EndComes, DeletionKnown

\* A machine in CONNECTED that has heard all its events has a link, unless a
\* failure has ended an unbonding before.
THEOREM ConnectedLinks == Spec => []ConnectedHasLink
<1>1. EndInv => ConnectedHasLink
  <2> SUFFICES ASSUME EndInv, state = "CONNECTED", evts = << >>, link = "none"
               PROVE  spoilt
    BY DEF ConnectedHasLink
  <2> QED BY DEF EndInv, EndComes
<1>2. EndInv /\ [Next]_vars => EndInv'
  BY StepEnds
<1> QED BY <1>1, <1>2, InitEnds, PTL DEF Spec

\* An unbonding leaves no bond, whatever happens to the link meanwhile, unless
\* the report of a failure ends it.
THEOREM UnbondingEnds == Spec => UnbondingDeletes
<1>1. EndInv /\ [Next]_vars
        => EndInv' /\ [state = "UNBONDING" /\ state' # "UNBONDING"
                         => ~bonded' \/ spoilt']_vars
  BY StepEnds DEF Unbonded
<1> QED BY <1>1, InitEnds, PTL DEF Spec, UnbondingDeletes

(***************************************************************************)
(* Nobody asks for UNBOND.  No client of this firmware does, so that the   *)
(* button is the only one that could, and it never finds the state for it. *)
(* Then a node without a link is silent only in BONDING.                   *)
(***************************************************************************)
NoUnbond == "UNBOND" \notin Requests

\* The machine never unbonds, so no failure can end an unbonding.
NeverUnbonds == state # "UNBONDING" /\ ~deleting /\ ~spoilt

\* A node that is not advertising hears of what makes it advertise again: in
\* CONNECTED (EndComes) and DISCONNECTING of the end of its link, in
\* ADVERTISING of the end of the advertising, or of the link behind it.
SilenceInv ==
  /\ EndInv
  /\ NeverUnbonds
  /\ state = "DISCONNECTING" /\ link = "none" =>
       \E i \in 1 .. Len(evts) : evts[i] \in End
  /\ state # "ADVERTISING" =>
       \A i \in 1 .. Len(evts) : evts[i] \in End => link = "none"
  /\ state = "ADVERTISING" /\ ~adv =>
       \E i \in 1 .. Len(evts) : evts[i] \in Begin
  /\ state = "ADVERTISING" => link # "closing"

\* Without a link the subscriber's reaction does start advertising.
LEMMA ToDisconnectedAdvertises ==
  ASSUME NEW m \in MachineSet, m.link = "none"
  PROVE  ToDisconnected(m).adv /\ ToDisconnected(m).link = "none"
<1>1. ASSUME NEW n \in MachineSet, n.link = "none", NEW s \in State
      PROVE  /\ Goto(n, s) \in MachineSet /\ Goto(n, s).link = "none"
  BY <1>1, GotoMoves, GotoCloses
<1> DEFINE d == Goto(m, "DISCONNECTED")
           g == [d EXCEPT !.conn = "INVALID"]
           h == Goto(g, "ADVERTISING")
<1>2. d \in MachineSet /\ d.link = "none"
  BY <1>1 DEF State
<1> HIDE DEF d
<1>3. g \in MachineSet /\ g.link = "none"
  BY <1>2 DEF MachineSet
<1> HIDE DEF g
<1>4. h \in MachineSet /\ h.link = "none"
  BY <1>1, <1>3 DEF State
<1>5. ToDisconnected(m) = StartAdvertising(h)
  BY DEF ToDisconnected, ToAdvertising, d, g
<1> HIDE DEF h
<1> QED BY <1>4, <1>5 DEF StartAdvertising, MachineSet

\* Where an event leads when nobody unbonds.
LEMMA EvtHandlerAdvertises ==
  ASSUME NEW m, Consistent(m), m.state # "UNBONDING", NEW e, e # "UNBOND"
  PROVE  LET r == EvtHandler(m, e)
         IN  /\ r.state = "ADVERTISING" =>
                  \/ r = m
                  \/ r = ToDisconnected(m) /\
                       (e = "DISCONNECTED" \/ (e = "ADVERTISING_STOPPED"
                                                 /\ m.state = "ADVERTISING"))
             /\ r.state = "DISCONNECTING" =>
                  \/ m.state = "DISCONNECTING" /\ r = m /\ e # "DISCONNECTED"
                  \/ m.state = "CONNECTED" /\ e = "DISCONNECT"
             /\ m.state = "ADVERTISING" /\ r.state # "ADVERTISING" => e = "CONNECTED"
<1> DEFINE r == EvtHandler(m, e)
<1>0. /\ m \in MachineSet /\ m.state \in State \ {"DISCONNECTED"}
      /\ ToDisconnected(m).state = "ADVERTISING"
      /\ ToConnected(m).state = "CONNECTED"
      /\ ToDisconnecting(m).state = "DISCONNECTING"
      /\ ToBonding(m).state = "BONDING"
  BY ToDisconnectedMoves, ToConnectedMoves, ToDisconnectingMoves, ToBondingMoves
     DEF Consistent, MachineSet
<1>1. CASE m.state = "CONNECTED"
  <2>1. r = ConnectedHandler(m, e)
    BY <1>1 DEF EvtHandler
  <2> QED BY <1>0, <1>1, <2>1 DEF ConnectedHandler
<1>2. CASE m.state = "DISCONNECTING"
  <2>1. r = DisconnectingHandler(m, e)
    BY <1>2 DEF EvtHandler
  <2> QED BY <1>0, <1>2, <2>1 DEF DisconnectingHandler
<1>3. CASE m.state = "ADVERTISING"
  <2> DEFINE c == [m EXCEPT !.conn = "HANDLE"]
  <2>1. r = AdvertisingHandler(m, e)
    BY <1>3 DEF EvtHandler
  <2>2. c \in MachineSet
    BY <1>0 DEF MachineSet
  <2>3. ToConnected(c).state = "CONNECTED"
    BY <2>2, ToConnectedMoves
  <2> HIDE DEF c
  <2>4. r = CASE e = "ADVERTISING_STOPPED" -> ToDisconnected(m)
              [] e = "CONNECTED" -> ToConnected(c)
              [] OTHER -> m
    BY <2>1 DEF AdvertisingHandler, c
  <2> QED BY <1>0, <1>3, <2>3, <2>4
<1>4. CASE m.state = "BONDING"
  <2>1. r = BondingHandler(m, e)
    BY <1>4 DEF EvtHandler
  <2> QED BY <1>0, <1>4, <2>1 DEF BondingHandler
<1> QED BY <1>0, <1>1, <1>2, <1>3, <1>4 DEF State

\* The first event of evts is delivered.
LEMMA DeliverAdvertises ==
  ASSUME SilenceInv, EndInv', NEW raised, NEW e, Translates(raised, e), Deliver(raised, e)
  PROVE  SilenceInv'
<1> DEFINE r == EvtHandler(Machine, e)
<1>1. /\ LinkInv /\ Consistent(Machine) /\ Sane(Machine) /\ OneBegin
      /\ Machine \in MachineSet /\ Machine.adv = adv
      /\ Machine.state = state /\ Machine.link = link /\ Machine.deleting = deleting
  BY DEF SilenceInv, EndInv, LinkInv, HandleInv, Consistent, Machine
<1>2. evts # << >> /\ Head(evts) = raised /\ evts' = Tail(evts) /\ Becomes(r)
  BY DEF Deliver
<1>3. /\ Len(evts') = Len(evts) - 1 /\ Len(evts) \in Nat \ {0}
      /\ raised = evts[1] /\ 1 \in 1 .. Len(evts)
      /\ \A i \in 1 .. Len(evts') : i + 1 \in 2 .. Len(evts) /\ i + 1 \in 1 .. Len(evts)
                                    /\ evts'[i] = evts[i + 1]
      /\ \A i \in 2 .. Len(evts) : i - 1 \in 1 .. Len(evts') /\ evts'[i - 1] = evts[i]
  <2>1. /\ Len(evts') = Len(evts) - 1 /\ Len(evts) \in Nat \ {0}
        /\ raised = evts[1] /\ 1 \in 1 .. Len(evts)
        /\ \A i \in 1 .. Len(evts') : i + 1 \in 2 .. Len(evts) /\ i + 1 \in 1 .. Len(evts)
                                      /\ evts'[i] = evts[i + 1]
    BY <1>1, <1>2, TailShifts DEF LinkInv, HandleInv, TypeOK
  <2>2. ASSUME NEW i \in 2 .. Len(evts)
        PROVE  i - 1 \in 1 .. Len(evts') /\ evts'[i - 1] = evts[i]
    <3>1. i - 1 \in 1 .. Len(evts') /\ (i - 1) + 1 = i
      BY <2>1
    <3> QED BY <2>1, <3>1
  <2> QED BY <2>1, <2>2
<1>4. Consistent(r) /\ e # "UNBOND" /\ state # "UNBONDING"
  BY <1>1, EvtHandlerKeeps DEF Translates, SilenceInv, NeverUnbonds
<1>5. /\ e \in Begin => ~adv
      /\ e = "ADVERTISING_STOPPED" => link = "none"
      /\ e \in Begin => raised = e
  BY <1>1, <1>3 DEF OneBegin, Begin, Translates, Deletion
<1>6. /\ r.link = "none" <=> link = "none"
      /\ r.link = "up" => link = "up"
      /\ r.deleting => deleting \/ (bonded /\ r.state = "UNBONDING")
      /\ r.state # "UNBONDING"
  BY <1>1, <1>4, <1>5, EvtHandlerCloses, EvtHandlerGoes DEF Moved
<1>7. /\ r.state = "ADVERTISING" =>
           \/ r = Machine
           \/ r = ToDisconnected(Machine) /\
                (e = "DISCONNECTED" \/ (e = "ADVERTISING_STOPPED" /\ state = "ADVERTISING"))
      /\ r.state = "DISCONNECTING" =>
           \/ state = "DISCONNECTING" /\ e # "DISCONNECTED"
           \/ state = "CONNECTED" /\ e = "DISCONNECT"
      /\ state = "ADVERTISING" /\ r.state # "ADVERTISING" => e = "CONNECTED"
  BY <1>1, <1>4, EvtHandlerAdvertises
<1>8. /\ state' = r.state /\ link' = r.link /\ deleting' = r.deleting /\ bonded' = bonded
      /\ adv' = r.adv
  BY <1>2, <1>4, NowDeletes DEF Becomes
<1> HIDE DEF r
<1>9. NeverUnbonds'
  BY <1>4, <1>6, <1>8 DEF SilenceInv, NeverUnbonds, Deliver
<1>10. ASSUME r = ToDisconnected(Machine), r.state = "ADVERTISING", r # Machine
       PROVE  adv' /\ link' = "none"
  <2>1. e = "ADVERTISING_STOPPED" => link = "none"
    BY <1>5
  <2>2. e = "DISCONNECTED" /\ state # "ADVERTISING" => link = "none"
    BY <1>3 DEF SilenceInv, Translates, End
  <2>3. state = "ADVERTISING" => e = "ADVERTISING_STOPPED"
    <3>1. Machine.state = "ADVERTISING" /\ e \notin Begin => EvtHandler(Machine, e) = Machine
      BY <1>1, <1>5, EvtHandlerCloses
    <3>2. e = "CONNECTED" /\ Machine.state = "ADVERTISING" =>
            EvtHandler(Machine, e).state = "CONNECTED"
      BY <1>1, <1>5, EvtHandlerCloses
    <3> QED BY <1>1, <1>10, <3>1, <3>2 DEF r, Begin
  <2>4. link = "none"
    BY <1>7, <1>10, <2>1, <2>2, <2>3
  <2> QED BY <1>1, <1>8, <1>10, <2>4, ToDisconnectedAdvertises
<1>11. state' = "DISCONNECTING" /\ link' = "none" =>
         \E i \in 1 .. Len(evts') : evts'[i] \in End
  <2> SUFFICES ASSUME r.state = "DISCONNECTING", link = "none"
               PROVE  \E i \in 1 .. Len(evts') : evts'[i] \in End
    BY <1>6, <1>8
  <2>1. PICK i \in 1 .. Len(evts) : evts[i] \in End
    BY <1>7 DEF SilenceInv, NeverUnbonds, EndInv, EndComes
  <2>2. evts[1] \notin End
    BY <1>3, <1>7 DEF Translates, Deletion, End
  <2>3. i \in 2 .. Len(evts)
    BY <1>3, <2>1, <2>2
  <2> QED BY <1>3, <2>1, <2>3
<1>12. ASSUME state' # "ADVERTISING", NEW i \in 1 .. Len(evts'), evts'[i] \in End
       PROVE  link' = "none"
  <2>1. i + 1 \in 2 .. Len(evts) /\ i + 1 \in 1 .. Len(evts) /\ evts[i + 1] \in End
    BY <1>3, <1>12
  <2>2. CASE state # "ADVERTISING"
    BY <1>6, <1>8, <2>1, <2>2 DEF SilenceInv
  <2>3. CASE state = "ADVERTISING"
    <3>1. evts[1] = "CONNECTED"
      BY <1>3, <1>5, <1>7, <1>8, <1>12, <2>3 DEF Begin
    <3>2. link # "up"
      <4> SUFFICES ASSUME link = "up" PROVE FALSE
        OBVIOUS
      <4>1. PICK k \in 1 .. Len(evts) :
              evts[k] = "CONNECTED" /\ \A j \in k + 1 .. Len(evts) : evts[j] \notin End
        BY <1>1, <2>3 DEF LinkInv, Known
      <4>2. k = 1
        BY <1>1, <1>3, <3>1, <4>1 DEF OneBegin, Begin
      <4>3. i + 1 \in k + 1 .. Len(evts)
        BY <2>1, <4>2
      <4> QED BY <2>1, <4>1, <4>3
    <3>3. link = "none"
      BY <1>1, <2>3, <3>2 DEF SilenceInv, LinkInv, HandleInv, TypeOK
    <3> QED BY <1>6, <1>8, <3>3
  <2> QED BY <2>2, <2>3
<1>13. state' = "ADVERTISING" =>
         /\ ~adv' => \E i \in 1 .. Len(evts') : evts'[i] \in Begin
         /\ link' # "closing"
  <2>1. CASE r = Machine /\ state = "ADVERTISING"
    <3>1. raised \notin Begin
      <4>1. raised = "CONNECTED" => EvtHandler(Machine, e).state = "CONNECTED"
        BY <1>1, <1>5, <2>1, EvtHandlerCloses DEF Translates, Deletion
      <4>2. raised # "CONNECTED"
        BY <1>1, <2>1, <4>1 DEF r
      <4>3. raised # "ADVERTISING_STOPPED"
        <5> SUFFICES ASSUME raised = "ADVERTISING_STOPPED" PROVE FALSE
          OBVIOUS
        <5>1. e = "ADVERTISING_STOPPED" /\ link = "none"
          BY <1>5 DEF Translates, Deletion
        <5>2. EvtHandler(Machine, e) = ToDisconnected(Machine)
          BY <1>1, <2>1, <5>1 DEF EvtHandler, AdvertisingHandler
        <5>3. ToDisconnected(Machine).adv
          BY <1>1, <5>1, ToDisconnectedAdvertises
        <5>4. ~adv
          BY <1>5, <5>1 DEF Begin
        <5> QED BY <1>1, <2>1, <5>2, <5>3, <5>4 DEF r
      <4> QED BY <4>2, <4>3 DEF Begin
    <3>2. ASSUME ~adv PROVE \E i \in 1 .. Len(evts') : evts'[i] \in Begin
      <4>1. PICK i \in 1 .. Len(evts) : evts[i] \in Begin
        BY <2>1, <3>2 DEF SilenceInv
      <4>2. i \in 2 .. Len(evts)
        BY <1>3, <3>1, <4>1
      <4> QED BY <1>3, <4>1, <4>2
    <3> QED BY <1>1, <1>8, <2>1, <3>2 DEF SilenceInv
  <2>2. CASE r = ToDisconnected(Machine) /\ r # Machine
    BY <1>8, <1>10, <2>2
  <2> QED BY <1>1, <1>7, <1>8, <2>1, <2>2
<1> QED BY <1>9, <1>11, <1>12, <1>13 DEF SilenceInv

\* A link that is lost during a procedure is lost to the machine, too.
LEMMA LinkLostAdvertises ==
  ASSUME SilenceInv, EndInv', LinkLost
  PROVE  SilenceInv'
<1> DEFINE n == EvtHandler(Machine, "UNBONDED")
           r == EvtHandler(n, "DISCONNECTED")
<1>1. /\ LinkInv /\ Consistent(Machine) /\ Sane(Machine)
      /\ Machine \in MachineSet /\ Machine.adv = adv
      /\ Machine.state = state /\ Machine.link = link /\ Machine.deleting = deleting
  BY DEF SilenceInv, EndInv, LinkInv, HandleInv, Consistent, Machine
<1>2. evts # << >> /\ Head(evts) = "LINK_LOST" /\ evts' = Tail(evts) /\ Becomes(r)
      /\ spoilt' = (spoilt \/ state = "UNBONDING")
  BY DEF LinkLost
<1>3. /\ Len(evts') = Len(evts) - 1 /\ Len(evts) \in Nat \ {0}
      /\ evts[1] = "LINK_LOST" /\ 1 \in 1 .. Len(evts)
      /\ \A i \in 1 .. Len(evts') : i + 1 \in 2 .. Len(evts) /\ i + 1 \in 1 .. Len(evts)
                                    /\ evts'[i] = evts[i + 1]
  BY <1>1, <1>2, TailShifts DEF LinkInv, HandleInv, TypeOK
<1>4. state # "UNBONDING" /\ ~deleting
  BY DEF SilenceInv, NeverUnbonds
<1>5. /\ Consistent(n) /\ n \in MachineSet
      /\ Moved(Machine, n)
      /\ n.deleting => bonded /\ n.state = "UNBONDING"
      /\ n.state # "UNBONDING"
      /\ state = "ADVERTISING" => n = Machine
  BY <1>1, <1>4, EvtHandlerKeeps, EvtHandlerCloses, EvtHandlerGoes DEF Begin, Consistent
<1>6. n.state = "ADVERTISING" => n = Machine
  BY <1>1, <1>4, EvtHandlerAdvertises
<1> HIDE DEF n
<1>7. /\ Consistent(r)
      /\ Moved(n, r)
      /\ r.state # "UNBONDING" /\ ~r.deleting
      /\ n.state = "ADVERTISING" => r = n
  BY <1>5, EvtHandlerKeeps, EvtHandlerCloses, EvtHandlerGoes DEF Begin, Moved
<1>8. /\ r.state = "ADVERTISING" => r = n \/ r = ToDisconnected(n)
      /\ r.state # "DISCONNECTING"
  BY <1>5, EvtHandlerAdvertises
<1>9. /\ state' = r.state /\ link' = r.link /\ deleting' = r.deleting /\ adv' = r.adv
  BY <1>2, <1>7, NowDeletes DEF Becomes
<1> HIDE DEF r
<1>10. /\ r.link = "none" <=> link = "none"
       /\ n.link = "none" <=> link = "none"
  BY <1>1, <1>5, <1>7 DEF Moved
<1>11. NeverUnbonds'
  BY <1>2, <1>4, <1>7, <1>9 DEF SilenceInv, NeverUnbonds
<1>12. ASSUME state' # "ADVERTISING", NEW i \in 1 .. Len(evts'), evts'[i] \in End
       PROVE  link' = "none"
  <2>1. state # "ADVERTISING"
    BY <1>1, <1>5, <1>7, <1>9, <1>12
  <2>2. i + 1 \in 1 .. Len(evts) /\ evts[i + 1] \in End
    BY <1>3, <1>12
  <2> QED BY <1>9, <1>10, <2>1, <2>2 DEF SilenceInv
<1>13. ASSUME state' = "ADVERTISING"
       PROVE  /\ ~adv' => \E i \in 1 .. Len(evts') : evts'[i] \in Begin
              /\ link' # "closing"
  <2>1. CASE r = n /\ n.state = "ADVERTISING"
    <3>1. r = Machine
      BY <1>6, <2>1
    <3>2. ASSUME ~adv PROVE \E i \in 1 .. Len(evts') : evts'[i] \in Begin
      <4>1. PICK i \in 1 .. Len(evts) : evts[i] \in Begin
        BY <1>1, <3>1, <1>9, <1>13, <3>2 DEF SilenceInv
      <4>2. evts[1] \notin Begin
        BY <1>3 DEF Begin
      <4>3. i - 1 \in 1 .. Len(evts') /\ (i - 1) + 1 = i
        BY <1>3, <4>1, <4>2
      <4> QED BY <1>3, <4>1, <4>3
    <3> QED BY <1>1, <1>9, <1>13, <3>1, <3>2 DEF SilenceInv
  <2>2. CASE n.state # "ADVERTISING"
    <3>1. r = ToDisconnected(n)
      BY <1>8, <1>9, <1>13, <2>2
    <3>2. state # "ADVERTISING"
      BY <1>1, <1>5, <2>2
    <3>3. link = "none"
      BY <1>3, <3>2 DEF SilenceInv, End
    <3> QED BY <1>5, <1>9, <1>10, <3>1, <3>3, ToDisconnectedAdvertises
  <2> QED BY <1>7, <1>9, <1>13, <2>1, <2>2
<1>14. state' # "DISCONNECTING"
  BY <1>8, <1>9
<1> QED BY <1>11, <1>12, <1>13, <1>14 DEF SilenceInv

\* A call leaves evts alone, and a machine that advertises takes none.
LEMMA CallAdvertises ==
  ASSUME SilenceInv, EndInv', NEW r, Consistent(r), Becomes(r), UNCHANGED << evts, spoilt >>,
         r.link = "none" <=> link = "none",
         r.state # "UNBONDING", ~r.deleting,
         state = "ADVERTISING" <=> r.state = "ADVERTISING",
         state = "ADVERTISING" => r = Machine,
         r.state = "DISCONNECTING" => state \in {"CONNECTED", "DISCONNECTING"}
  PROVE  SilenceInv'
<1>1. state' = r.state /\ link' = r.link /\ deleting' = r.deleting /\ adv' = r.adv
  BY NowDeletes DEF Becomes
<1>2. NeverUnbonds'
  BY <1>1 DEF SilenceInv, NeverUnbonds
<1>3. state' = "DISCONNECTING" /\ link' = "none" =>
        \E i \in 1 .. Len(evts) : evts[i] \in End
  BY <1>1 DEF SilenceInv, NeverUnbonds, EndInv, EndComes
<1>4. state' = "ADVERTISING" => state = "ADVERTISING" /\ adv' = adv /\ link' = link
  BY <1>1 DEF Machine
<1> QED BY <1>1, <1>2, <1>3, <1>4 DEF SilenceInv

LEMMA RequestAdvertises ==
  ASSUME SilenceInv, EndInv', NEW e \in {"DISCONNECT", "ADVERTISE", "BOND"},
         Becomes(EvtHandler(Machine, e)), UNCHANGED << evts, spoilt >>
  PROVE  SilenceInv'
<1> DEFINE r == EvtHandler(Machine, e)
<1>1. /\ Consistent(Machine) /\ Sane(Machine)
      /\ Machine.state = state /\ Machine.link = link /\ Machine.deleting = deleting
      /\ state # "UNBONDING" /\ ~deleting
  BY DEF SilenceInv, NeverUnbonds, EndInv, LinkInv, HandleInv, Machine
<1>2. /\ Consistent(r) /\ Becomes(r)
      /\ r.link = "none" <=> link = "none"
      /\ state = "ADVERTISING" => r = Machine
  BY <1>1, EvtHandlerKeeps, EvtHandlerCloses DEF Begin, Moved
<1>3. /\ r.state # "UNBONDING"
      /\ r.deleting => deleting \/ (bonded /\ r.state = "UNBONDING")
  BY <1>1, EvtHandlerGoes
<1>4. /\ r.state = "ADVERTISING" => r = Machine
      /\ r.state = "DISCONNECTING" => state \in {"CONNECTED", "DISCONNECTING"}
  BY <1>1, EvtHandlerAdvertises
<1> HIDE DEF r
<1> QED BY <1>1, <1>2, <1>3, <1>4, CallAdvertises

\* The stack raises an event, and with it ends or begins what it speaks of.
LEMMA StackAdvertises ==
  ASSUME SilenceInv, EndInv',
         Connect \/ EndOfLink \/ GattTimeout \/ AdvTimeout \/ SecStart \/ SecEnd \/ DeleteEnd
  PROVE  SilenceInv'
<1>1. /\ UNCHANGED << state, spoilt >>
      /\ adv => state = "ADVERTISING" /\ link = "none"
      /\ evts \in Seq(Event) /\ ~deleting
  BY DEF SilenceInv, NeverUnbonds, EndInv, LinkInv, HandleInv, TypeOK, Sane, Machine, Connect,
         EndOfLink, GattTimeout, AdvTimeout, SecStart, SecEnd, DeleteEnd
<1>2. NeverUnbonds'
  BY <1>1 DEF SilenceInv, NeverUnbonds, Connect, EndOfLink, GattTimeout, AdvTimeout,
              SecStart, SecEnd, DeleteEnd
<1>3. ASSUME NEW e \in Event, evts' = Append(evts, e)
      PROVE  /\ \A i \in 1 .. Len(evts) : i \in 1 .. Len(evts') /\ evts'[i] = evts[i]
             /\ \E i \in 1 .. Len(evts') : evts'[i] = e
             /\ \A i \in 1 .. Len(evts') : evts'[i] = e \/ \E j \in 1 .. Len(evts) :
                                                              evts'[i] = evts[j]
  <2>1. /\ Len(evts) \in Nat /\ Len(evts') = Len(evts) + 1
        /\ evts'[Len(evts) + 1] = e
        /\ \A i \in 1 .. Len(evts) : evts'[i] = evts[i]
    BY <1>1, <1>3, AppendEnds
  <2>2. \A i \in 1 .. Len(evts') : i = Len(evts) + 1 \/ i \in 1 .. Len(evts)
    BY <2>1
  <2> QED BY <2>1, <2>2
<1>4. CASE Connect
  <2>1. adv /\ link' = "up" /\ evts' = Append(evts, "CONNECTED")
    BY <1>4 DEF Connect, Raise
  <2>2. "CONNECTED" \in Event /\ "CONNECTED" \in Begin
    BY DEF Event, Begin
  <2>3. \E i \in 1 .. Len(evts') : evts'[i] \in Begin
    BY <1>3, <2>1, <2>2
  <2> QED BY <1>1, <1>2, <2>1, <2>3 DEF SilenceInv
<1>5. CASE EndOfLink
  <2>1. \E e \in End : evts' = Append(evts, e)
    BY <1>5 DEF EndOfLink, Raise, End
  <2>2. PICK e \in End : evts' = Append(evts, e)
    BY <2>1
  <2>3. e \in Event
    BY DEF End, Event
  <2>4. link' = "none" /\ adv' = adv
    BY <1>5 DEF EndOfLink
  <2>5. \E i \in 1 .. Len(evts') : evts'[i] \in End
    BY <1>3, <2>2, <2>3
  <2>6. (\E i \in 1 .. Len(evts) : evts[i] \in Begin) =>
           \E i \in 1 .. Len(evts') : evts'[i] \in Begin
    BY <1>3, <2>2, <2>3
  <2> QED BY <1>1, <1>2, <2>4, <2>5, <2>6 DEF SilenceInv
<1>6. CASE AdvTimeout
  <2>1. adv /\ link' = link /\ evts' = Append(evts, "ADVERTISING_STOPPED")
    BY <1>6 DEF AdvTimeout, Raise
  <2>2. "ADVERTISING_STOPPED" \in Event /\ "ADVERTISING_STOPPED" \in Begin
    BY DEF Event, Begin
  <2>3. \E i \in 1 .. Len(evts') : evts'[i] \in Begin
    BY <1>3, <2>1, <2>2
  <2> QED BY <1>1, <1>2, <2>1, <2>3 DEF SilenceInv
<1>7. CASE GattTimeout \/ SecEnd
  <2>1. \E e \in {"GATT_TIMEOUT", "CONN_SEC_SUCCEEDED", "CONN_SEC_FAILED"} :
           evts' = Append(evts, e)
    BY <1>7 DEF GattTimeout, SecEnd, Raise
  <2>2. PICK e \in {"GATT_TIMEOUT", "CONN_SEC_SUCCEEDED", "CONN_SEC_FAILED"} :
           evts' = Append(evts, e)
    BY <2>1
  <2>3. e \in Event /\ e \notin End
    BY DEF End, Event
  <2>4. UNCHANGED << link, adv >>
    BY <1>7 DEF GattTimeout, SecEnd
  <2>5. /\ (\E i \in 1 .. Len(evts) : evts[i] \in Begin) =>
             \E i \in 1 .. Len(evts') : evts'[i] \in Begin
        /\ (\E i \in 1 .. Len(evts) : evts[i] \in End) =>
             \E i \in 1 .. Len(evts') : evts'[i] \in End
        /\ (\E i \in 1 .. Len(evts') : evts'[i] \in End) =>
             \E i \in 1 .. Len(evts) : evts[i] \in End
    BY <1>3, <2>2, <2>3
  <2> QED BY <1>1, <1>2, <2>4, <2>5 DEF SilenceInv
<1>8. CASE SecStart
  BY <1>1, <1>2, <1>8 DEF SecStart, SilenceInv
<1>9. CASE DeleteEnd
  BY <1>1, <1>9 DEF DeleteEnd
<1> QED BY <1>4, <1>5, <1>6, <1>7, <1>8, <1>9

\* Nobody ever unbonds, and no bond is deleted.
LEMMA StepAdvertises ==
  ASSUME NoUnbond, SilenceInv, [Next]_vars
  PROVE  SilenceInv' /\ (bonded => bonded')
<1>0. EndInv /\ EndInv' /\ ~deleting
  BY StepEnds DEF SilenceInv, NeverUnbonds
<1>1. CASE BleEvt \/ PmEvt
  <2>1. \E raised, e : Translates(raised, e) /\ Deliver(raised, e)
    BY <1>1 DEF BleEvt, PmEvt, Translates, Deletion
  <2>2. PICK raised, e : Translates(raised, e) /\ Deliver(raised, e)
    BY <2>1
  <2> QED BY <1>0, <2>2, DeliverAdvertises DEF Deliver, Becomes
<1>2. CASE LinkLost
  BY <1>0, <1>2, LinkLostAdvertises DEF LinkLost, Becomes
<1>3. CASE ConnParamsFailed
  <2> DEFINE r == Disconnect(Machine)
  <2>1. Becomes(r) /\ UNCHANGED << evts, spoilt, bonded >>
    BY <1>3 DEF ConnParamsFailed, Becomes
  <2>2. /\ Consistent(Machine) /\ Machine \in MachineSet
        /\ Machine.state = state /\ Machine.link = link /\ Machine.deleting = deleting
        /\ Machine.conn = "HANDLE" /\ state # "UNBONDING"
    BY <1>0, <1>3 DEF SilenceInv, NeverUnbonds, EndInv, LinkInv, HandleInv, Consistent, Machine,
                      ConnParamsFailed, CanDisconnect
  <2>3. state # "ADVERTISING"
    BY <2>2 DEF Consistent
  <2>4. /\ Consistent(r) /\ r.state = state /\ r.deleting = deleting
        /\ r.link = "none" <=> link = "none"
    BY <2>2, DisconnectKeeps, DisconnectCloses, DisconnectDeletesNothing DEF Consistent
  <2> HIDE DEF r
  <2>5. SilenceInv'
    BY <1>0, <2>1, <2>2, <2>3, <2>4, CallAdvertises
  <2> QED BY <2>1, <2>5
<1>4. CASE \E r \in Requests : Request(r)
  <2>1. PICK r \in Requests : Request(r)
    BY <1>4
  <2>2. r \in {"DISCONNECT", "ADVERTISE", "BOND"}
    BY BleAssumption DEF NoUnbond
  <2> QED BY <1>0, <2>1, <2>2, RequestAdvertises DEF Request, Becomes
<1>5. CASE \E press \in {"NORMAL", "LONG"} : Button(press)
  <2>1. PICK press \in {"NORMAL", "LONG"} : Button(press)
    BY <1>5
  <2>2. state # "DISCONNECTED"
    BY <1>0 DEF EndInv, LinkInv, HandleInv, Consistent, Machine
  <2>3. UNCHANGED << evts, spoilt, bonded >>
        /\ \/ \E e \in {"BOND", "DISCONNECT"} : Becomes(EvtHandler(Machine, e))
           \/ Becomes(Machine)
    BY <2>1, <2>2 DEF Button, ButtonCallback, Machine, Becomes
  <2>4. CASE Becomes(Machine)
    <3>1. UNCHANGED << state, link, adv, deleting >>
      BY <2>4 DEF Becomes, Machine
    <3> QED BY <1>0, <2>3, <3>1 DEF SilenceInv, NeverUnbonds
  <2>5. CASE \E e \in {"BOND", "DISCONNECT"} : Becomes(EvtHandler(Machine, e))
    BY <1>0, <2>3, <2>5, RequestAdvertises
  <2> QED BY <2>3, <2>4, <2>5
<1>6. CASE Connect \/ EndOfLink \/ GattTimeout \/ AdvTimeout \/ SecStart \/ SecEnd
           \/ DeleteEnd
  <2>1. SilenceInv'
    BY <1>0, <1>6, StackAdvertises
  <2>2. bonded => bonded'
    BY <1>0, <1>6 DEF Connect, EndOfLink, GattTimeout, AdvTimeout, SecStart, SecEnd, DeleteEnd
  <2> QED BY <2>1, <2>2
<1>7. CASE UNCHANGED vars
  BY <1>0, <1>7 DEF vars, stackVars, SilenceInv, NeverUnbonds
<1> QED BY <1>1, <1>2, <1>3, <1>4, <1>5, <1>6, <1>7 DEF Next, LinkNext

LEMMA InitAdvertises == Init => SilenceInv
BY InitEnds DEF Init, SilenceInv, NeverUnbonds

\* What the invariant says once every event is delivered.
LEMMA SilenceTells == SilenceInv => NeverSilent
<1> SUFFICES ASSUME SilenceInv, link = "none", ~adv, evts = << >>
             PROVE  state = "BONDING"
  BY DEF NeverSilent
<1>1. \A i \in 1 .. Len(evts) : FALSE
  OBVIOUS
<1>2. state \notin {"ADVERTISING", "CONNECTED", "DISCONNECTING", "UNBONDING"}
  BY <1>1 DEF SilenceInv, NeverUnbonds, EndInv, EndComes
<1>3. state \in State \ {"DISCONNECTED"}
  BY DEF SilenceInv, EndInv, LinkInv, HandleInv, Consistent, MachineSet, Machine
<1> QED BY <1>2, <1>3 DEF State

\* Unless a client asks for UNBOND, a node without a link is advertising, has an
\* event to hear of that makes it advertise, or is stuck in BONDING: there is no
\* other way for it to disappear from the air.
THEOREM SilentOnlyInBonding == ASSUME NoUnbond PROVE Spec => []NeverSilent
<1>1. SilenceInv /\ [Next]_vars => SilenceInv'
  BY StepAdvertises
<1> QED BY <1>1, SilenceTells, InitAdvertises, PTL DEF Spec

\* The button alone never deletes a bond: its only way to do so starts in a
\* state the machine does not rest in.
THEOREM BondsAreKept == ASSUME NoUnbond PROVE Spec => [][bonded => bonded']_vars
<1>1. SilenceInv /\ [Next]_vars => SilenceInv' /\ [bonded => bonded']_vars
  BY StepAdvertises
<1> QED BY <1>1, InitAdvertises, PTL DEF Spec
=============================================================================
