---------------------------- MODULE BlePeripheral ----------------------------
(***************************************************************************)
(* The connection state machine of ble_peripheral.c, with the two clients  *)
(* that drive it: ble_peripheral_ctrl.c, which advertises again whenever it*)
(* hears DISCONNECTED, and hmi.c, the pairing button.                      *)
(*                                                                         *)
(* Events of the SoftDevice and of the peer manager, button tasks and calls*)
(* of clients all run in the main loop: a handler is one step.  What makes *)
(* the machine hard is that events lag behind the link, that change_state  *)
(* is re-entered (by an enter handler, and by the subscriber that reacts to*)
(* a state by changing it), and that events a state does not expect are    *)
(* dropped.  A handler is a function from one machine record to another,   *)
(* so that a nested change_state is a nested application.                  *)
(*                                                                         *)
(* SoftDevice and peer manager are external.  There is one link, and its   *)
(* handle is always the same.  The peer manager reports a procedure that   *)
(* the end of the link cuts off before the application hears DISCONNECTED  *)
(* (observer priority 1 before 3), and has nothing to report of a security *)
(* request the peer never answered.                                        *)
(***************************************************************************)
EXTENDS Naturals, Sequences

CONSTANTS
  Requests,     \* the API calls clients other than ctrl and hmi make
  AdvDuration,  \* APP_ADV_DURATION, 0: advertising never times out
  EvtsMax       \* bound: events the SoftDevice has raised and not delivered

ASSUME BleAssumption ==
  /\ Requests \subseteq {"DISCONNECT", "ADVERTISE", "BOND", "UNBOND"}
  /\ AdvDuration \in Nat
  /\ EvtsMax \in Nat \ {0}

State == {"CONNECTED", "DISCONNECTED", "DISCONNECTING", "ADVERTISING", "BONDING",
          "UNBONDING"}

\* CONNECTED, ... as on_ble_evt, on_adv_evt and pm_evt_handler translate them;
\* LINK_LOST is a DISCONNECTED that also ends a security procedure; WRITE is
\* raised in the module Attributes.
Event == {"CONNECTED", "DISCONNECTED", "LINK_LOST", "GATT_TIMEOUT",
          "ADVERTISING_STOPPED", "CONN_SEC_SUCCEEDED", "CONN_SEC_FAILED",
          "PEERS_DELETE_SUCCEEDED", "PEERS_DELETE_FAILED", "WRITE"}

VARIABLES
  state,     \* g_current_state
  conn,      \* g_conn_handle: "INVALID" or the "HANDLE" of the only link
  link,      \* the link: "none", "up", or "closing" once a disconnect began
  adv,       \* the SoftDevice advertises
  sec,       \* security of the link: "none", "requested" or "running"
  bonded,    \* 0 < pm_peer_count()
  deleting,  \* pm_peers_delete works
  evts,      \* raised and not yet delivered events, oldest first
  spoilt     \* history: the report of a failure has ended an unbonding

stackVars == << link, adv, sec, bonded, deleting, evts >>
vars == << state, conn, stackVars, spoilt >>

TypeOK ==
  /\ state \in State
  /\ conn \in {"INVALID", "HANDLE"}
  /\ link \in {"none", "up", "closing"}
  /\ adv \in BOOLEAN
  /\ sec \in {"none", "requested", "running"}
  /\ bonded \in BOOLEAN
  /\ deleting \in BOOLEAN
  /\ evts \in Seq(Event) /\ Len(evts) <= EvtsMax
  /\ spoilt \in BOOLEAN

Machine == [state |-> state, conn |-> conn, link |-> link, adv |-> adv,
            sec |-> sec, deleting |-> deleting]

\* The step that takes the machine to m.
Becomes(m) ==
  /\ state' = m.state /\ conn' = m.conn /\ link' = m.link
  /\ adv' = m.adv /\ sec' = m.sec /\ deleting' = m.deleting
  /\ UNCHANGED bonded

-----------------------------------------------------------------------------
(***************************************************************************)
(* What the handlers ask of the stack.                                     *)
(***************************************************************************)
\* disconnect: the stack refuses an invalid handle and a link that is ending.
CanDisconnect(m) == m.conn = "HANDLE" /\ m.link = "up"

Disconnect(m) == IF CanDisconnect(m) THEN [m EXCEPT !.link = "closing"] ELSE m

\* start_advertising: refused while there is a link; the error is only logged.
StartAdvertising(m) == IF m.link = "none" THEN [m EXCEPT !.adv = TRUE] ELSE m

\* bond: pm_conn_secure sends a security request.  The result is ignored.
Bond(m) == IF CanDisconnect(m) /\ m.sec = "none"
             THEN [m EXCEPT !.sec = "requested"] ELSE m

-----------------------------------------------------------------------------
(***************************************************************************)
(* change_state(s): leave, assign, enter, push_event.  Of the states, only *)
(* DISCONNECTING has an exit handler with an effect, a second disconnect.  *)
(***************************************************************************)
Goto(m, s) ==
  LET left == IF m.state = "DISCONNECTING" THEN Disconnect(m) ELSE m
  IN  [left EXCEPT !.state = s]

ToConnected(m) == Goto(m, "CONNECTED")

ToAdvertising(m) == StartAdvertising(Goto(m, "ADVERTISING"))

ToDisconnecting(m) == Disconnect(Goto(m, "DISCONNECTING"))

ToBonding(m) == Bond(Goto(m, "BONDING"))

\* Mistake: the handle of the last link is kept.
BugToDisconnected(m) == ToAdvertising(Goto(m, "DISCONNECTED"))

\* Mistake: the subscriber has nothing to do with a lost connection.
BugDeafCtrl(m) == [Goto(m, "DISCONNECTED") EXCEPT !.conn = "INVALID"]

\* disconnected_on_enter, then ctrl, subscribed to the change, advertises.
ToDisconnected(m) ==
  ToAdvertising([Goto(m, "DISCONNECTED") EXCEPT !.conn = "INVALID"])

\* Mistake: the disconnected device counts as one without bonds.
BugRemoveAllBondings(m) == ToDisconnected(m)

\* remove_all_bondings.
RemoveAllBondings(m) ==
  IF bonded THEN [m EXCEPT !.deleting = TRUE] ELSE ToDisconnected(m)

\* unbonding_on_enter: stop advertising, then disconnect or remove the bonds.
\* Of the errors of sd_ble_gap_adv_stop the handle of ble_advertising meets only
\* INVALID_STATE, which is ignored: the return on any other is never taken.
ToUnbonding(m) ==
  LET quiet == [Goto(m, "UNBONDING") EXCEPT !.adv = FALSE]
  IN  IF CanDisconnect(quiet) THEN Disconnect(quiet) ELSE RemoveAllBondings(quiet)

-----------------------------------------------------------------------------
(***************************************************************************)
(* evt_handler: what each state does with an event; what it does not name  *)
(* it drops.                                                               *)
(***************************************************************************)
\* Mistake: a failed security procedure is taken for the end of the link.
BugConnectedHandler(m, e) ==
  CASE e = "DISCONNECT"                  -> ToDisconnecting(m)
    [] e \in {"DISCONNECTED", "UNBONDED"} -> ToDisconnected(m)
    [] e = "BOND"                        -> ToBonding(m)
    [] e = "UNBOND"                      -> ToUnbonding(m)
    [] OTHER                             -> m

\* connected_evt_handler.
ConnectedHandler(m, e) ==
  CASE e = "DISCONNECT"   -> ToDisconnecting(m)
    [] e = "DISCONNECTED" -> ToDisconnected(m)
    [] e = "BOND"         -> ToBonding(m)
    [] e = "UNBOND"       -> ToUnbonding(m)
    [] OTHER              -> m

\* disconnected_evt_handler.
DisconnectedHandler(m, e) ==
  CASE e = "CONNECTED" -> ToConnected([m EXCEPT !.conn = "HANDLE"])
    [] e = "ADVERTISE" -> ToAdvertising(m)
    [] OTHER           -> m

\* Mistake: the end of a disconnect the device asked for is not waited for.
BugDisconnectingHandler(m, e) == m

\* disconnecting_evt_handler.
DisconnectingHandler(m, e) == IF e = "DISCONNECTED" THEN ToDisconnected(m) ELSE m

\* advertising_evt_handler.
AdvertisingHandler(m, e) ==
  CASE e = "ADVERTISING_STOPPED" -> ToDisconnected(m)
    [] e = "CONNECTED"           -> ToConnected([m EXCEPT !.conn = "HANDLE"])
    [] OTHER                     -> m

\* bonding_evt_handler: bonded or not, the state is CONNECTED again.
BondingHandler(m, e) == IF e \in {"BONDED", "UNBONDED"} THEN ToConnected(m) ELSE m

\* unbonding_evt_handler.
UnbondingHandler(m, e) ==
  CASE e = "DISCONNECTED" -> RemoveAllBondings(m)
    [] e = "UNBONDED"     -> ToDisconnected(m)
    [] OTHER              -> m

\* evt_handler.
EvtHandler(m, e) ==
  CASE m.state = "CONNECTED"     -> ConnectedHandler(m, e)
    [] m.state = "DISCONNECTED"  -> DisconnectedHandler(m, e)
    [] m.state = "DISCONNECTING" -> DisconnectingHandler(m, e)
    [] m.state = "ADVERTISING"   -> AdvertisingHandler(m, e)
    [] m.state = "BONDING"       -> BondingHandler(m, e)
    [] m.state = "UNBONDING"     -> UnbondingHandler(m, e)

-----------------------------------------------------------------------------
(***************************************************************************)
(* Events delivered to the application.                                    *)
(***************************************************************************)
\* Delivery of an event the translation of which is one event of evt_handler.
Deliver(raised, e) ==
  /\ evts # << >> /\ Head(evts) = raised
  /\ evts' = Tail(evts)
  /\ Becomes(EvtHandler(Machine, e))
  /\ spoilt' = (spoilt \/ (/\ raised \in {"CONN_SEC_FAILED", "PEERS_DELETE_FAILED"}
                          /\ state = "UNBONDING"))

\* on_ble_evt and on_adv_evt.
BleEvt ==
  \/ Deliver("CONNECTED", "CONNECTED")
  \/ Deliver("DISCONNECTED", "DISCONNECTED")
  \/ Deliver("GATT_TIMEOUT", "DISCONNECT")
  \/ Deliver("ADVERTISING_STOPPED", "ADVERTISING_STOPPED")

\* pm_evt_handler.
PmEvt ==
  \/ Deliver("CONN_SEC_SUCCEEDED", "BONDED")
  \/ Deliver("CONN_SEC_FAILED", "UNBONDED")
  \/ Deliver("PEERS_DELETE_SUCCEEDED", "UNBONDED")
  \/ Deliver("PEERS_DELETE_FAILED", "UNBONDED")

\* Mistake: the application's observer is called before the peer manager's.
BugLinkLost ==
  /\ evts # << >> /\ Head(evts) = "LINK_LOST"
  /\ evts' = Tail(evts)
  /\ Becomes(EvtHandler(EvtHandler(Machine, "DISCONNECTED"), "UNBONDED"))
  /\ spoilt' = (spoilt \/ state = "UNBONDING")

\* One event of the SoftDevice, seen by the peer manager and then by on_ble_evt.
LinkLost ==
  /\ evts # << >> /\ Head(evts) = "LINK_LOST"
  /\ evts' = Tail(evts)
  /\ Becomes(EvtHandler(EvtHandler(Machine, "UNBONDED"), "DISCONNECTED"))
  /\ spoilt' = (spoilt \/ state = "UNBONDING")

\* on_conn_params_evt_handler disconnects behind the back of the machine.
ConnParamsFailed ==
  /\ CanDisconnect(Machine)
  /\ Becomes(Disconnect(Machine))
  /\ UNCHANGED << evts, spoilt >>

-----------------------------------------------------------------------------
(***************************************************************************)
(* Calls of clients.                                                       *)
(***************************************************************************)
\* ble_peripheral_disconnect, _start_advertising, _bond, _unbond.
Request(r) ==
  /\ r \in Requests
  /\ Becomes(EvtHandler(Machine, r))
  /\ UNCHANGED << evts, spoilt >>

\* button_callback of hmi.c: what a press asks for in the state it finds.
ButtonCallback(m, press) ==
  CASE press = "NORMAL" /\ m.state = "CONNECTED"    -> EvtHandler(m, "BOND")
    [] press = "NORMAL" /\ m.state = "DISCONNECTED" -> EvtHandler(m, "ADVERTISE")
    [] press = "LONG" /\ m.state = "CONNECTED"      -> EvtHandler(m, "DISCONNECT")
    [] press = "LONG" /\ m.state = "DISCONNECTED"   -> EvtHandler(m, "UNBOND")
    [] OTHER                                        -> m

Button(press) ==
  /\ Becomes(ButtonCallback(Machine, press))
  /\ UNCHANGED << evts, spoilt >>

-----------------------------------------------------------------------------
(***************************************************************************)
(* The SoftDevice, the peer manager and the central.                       *)
(***************************************************************************)
Raise(e) == Len(evts) < EvtsMax /\ evts' = Append(evts, e)

Connect ==
  /\ adv /\ Raise("CONNECTED")
  /\ adv' = FALSE /\ link' = "up"
  /\ UNCHANGED << state, conn, spoilt, sec, bonded, deleting >>

\* The central goes, the radio loses it, or a disconnect is completed.
EndOfLink ==
  /\ link # "none"
  /\ Raise(IF sec = "running" THEN "LINK_LOST" ELSE "DISCONNECTED")
  /\ link' = "none" /\ sec' = "none"
  /\ UNCHANGED << state, conn, spoilt, adv, bonded, deleting >>

GattTimeout ==
  /\ link = "up" /\ Raise("GATT_TIMEOUT")
  /\ UNCHANGED << state, conn, spoilt, link, adv, sec, bonded, deleting >>

AdvTimeout ==
  /\ AdvDuration # 0 /\ adv /\ Raise("ADVERTISING_STOPPED")
  /\ adv' = FALSE
  /\ UNCHANGED << state, conn, spoilt, link, sec, bonded, deleting >>

\* The central pairs or encrypts, asked by a security request or not.
SecStart ==
  /\ link = "up" /\ sec \in {"none", "requested"}
  /\ sec' = "running"
  /\ UNCHANGED << state, conn, spoilt, link, adv, bonded, deleting, evts >>

\* A link that is being closed completes no procedure.
SecEnd ==
  /\ link = "up" /\ sec = "running"
  /\ sec' = "none"
  /\ \/ Raise("CONN_SEC_SUCCEEDED") /\ bonded' = TRUE
     \/ Raise("CONN_SEC_FAILED") /\ UNCHANGED bonded
  /\ UNCHANGED << state, conn, spoilt, link, adv, deleting >>

DeleteEnd ==
  /\ deleting
  /\ deleting' = FALSE
  /\ \/ Raise("PEERS_DELETE_SUCCEEDED") /\ bonded' = FALSE
     \/ Raise("PEERS_DELETE_FAILED") /\ UNCHANGED bonded
  /\ UNCHANGED << state, conn, spoilt, link, adv, sec >>

\* After ble_peripheral_init and ble_peripheral_ctrl_init; bonds are kept in
\* the flash.
Init ==
  /\ state = "ADVERTISING" /\ conn = "INVALID"
  /\ link = "none" /\ adv = TRUE /\ sec = "none"
  /\ bonded \in BOOLEAN /\ deleting = FALSE
  /\ evts = << >> /\ spoilt = FALSE

\* Every step but those of the button.
LinkNext ==
  \/ BleEvt \/ PmEvt \/ LinkLost \/ ConnParamsFailed
  \/ \E r \in Requests : Request(r)
  \/ Connect \/ EndOfLink \/ GattTimeout \/ AdvTimeout
  \/ SecStart \/ SecEnd \/ DeleteEnd

Next == LinkNext \/ \E press \in {"NORMAL", "LONG"} : Button(press)

Spec == Init /\ [][Next]_vars

\* Events are delivered; the stack ends what it began: a disconnect it
\* accepted, a procedure (it has a timeout), a deletion.
Fairness ==
  /\ WF_vars(BleEvt \/ PmEvt \/ LinkLost)
  /\ WF_vars(link = "closing" /\ EndOfLink)
  /\ WF_vars(SecEnd)
  /\ WF_vars(DeleteEnd)

FairSpec == Spec /\ Fairness

-----------------------------------------------------------------------------
(***************************************************************************)
(* Properties.                                                             *)
(***************************************************************************)
\* g_conn_handle follows the state through every order of events: a state
\* that talks to the peer has a handle, and none that advertises keeps one.
HandleFollowsState ==
  /\ state \in {"CONNECTED", "BONDING", "DISCONNECTING"} => conn = "HANDLE"
  /\ state = "ADVERTISING" => conn = "INVALID"

\* The machine never rests in DISCONNECTED, because ctrl re-enters it from
\* push_event.  So the branches of hmi.c for that state, the only way the
\* button has to delete the bonds, are never taken.
NeverRestsDisconnected == state # "DISCONNECTED"

\* A central that is connected, once all events are delivered, is known to
\* the machine: it is not taken for one that left, and nothing is advertised.
LinkIsKnown == link = "up" /\ evts = << >> => state # "ADVERTISING" /\ ~adv

\* While the machine is in CONNECTED with all events delivered there is a
\* link, unless a failure has ended an unbonding: that may leave a deletion
\* behind, and a bonding that lost its link takes the late event of the
\* deletion for its own end.
ConnectedHasLink == state = "CONNECTED" /\ evts = << >> => link # "none" \/ spoilt

\* Unbonding ends with the bonds deleted, whatever the link, the peer and
\* other clients do meanwhile, until a failure is taken for its end: that of
\* the deletion, or of a security procedure of the dying link, which has the
\* same name UNBONDED.
UnbondingDeletes ==
  [][state = "UNBONDING" /\ state' # "UNBONDING" => ~bonded' \/ spoilt']_vars

\* With the clients of this firmware a node without a link advertises again,
\* whatever ended the link, unless it waits for the end of a bonding that lost
\* its link.  (UNBOND on a link that is closing, or one that a failed security
\* procedure ends, advertises too early, is refused and never tries again.)
Reconnectable == (link = "none" /\ ~adv) ~> (adv \/ link # "none" \/ state = "BONDING")

\* The safety core of Reconnectable: a node that has no link, does not
\* advertise and has no event left to hear of waits in BONDING.  From any
\* other state nothing would ever make it advertise again.
NeverSilent == link = "none" /\ ~adv /\ evts = << >> => state = "BONDING"

\* "Handle of the current connection": a valid g_conn_handle belongs to a link
\* whose end has not been delivered yet.
HandleOfCurrentConnection == conn = "HANDLE" /\ evts = << >> => link # "none"
=============================================================================
