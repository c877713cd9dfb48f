----------------------------- MODULE Attributes -----------------------------
(***************************************************************************)
(* The attributes a central reads, writes and subscribes to, on top of the *)
(* connection state machine: ble_peripheral_update and the WRITE event of  *)
(* ble_peripheral.c, and the clients that publish or take a value,         *)
(* window_state_observer.c, acc_ctrl.c, battery_observer.c and             *)
(* distance_observer.c.                                                    *)
(*                                                                         *)
(* An attribute has two sides.  The SoftDevice answers reads and takes     *)
(* writes at once; the firmware hears of a write by an event that comes    *)
(* later, behind others, and only CONNECTED handles it.  Whether a central *)
(* wants notifications is a descriptor of the SoftDevice, one per link, and*)
(* a flag of the firmware, one for ever.                                   *)
(*                                                                         *)
(* The SoftDevice is external: sd_ble_gatts_hvx changes the value even when*)
(* it cannot notify, except on a link that has ended; it buffers one       *)
(* notification; a write shorter than the attribute changes its first      *)
(* bytes.  A reset is not an action: it leads to an initial state.         *)
(***************************************************************************)
EXTENDS BlePeripheral

CONSTANTS
  ThValue,    \* thresholds
  Default,    \* the thresholds after a reset
  IdValue     \* the threshold that as a number is the id of the window

ASSUME AttrAssumption == {Default, IdValue} \subseteq ThValue

\* BLE_PERIPERAL_CHAR_ACC_FF, with _HP alike, and _CS_THRESHOLD_WINDOW.
Threshold == {"FF", "WINDOW"}

VARIABLES
  writes,    \* the contents of the WRITE events in evts, oldest first: the
             \* attribute, its value then, and whether the write was a whole one
  thAttr,    \* the SoftDevice's values of the thresholds
  th,        \* g_ff_threshold of acc.c, g_open_closed_thresholds
  ctrlTh,    \* g_ff_threshold of acc_ctrl.c
  window,    \* g_window_state
  winAttr,   \* the SoftDevice's value of the window's state
  cccd,      \* the central of this link has subscribed to the window's state
  notify,    \* notifications_enabled
  sending,   \* the SoftDevice's only notification buffer is in use
  lost       \* history: what the firmware was not told of in the end

attrVars == << writes, thAttr, th, ctrlTh, window, winAttr, cccd, notify, sending,
               lost >>
allVars == << vars, attrVars >>

-----------------------------------------------------------------------------
(***************************************************************************)
(* ble_peripheral_update and its callers.                                  *)
(***************************************************************************)
Notifies == conn = "HANDLE" /\ notify

\* ble_peripheral_update(BLE_PERIPERAL_CHAR_WMS_STATE, w): sd_ble_gatts_hvx
\* or sd_ble_gatts_value_set.
Update(w) ==
  LET fails == Notifies /\ link = "none"
      sends == Notifies /\ cccd /\ ~sending
  IN  /\ winAttr' = IF fails THEN winAttr ELSE w
      /\ sending' = (sending \/ sends)

\* distance_callback of window_state.c, then win_state_evt_handler.
Sample(w) ==
  /\ window' = w
  /\ Update(w)
  /\ UNCHANGED << vars, writes, thAttr, th, ctrlTh, cccd, notify, lost >>

\* update_level, update_distance: what matters is the buffer they may take.
OtherUpdate ==
  /\ conn = "HANDLE" /\ link # "none" /\ ~sending
  /\ sending' = TRUE
  /\ UNCHANGED << vars, writes, thAttr, th, ctrlTh, window, winAttr, cccd, notify,
                  lost >>

-----------------------------------------------------------------------------
(***************************************************************************)
(* The WRITE event.                                                        *)
(***************************************************************************)
\* acc_cb: acc_set_ff_threshold reports a change, and what acc_ctrl does not
\* know already it writes to the attribute.
AccCb(known, v) ==
  IF v # th["FF"] /\ v # known THEN [thAttr EXCEPT !["FF"] = v] ELSE thAttr

\* Mistake: the driver is told before the new threshold is remembered.
BugAttrUpdateCb(v) ==
  /\ ctrlTh' = v /\ th' = [th EXCEPT !["FF"] = v]
  /\ thAttr' = AccCb(ctrlTh, v)

\* attr_update_cb of acc_ctrl.c.
AttrUpdateCb(v) ==
  /\ ctrlTh' = v /\ th' = [th EXCEPT !["FF"] = v]
  /\ thAttr' = AccCb(v, v)

\* Mistake: before the first sample there is no window to set a threshold of.
BugThresholdSet(v) ==
  /\ th' = IF window = "UNKNOWN" THEN th ELSE [th EXCEPT !["WINDOW"] = v]
  /\ UNCHANGED << winAttr, sending, thAttr, ctrlTh >>

\* ble_evt_handler of window_state_observer.c: window_state_threshold_set
\* reports the threshold, and win_state_evt_handler takes it for a window.
ThresholdSet(v) ==
  /\ th' = [th EXCEPT !["WINDOW"] = v]
  /\ IF v = IdValue THEN Update(window)
                    ELSE UNCHANGED << winAttr, sending >>
  /\ UNCHANGED << thAttr, ctrlTh >>

\* Mistake: the flag is taken for a toggle.
BugEnabled(v) == ~notify

Enabled(v) == v

\* handle_write_char, notify_on_write.
HandleWriteChar(d) ==
  \/ /\ d.char = "FF" /\ AttrUpdateCb(d.value)
     /\ UNCHANGED << winAttr, sending, notify >>
  \/ /\ d.char = "WINDOW" /\ ThresholdSet(d.value)
     /\ UNCHANGED notify
  \/ /\ d.char = "CCCD" /\ notify' = Enabled(d.value)
     /\ UNCHANGED << thAttr, th, ctrlTh, winAttr, sending >>

AwaitsWrite(c) == \E i \in 1 .. Len(writes) : writes[i].char = c

\* What a handled write makes good: the last one, and if it subscribes.
MadeGood(d) == {c \in {d.char} : ~AwaitsWrite(c)' /\ (c = "CCCD" => d.value)}

\* on_ble_evt, BLE_GATTS_EVT_WRITE: no state but CONNECTED has a use for it,
\* and no client for a value that is not of the expected value_len.
WriteEvt ==
  /\ Deliver("WRITE", "WRITE")
  /\ writes' = Tail(writes)
  /\ \/ /\ state = "CONNECTED" /\ Head(writes).whole
        /\ HandleWriteChar(Head(writes))
        /\ lost' = lost \ MadeGood(Head(writes))
     \/ /\ state # "CONNECTED" \/ ~Head(writes).whole
        /\ lost' = lost \cup {Head(writes).char}
        /\ UNCHANGED << thAttr, th, ctrlTh, winAttr, sending, notify >>
  /\ UNCHANGED << window, cccd >>

-----------------------------------------------------------------------------
(***************************************************************************)
(* The central, the SoftDevice and the peer manager.                       *)
(***************************************************************************)
RaiseWrite(d) ==
  /\ link = "up" /\ Raise("WRITE") /\ writes' = Append(writes, d)
  /\ UNCHANGED << state, conn, link, adv, sec, bonded, deleting, spoilt >>

\* Afterwards the attribute is v.
WriteThreshold(c, v, whole) ==
  /\ RaiseWrite([char |-> c, value |-> v, whole |-> whole])
  /\ thAttr' = [thAttr EXCEPT ![c] = v]
  /\ UNCHANGED << th, ctrlTh, window, winAttr, cccd, notify, sending, lost >>

WriteCccd(b) ==
  /\ RaiseWrite([char |-> "CCCD", value |-> b, whole |-> TRUE])
  /\ cccd' = b
  /\ UNCHANGED << thAttr, th, ctrlTh, window, winAttr, notify, sending, lost >>

\* BLE_GATTS_EVT_HVN_TX_COMPLETE, in which on_ble_evt has nothing to do.
HvnTxComplete ==
  /\ sending /\ sending' = FALSE
  /\ UNCHANGED << vars, writes, thAttr, th, ctrlTh, window, winAttr, cccd, notify,
                  lost >>

\* The descriptors of a link end with it.
LinkEnds ==
  /\ EndOfLink
  /\ cccd' = FALSE /\ sending' = FALSE /\ lost' = lost \ {"CCCD"}
  /\ UNCHANGED << writes, thAttr, th, ctrlTh, window, winAttr, notify >>

\* The peer manager gives a bonded central the descriptor it had on some
\* earlier link, and raises no WRITE.
Secured ==
  /\ SecEnd
  /\ cccd' \in IF bonded /\ bonded' THEN BOOLEAN ELSE {cccd}
  /\ lost' = IF cccd' = cccd THEN lost ELSE lost \cup {"CCCD"}
  /\ UNCHANGED << writes, thAttr, th, ctrlTh, window, winAttr, notify, sending >>

\* Every other step of the connection state machine; ctrl and hmi are its only
\* clients and advertising does not time out.
MachineStep ==
  /\ \/ BleEvt \/ PmEvt \/ LinkLost \/ ConnParamsFailed
     \/ \E press \in {"NORMAL", "LONG"} : Button(press)
     \/ Connect \/ GattTimeout \/ SecStart \/ DeleteEnd
  /\ UNCHANGED attrVars

\* update_all_thresholds and acc_ctrl_init have published the thresholds.
AttrInit ==
  /\ Init
  /\ writes = << >>
  /\ thAttr = [c \in Threshold |-> Default] /\ th = thAttr /\ ctrlTh = Default
  /\ window = "UNKNOWN" /\ winAttr = "UNKNOWN"
  /\ cccd = FALSE /\ notify = FALSE /\ sending = FALSE
  /\ lost = {}

AttrNext ==
  \/ MachineStep \/ LinkEnds \/ Secured \/ WriteEvt \/ OtherUpdate \/ HvnTxComplete
  \/ \E w \in {"OPEN", "CLOSED"} : Sample(w)
  \/ \E c \in Threshold, v \in ThValue, whole \in BOOLEAN : WriteThreshold(c, v, whole)
  \/ \E b \in BOOLEAN : WriteCccd(b)

AttrSpec == AttrInit /\ [][AttrNext]_allVars

-----------------------------------------------------------------------------
(***************************************************************************)
(* Properties.                                                             *)
(***************************************************************************)
\* Once its writes are delivered a threshold that a central reads is the one
\* in use, however the writes were interleaved with events, pairing and lost
\* links, unless the last of them was dropped outside CONNECTED or for its length.
ThresholdsAgree ==
  \A c \in Threshold \ lost : ~AwaitsWrite(c) =>
    /\ thAttr[c] = th[c]
    /\ c = "FF" => ctrlTh = th[c]

\* The device never overwrites a threshold a central wrote, say with an older
\* one of which it has only just heard.
WritesNotOverwritten ==
  [][thAttr' # thAttr => Len(writes') > Len(writes)]_allVars

\* The handle has outlived the link: its end is still to be heard, or never
\* will be, because BONDING drops it.
EndUnheard ==
  /\ link = "none"
  /\ \/ state = "BONDING"
     \/ \E i \in 1 .. Len(evts) : evts[i] \in {"DISCONNECTED", "LINK_LOST"}

\* What is published of the window is its state, and a new state is published
\* at once, whoever is connected, has subscribed or was bonded before: only
\* while the end of a link is unheard may ble_peripheral_update be refused.
WindowReadable ==
  [][/\ winAttr' # winAttr => winAttr' = window'
     /\ window' # window => winAttr' = window' \/ EndUnheard]_allVars

\* With all events delivered, a central that has subscribed is notified of the
\* window's next state: the firmware knows of the link and of the wish, unless
\* the wish was dropped or restored without a WRITE, or another notification
\* takes the buffer.
SubscriberIsNotified ==
  [][window' # window /\ cccd /\ link = "up" /\ evts = << >> /\ ~sending =>
       sending' \/ "CCCD" \in lost]_allVars
=============================================================================
