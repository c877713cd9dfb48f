-------------------------- MODULE AttributesProofs --------------------------
(***************************************************************************)
(* What a central reads, for every set of thresholds and for events that   *)
(* are delivered as late as one likes.                                     *)
(*                                                                         *)
(* ThresholdsAgree speaks of a threshold without pending writes.  It is    *)
(* inductive once the last pending write is known to be what the SoftDevice*)
(* holds (LastPending), and the WRITE events in evts to be as many as their*)
(* contents in writes (Paired).                                            *)
(***************************************************************************)
EXTENDS Attributes, BlePeripheralProofs, FiniteSetTheorems

Written == [char : Threshold \cup {"CCCD"}, value : ThValue \cup BOOLEAN, whole : BOOLEAN]

WrittenOK(d) == d \in Written /\ (d.char \in Threshold => d.value \in ThValue)

Types ==
  /\ evts \in Seq(Event)
  /\ writes \in Seq(Written) /\ \A i \in 1 .. Len(writes) : WrittenOK(writes[i])
  /\ thAttr \in [Threshold -> ThValue] /\ th \in [Threshold -> ThValue]
  /\ ctrlTh \in ThValue

\* Where the WRITE events are.
Where(q) == {i \in 1 .. Len(q) : q[i] = "WRITE"}

Paired == Cardinality(Where(evts)) = Len(writes)

\* The last pending write of a threshold is the value of its attribute.
LastPending ==
  \A i \in 1 .. Len(writes) :
    /\ writes[i].char \in Threshold
    /\ \A j \in i + 1 .. Len(writes) : writes[j].char # writes[i].char
    => writes[i].value = thAttr[writes[i].char]

Inv == Types /\ Paired /\ LastPending /\ ThresholdsAgree

-----------------------------------------------------------------------------
(***************************************************************************)
(* Counting WRITE events.                                                  *)
(***************************************************************************)
LEMMA WhereIsFinite ==
  ASSUME NEW q \in Seq(Event)
  PROVE  IsFiniteSet(Where(q)) /\ Cardinality(Where(q)) \in Nat
<1>1. IsFiniteSet(1 .. Len(q)) /\ Where(q) \subseteq 1 .. Len(q)
  BY FS_Interval DEF Where
<1> QED BY <1>1, FS_Subset, FS_CardinalityType

\* An event that is raised counts if it is a WRITE.
LEMMA CountRaised ==
  ASSUME NEW q \in Seq(Event), NEW e \in Event
  PROVE  Cardinality(Where(Append(q, e))) =
           Cardinality(Where(q)) + (IF e = "WRITE" THEN 1 ELSE 0)
<1> DEFINE n == Len(q) + 1
<1>1. n \notin Where(q)
  BY DEF Where
<1>2. CASE e = "WRITE"
  <2>1. Where(Append(q, e)) = Where(q) \cup {n}
    BY <1>2 DEF Where
  <2> QED BY <1>1, <1>2, <2>1, WhereIsFinite, FS_AddElement
<1>3. CASE e # "WRITE"
  <2>1. Where(Append(q, e)) = Where(q)
    BY <1>3 DEF Where
  <2> QED BY <1>3, <2>1, WhereIsFinite
<1> QED BY <1>2, <1>3

\* The one that is delivered was counted; the others move one place up.
LEMMA CountDelivered ==
  ASSUME NEW q \in Seq(Event), q # << >>
  PROVE  /\ Tail(q) \in Seq(Event)
         /\ Cardinality(Where(Tail(q))) =
              Cardinality(Where(q)) - (IF Head(q) = "WRITE" THEN 1 ELSE 0)
<1> DEFINE rest == Where(q) \ {1}
           next == [i \in Where(Tail(q)) |-> i + 1]
<1>1. Tail(q) \in Seq(Event) /\ Len(Tail(q)) = Len(q) - 1
      /\ \A i \in 1 .. Len(q) - 1 : Tail(q)[i] = q[i + 1]
  OBVIOUS
<1>2. next \in Bijection(Where(Tail(q)), rest)
  <2>1. \A i \in Where(Tail(q)) : i \in Nat /\ i + 1 \in rest
    BY <1>1 DEF Where
  <2>2. \A j \in rest : j \in Nat /\ j - 1 \in Where(Tail(q)) /\ next[j - 1] = j
    BY <1>1 DEF Where
  <2>3. next \in Injection(Where(Tail(q)), rest)
    BY <2>1 DEF Injection, IsInjective
  <2>4. next \in Surjection(Where(Tail(q)), rest)
    BY <2>1, <2>2 DEF Surjection
  <2> QED BY <2>3, <2>4 DEF Bijection
<1>3. Cardinality(Where(Tail(q))) = Cardinality(rest)
  <2>1. IsFiniteSet(Where(Tail(q)))
    BY <1>1, WhereIsFinite
  <2>2. ExistsBijection(Where(Tail(q)), rest)
    BY <1>2 DEF ExistsBijection
  <2> HIDE DEF rest
  <2> QED BY <2>1, <2>2, FS_Bijection
<1>4. 1 \in Where(q) <=> Head(q) = "WRITE"
  BY DEF Where
<1> HIDE DEF rest
<1>5. Cardinality(rest) = IF 1 \in Where(q) THEN Cardinality(Where(q)) - 1
                                            ELSE Cardinality(Where(q))
  BY WhereIsFinite, FS_RemoveElement DEF rest
<1> QED BY <1>1, <1>3, <1>4, <1>5, WhereIsFinite

-----------------------------------------------------------------------------
(***************************************************************************)
(* Steps without a write.                                                  *)
(***************************************************************************)
\* Other events come and go without changing what is paired with the writes.
LEMMA OtherEvents ==
  ASSUME Types, Paired, UNCHANGED writes,
         \/ UNCHANGED evts
         \/ \E e \in Event \ {"WRITE"} : evts' = Append(evts, e)
         \/ evts # << >> /\ Head(evts) # "WRITE" /\ evts' = Tail(evts)
  PROVE  evts' \in Seq(Event) /\ Paired'
<1>1. CASE UNCHANGED evts
  BY <1>1 DEF Types, Paired, Where
<1>2. CASE \E e \in Event \ {"WRITE"} : evts' = Append(evts, e)
  <2>1. PICK e \in Event \ {"WRITE"} : evts' = Append(evts, e)
    BY <1>2
  <2>2. Cardinality(Where(evts')) = Cardinality(Where(evts)) + 0
    BY <2>1, CountRaised DEF Types
  <2>3. evts' \in Seq(Event)
    BY <2>1 DEF Types
  <2> QED BY <2>2, <2>3, WhereIsFinite DEF Types, Paired, Where
<1>3. CASE evts # << >> /\ Head(evts) # "WRITE" /\ evts' = Tail(evts)
  <2>1. Cardinality(Where(evts')) = Cardinality(Where(evts)) - 0
    BY <1>3, CountDelivered DEF Types
  <2> QED BY <1>3, <2>1, CountDelivered, WhereIsFinite DEF Types, Paired, Where
<1> QED BY <1>1, <1>2, <1>3

\* A step that leaves both sides of the thresholds alone.
LEMMA ThresholdsRest ==
  ASSUME Inv, UNCHANGED << writes, thAttr, th, ctrlTh >>,
         lost \cap Threshold \subseteq lost', evts' \in Seq(Event) /\ Paired'
  PROVE  Inv'
<1>1. \A c : AwaitsWrite(c)' <=> AwaitsWrite(c)
  BY DEF AwaitsWrite
<1>2. ThresholdsAgree'
  BY <1>1 DEF Inv, ThresholdsAgree
<1> QED BY <1>2 DEF Inv, Types, LastPending

LEMMA MachineStepKeeps == Inv /\ MachineStep => Inv'
<1> SUFFICES ASSUME Inv, MachineStep PROVE Inv'
  OBVIOUS
<1>1. UNCHANGED << writes, thAttr, th, ctrlTh, lost >>
  BY DEF MachineStep, attrVars
<1>2. \/ UNCHANGED evts
      \/ \E e \in Event \ {"WRITE"} : evts' = Append(evts, e)
      \/ evts # << >> /\ Head(evts) # "WRITE" /\ evts' = Tail(evts)
  <2>1. CASE BleEvt \/ PmEvt \/ LinkLost
    BY <2>1 DEF BleEvt, PmEvt, LinkLost, Deliver
  <2>2. CASE ConnParamsFailed \/ SecStart \/ \E press \in {"NORMAL", "LONG"} : Button(press)
    BY <2>2 DEF ConnParamsFailed, SecStart, Button
  <2>3. CASE Connect \/ GattTimeout \/ DeleteEnd
    BY <2>3 DEF Connect, GattTimeout, DeleteEnd, Raise, Event
  <2> QED BY <2>1, <2>2, <2>3 DEF MachineStep
<1> QED BY <1>1, <1>2, OtherEvents, ThresholdsRest DEF Inv

LEMMA LinkEndsKeeps == Inv /\ LinkEnds => Inv'
<1> SUFFICES ASSUME Inv, LinkEnds PROVE Inv'
  OBVIOUS
<1>1. \E e \in Event \ {"WRITE"} : evts' = Append(evts, e)
  BY DEF LinkEnds, EndOfLink, Raise, Event
<1>2. UNCHANGED << writes, thAttr, th, ctrlTh >> /\ lost' = lost \ {"CCCD"}
  BY DEF LinkEnds
<1>3. lost \cap Threshold \subseteq lost'
  BY <1>2 DEF Threshold
<1> QED BY <1>1, <1>2, <1>3, OtherEvents, ThresholdsRest DEF Inv

LEMMA SecuredKeeps == Inv /\ Secured => Inv'
<1> SUFFICES ASSUME Inv, Secured PROVE Inv'
  OBVIOUS
<1>1. \E e \in Event \ {"WRITE"} : evts' = Append(evts, e)
  BY DEF Secured, SecEnd, Raise, Event
<1>2. UNCHANGED << writes, thAttr, th, ctrlTh >> /\ lost \subseteq lost'
  BY DEF Secured
<1> QED BY <1>1, <1>2, OtherEvents, ThresholdsRest DEF Inv

\* What is published, and the end of a notification.
LEMMA PublishKeeps ==
  ASSUME Inv, OtherUpdate \/ HvnTxComplete \/ (\E w \in {"OPEN", "CLOSED"} : Sample(w))
  PROVE  Inv'
<1>1. UNCHANGED << evts, writes, thAttr, th, ctrlTh, lost >>
  BY DEF OtherUpdate, HvnTxComplete, Sample, vars, stackVars
<1> QED BY <1>1, OtherEvents, ThresholdsRest DEF Inv

-----------------------------------------------------------------------------
(***************************************************************************)
(* Writes.                                                                 *)
(***************************************************************************)
LEMMA RaiseWritePairs ==
  ASSUME Types, Paired, NEW d, WrittenOK(d), RaiseWrite(d)
  PROVE  /\ evts' \in Seq(Event) /\ Paired'
         /\ writes' \in Seq(Written) /\ Len(writes') = Len(writes) + 1
         /\ \A i \in 1 .. Len(writes) : writes'[i] = writes[i]
         /\ writes'[Len(writes) + 1] = d
         /\ \A i \in 1 .. Len(writes') : WrittenOK(writes'[i])
<1>1. evts' = Append(evts, "WRITE") /\ writes' = Append(writes, d)
  BY DEF RaiseWrite, Raise
<1>2. d \in Written
  BY DEF WrittenOK
<1>3. /\ writes' \in Seq(Written) /\ Len(writes') = Len(writes) + 1
      /\ \A i \in 1 .. Len(writes) : writes'[i] = writes[i]
      /\ writes'[Len(writes) + 1] = d
  BY <1>1, <1>2 DEF Types
<1>4. evts' \in Seq(Event) /\ Cardinality(Where(evts')) = Cardinality(Where(evts)) + 1
  BY <1>1, CountRaised DEF Types, Event
<1>5. \A i \in 1 .. Len(writes') : WrittenOK(writes'[i])
  BY <1>3 DEF Types
<1>6. Paired'
  BY <1>3, <1>4 DEF Paired, Where
<1> QED BY <1>3, <1>4, <1>5, <1>6

LEMMA WriteThresholdKeeps ==
  ASSUME Inv, NEW c \in Threshold, NEW v \in ThValue, NEW whole \in BOOLEAN,
         WriteThreshold(c, v, whole)
  PROVE  Inv'
<1> DEFINE d == [char |-> c, value |-> v, whole |-> whole]
<1>1. RaiseWrite(d) /\ thAttr' = [thAttr EXCEPT ![c] = v]
      /\ UNCHANGED << th, ctrlTh, lost >>
  BY DEF WriteThreshold
<1>2. WrittenOK(d) /\ d.char = c /\ d.value = v
  BY DEF WrittenOK, Written
<1> HIDE DEF d
<1>3. /\ evts' \in Seq(Event) /\ Paired'
      /\ writes' \in Seq(Written) /\ Len(writes') = Len(writes) + 1
      /\ \A i \in 1 .. Len(writes) : writes'[i] = writes[i]
      /\ writes'[Len(writes) + 1] = d
      /\ \A i \in 1 .. Len(writes') : WrittenOK(writes'[i])
  BY <1>1, <1>2, RaiseWritePairs DEF Inv
<1>4. Len(writes) \in Nat /\ thAttr \in [Threshold -> ThValue]
  BY DEF Inv, Types
<1>5. Types'
  BY <1>1, <1>3, <1>4 DEF Inv, Types
<1>6. LastPending'
  <2> SUFFICES ASSUME NEW i \in 1 .. Len(writes'), writes'[i].char \in Threshold,
                      \A j \in i + 1 .. Len(writes') : writes'[j].char # writes'[i].char
               PROVE  writes'[i].value = thAttr'[writes'[i].char]
    BY DEF LastPending
  <2>1. CASE i = Len(writes) + 1
    BY <1>1, <1>2, <1>3, <1>4, <2>1
  <2>2. CASE i \in 1 .. Len(writes)
    <3>1. Len(writes) + 1 \in i + 1 .. Len(writes')
      BY <1>3, <1>4, <2>2
    <3>2. writes[i].char # c /\ writes'[i] = writes[i]
      BY <1>2, <1>3, <2>2, <3>1
    <3>3. \A j \in i + 1 .. Len(writes) : writes[j].char # writes[i].char
      <4> SUFFICES ASSUME NEW j \in i + 1 .. Len(writes)
                   PROVE  writes[j].char # writes[i].char
        OBVIOUS
      <4>1. j \in 1 .. Len(writes) /\ j \in i + 1 .. Len(writes')
        BY <1>3, <1>4, <2>2
      <4> QED BY <1>3, <3>2, <4>1
    <3>4. writes[i].value = thAttr[writes[i].char]
      BY <2>2, <3>2, <3>3 DEF Inv, LastPending
    <3> QED BY <1>1, <1>4, <3>2, <3>4
  <2> QED BY <1>3, <1>4, <2>1, <2>2
<1>7. ThresholdsAgree'
  <2> SUFFICES ASSUME NEW k \in Threshold \ lost', ~AwaitsWrite(k)'
               PROVE  thAttr'[k] = th'[k] /\ (k = "FF" => ctrlTh' = th'[k])
    BY DEF ThresholdsAgree
  <2>1. k # c
    <3>1. Len(writes) + 1 \in 1 .. Len(writes')
      BY <1>3, <1>4
    <3> QED BY <1>2, <1>3, <3>1 DEF AwaitsWrite
  <2>2. ~AwaitsWrite(k)
    BY <1>3, <1>4 DEF AwaitsWrite
  <2> QED BY <1>1, <1>4, <2>1, <2>2 DEF Inv, ThresholdsAgree
<1> QED BY <1>3, <1>5, <1>6, <1>7 DEF Inv

LEMMA WriteCccdKeeps ==
  ASSUME Inv, NEW b \in BOOLEAN, WriteCccd(b)
  PROVE  Inv'
<1> DEFINE d == [char |-> "CCCD", value |-> b, whole |-> TRUE]
<1>1. RaiseWrite(d) /\ UNCHANGED << thAttr, th, ctrlTh, lost >>
  BY DEF WriteCccd
<1>2. WrittenOK(d) /\ d.char \notin Threshold
  BY DEF WrittenOK, Written, Threshold
<1> HIDE DEF d
<1>3. /\ evts' \in Seq(Event) /\ Paired'
      /\ writes' \in Seq(Written) /\ Len(writes') = Len(writes) + 1
      /\ \A i \in 1 .. Len(writes) : writes'[i] = writes[i]
      /\ writes'[Len(writes) + 1] = d
      /\ \A i \in 1 .. Len(writes') : WrittenOK(writes'[i])
  BY <1>1, <1>2, RaiseWritePairs DEF Inv
<1>4. Len(writes) \in Nat
  BY DEF Inv, Types
<1>5. Types'
  BY <1>1, <1>3 DEF Inv, Types
<1>6. LastPending'
  <2> SUFFICES ASSUME NEW i \in 1 .. Len(writes'), writes'[i].char \in Threshold,
                      \A j \in i + 1 .. Len(writes') : writes'[j].char # writes'[i].char
               PROVE  writes'[i].value = thAttr'[writes'[i].char]
    BY DEF LastPending
  <2>1. i \in 1 .. Len(writes) /\ writes'[i] = writes[i]
    BY <1>2, <1>3, <1>4
  <2>2. \A j \in i + 1 .. Len(writes) : writes[j].char # writes[i].char
    <3> SUFFICES ASSUME NEW j \in i + 1 .. Len(writes)
                 PROVE  writes[j].char # writes[i].char
      OBVIOUS
    <3>1. j \in 1 .. Len(writes) /\ j \in i + 1 .. Len(writes')
      BY <1>3, <1>4, <2>1
    <3> QED BY <1>3, <2>1, <3>1
  <2> QED BY <1>1, <2>1, <2>2 DEF Inv, LastPending
<1>7. ThresholdsAgree'
  <2>1. \A k \in Threshold : AwaitsWrite(k) => AwaitsWrite(k)'
    BY <1>3, <1>4 DEF AwaitsWrite
  <2> QED BY <1>1, <2>1 DEF Inv, ThresholdsAgree
<1> QED BY <1>3, <1>5, <1>6, <1>7 DEF Inv

\* What the delivery of a write leaves pending.
LEMMA WriteDelivered ==
  ASSUME Types, Paired, WriteEvt
  PROVE  /\ evts' \in Seq(Event) /\ Paired'
         /\ writes # << >> /\ Head(writes) = writes[1] /\ WrittenOK(writes[1])
         /\ writes' \in Seq(Written) /\ Len(writes') = Len(writes) - 1
         /\ \A i \in 1 .. Len(writes') : WrittenOK(writes'[i])
         /\ \A i \in 1 .. Len(writes') : i + 1 \in 1 .. Len(writes)
                                         /\ writes'[i] = writes[i + 1]
<1>1. /\ evts # << >> /\ Head(evts) = "WRITE" /\ evts' = Tail(evts)
      /\ writes' = Tail(writes)
  BY DEF WriteEvt, Deliver
<1>2. /\ evts' \in Seq(Event)
      /\ Cardinality(Where(evts')) = Cardinality(Where(evts)) - 1
  BY <1>1, CountDelivered DEF Types
<1>3. Cardinality(Where(evts')) \in Nat
  BY <1>2, WhereIsFinite
<1>4. writes \in Seq(Written) /\ Len(writes) # 0
  BY <1>2, <1>3 DEF Types, Paired
<1>5. /\ writes # << >> /\ Head(writes) = writes[1] /\ 1 \in 1 .. Len(writes)
      /\ writes' \in Seq(Written) /\ Len(writes') = Len(writes) - 1
      /\ \A i \in 1 .. Len(writes') : i + 1 \in 1 .. Len(writes)
                                      /\ writes'[i] = writes[i + 1]
  BY <1>1, <1>4
<1>6. Paired'
  BY <1>2, <1>5 DEF Paired, Where
<1>7. WrittenOK(writes[1]) /\ \A i \in 1 .. Len(writes') : WrittenOK(writes'[i])
  BY <1>5 DEF Types
<1> QED BY <1>2, <1>5, <1>6, <1>7

\* The client of a characteristic takes the value; no attribute changes.
LEMMA WriteHandled ==
  ASSUME Types, NEW d, WrittenOK(d), HandleWriteChar(d)
  PROVE  /\ thAttr' = thAttr
         /\ th' = IF d.char \in Threshold THEN [th EXCEPT ![d.char] = d.value] ELSE th
         /\ ctrlTh' = IF d.char = "FF" THEN d.value ELSE ctrlTh
<1>1. CASE d.char = "FF"
  <2>1. AttrUpdateCb(d.value)
    BY <1>1 DEF HandleWriteChar
  <2> QED BY <1>1, <2>1 DEF AttrUpdateCb, AccCb, Threshold
<1>2. CASE d.char = "WINDOW"
  <2>1. ThresholdSet(d.value)
    BY <1>2 DEF HandleWriteChar
  <2> QED BY <1>2, <2>1 DEF ThresholdSet, Threshold
<1>3. CASE d.char = "CCCD"
  BY <1>3 DEF HandleWriteChar, Threshold
<1> QED BY <1>1, <1>2, <1>3 DEF WrittenOK, Written, Threshold

LEMMA WriteEvtKeeps == Inv /\ WriteEvt => Inv' /\ thAttr' = thAttr
<1> SUFFICES ASSUME Inv, WriteEvt PROVE Inv' /\ thAttr' = thAttr
  OBVIOUS
<1> DEFINE d == writes[1]
<1>1. Types /\ Paired /\ LastPending /\ ThresholdsAgree
  BY DEF Inv
<1>2. /\ evts' \in Seq(Event) /\ Paired'
      /\ writes # << >> /\ Head(writes) = d /\ WrittenOK(d)
      /\ writes' \in Seq(Written) /\ Len(writes') = Len(writes) - 1
      /\ \A i \in 1 .. Len(writes') : WrittenOK(writes'[i])
      /\ \A i \in 1 .. Len(writes') : i + 1 \in 1 .. Len(writes)
                                      /\ writes'[i] = writes[i + 1]
  BY <1>1, WriteDelivered
<1>3. Len(writes) \in Nat \ {0} /\ Len(writes') \in Nat
  BY <1>1, <1>2 DEF Types
<1>4. \/ HandleWriteChar(d) /\ lost' = lost \ MadeGood(d)
      \/ lost' = lost \cup {d.char} /\ UNCHANGED << thAttr, th, ctrlTh >>
  BY <1>2 DEF WriteEvt
<1>5. \/ /\ th' = IF d.char \in Threshold THEN [th EXCEPT ![d.char] = d.value] ELSE th
         /\ ctrlTh' = IF d.char = "FF" THEN d.value ELSE ctrlTh
         /\ lost' = lost \ MadeGood(d) /\ thAttr' = thAttr
      \/ lost' = lost \cup {d.char} /\ UNCHANGED << thAttr, th, ctrlTh >>
  BY <1>1, <1>2, <1>4, WriteHandled
<1>6. \A c : AwaitsWrite(c) => c = d.char \/ AwaitsWrite(c)'
  <2> SUFFICES ASSUME NEW c, AwaitsWrite(c), c # d.char PROVE AwaitsWrite(c)'
    OBVIOUS
  <2>1. PICK i \in 1 .. Len(writes) : writes[i].char = c
    BY DEF AwaitsWrite
  <2>2. i # 1
    BY <2>1
  <2>3. i - 1 \in 1 .. Len(writes') /\ (i - 1) + 1 = i
    BY <1>2, <1>3, <2>2
  <2>4. writes'[i - 1] = writes[i]
    BY <1>2, <2>3
  <2> QED BY <2>1, <2>3, <2>4 DEF AwaitsWrite
<1>7. \A c : AwaitsWrite(c)' => AwaitsWrite(c)
  BY <1>2 DEF AwaitsWrite
<1>8. \A c \in Threshold : c = d.char /\ ~AwaitsWrite(c)' => d.value = thAttr[c]
  <2> SUFFICES ASSUME NEW c \in Threshold, c = d.char, ~AwaitsWrite(c)'
               PROVE  d.value = thAttr[c]
    OBVIOUS
  <2>1. \A j \in 2 .. Len(writes) : writes[j].char # d.char
    <3> SUFFICES ASSUME NEW j \in 2 .. Len(writes) PROVE writes[j].char # d.char
      OBVIOUS
    <3>1. j - 1 \in 1 .. Len(writes') /\ (j - 1) + 1 = j
      BY <1>2, <1>3
    <3>2. writes'[j - 1] = writes[j]
      BY <1>2, <3>1
    <3> QED BY <3>1, <3>2 DEF AwaitsWrite
  <2>2. 1 \in 1 .. Len(writes)
    BY <1>3
  <2> QED BY <1>1, <2>1, <2>2 DEF LastPending
<1> HIDE DEF d
<1>9. Types'
  <2>1. d.char \in Threshold => d.value \in ThValue
    BY <1>2 DEF WrittenOK
  <2>2. d.char = "FF" => d.char \in Threshold
    BY DEF Threshold
  <2> QED BY <1>1, <1>2, <1>5, <2>1, <2>2 DEF Types
<1>10. LastPending'
  <2> SUFFICES ASSUME NEW i \in 1 .. Len(writes'), writes'[i].char \in Threshold,
                      \A j \in i + 1 .. Len(writes') : writes'[j].char # writes'[i].char
               PROVE  writes'[i].value = thAttr'[writes'[i].char]
    BY DEF LastPending
  <2>1. i + 1 \in 1 .. Len(writes) /\ writes'[i] = writes[i + 1]
    BY <1>2
  <2>2. \A j \in (i + 1) + 1 .. Len(writes) : writes[j].char # writes[i + 1].char
    <3> SUFFICES ASSUME NEW j \in (i + 1) + 1 .. Len(writes)
                 PROVE  writes[j].char # writes[i + 1].char
      OBVIOUS
    <3>1. j - 1 \in i + 1 .. Len(writes') /\ j - 1 \in 1 .. Len(writes')
          /\ (j - 1) + 1 = j
      BY <1>2, <1>3, <2>1
    <3>2. writes'[j - 1] = writes[j]
      BY <1>2, <3>1
    <3> QED BY <2>1, <3>1, <3>2
  <2>3. writes[i + 1].value = thAttr[writes[i + 1].char]
    BY <1>1, <2>1, <2>2 DEF LastPending
  <2> QED BY <1>5, <2>1, <2>3
<1>11. ThresholdsAgree'
  <2> SUFFICES ASSUME NEW c \in Threshold \ lost', ~AwaitsWrite(c)'
               PROVE  thAttr'[c] = th'[c] /\ (c = "FF" => ctrlTh' = th'[c])
    BY DEF ThresholdsAgree
  <2>0. thAttr \in [Threshold -> ThValue] /\ th \in [Threshold -> ThValue]
    BY <1>1 DEF Types
  <2>1. CASE c = d.char
    BY <1>5, <1>8, <2>0, <2>1
  <2>2. CASE c # d.char
    <3>1. ~AwaitsWrite(c) /\ c \notin lost
      BY <1>5, <1>6, <2>2 DEF MadeGood
    <3> QED BY <1>1, <1>5, <2>0, <2>2, <3>1 DEF ThresholdsAgree
  <2> QED BY <2>1, <2>2
<1> QED BY <1>2, <1>5, <1>9, <1>10, <1>11 DEF Inv

-----------------------------------------------------------------------------
LEMMA AttrInitInv == AttrInit => Inv
<1> SUFFICES ASSUME AttrInit PROVE Inv
  OBVIOUS
<1>1. evts = << >> /\ writes = << >> /\ thAttr = [c \in Threshold |-> Default]
      /\ th = thAttr /\ ctrlTh = Default
  BY DEF AttrInit, Init
<1>2. Types
  BY <1>1, AttrAssumption DEF Types
<1>3. Paired
  <2>1. Where(evts) = {}
    BY <1>1 DEF Where
  <2> QED BY <1>1, <2>1, FS_EmptySet DEF Paired
<1>4. LastPending
  BY <1>1 DEF LastPending
<1>5. ThresholdsAgree
  BY <1>1 DEF ThresholdsAgree
<1> QED BY <1>2, <1>3, <1>4, <1>5 DEF Inv

\* The last conjunct is WritesNotOverwritten, for the step that could overwrite.
LEMMA AttrStep ==
  Inv /\ [AttrNext]_allVars
    => Inv' /\ (thAttr' # thAttr => Len(writes') > Len(writes))
<1> SUFFICES ASSUME Inv, [AttrNext]_allVars
             PROVE  Inv' /\ (thAttr' # thAttr => Len(writes') > Len(writes))
  OBVIOUS
<1>1. CASE MachineStep
  BY <1>1, MachineStepKeeps DEF MachineStep, attrVars
<1>2. CASE LinkEnds
  BY <1>2, LinkEndsKeeps DEF LinkEnds
<1>3. CASE Secured
  BY <1>3, SecuredKeeps DEF Secured
<1>4. CASE WriteEvt
  BY <1>4, WriteEvtKeeps
<1>5. CASE OtherUpdate \/ HvnTxComplete \/ (\E w \in {"OPEN", "CLOSED"} : Sample(w))
  BY <1>5, PublishKeeps DEF OtherUpdate, HvnTxComplete, Sample
<1>6. CASE \E c \in Threshold, v \in ThValue, whole \in BOOLEAN : WriteThreshold(c, v, whole)
  <2>1. PICK c \in Threshold, v \in ThValue, whole \in BOOLEAN : WriteThreshold(c, v, whole)
    BY <1>6
  <2>2. writes' = Append(writes, [char |-> c, value |-> v, whole |-> whole]) /\ writes \in Seq(Written)
    BY <2>1 DEF WriteThreshold, RaiseWrite, Inv, Types
  <2>3. Len(writes') = Len(writes) + 1 /\ Len(writes) \in Nat
    BY <2>2
  <2> QED BY <2>1, <2>3, WriteThresholdKeeps
<1>7. CASE \E b \in BOOLEAN : WriteCccd(b)
  BY <1>7, WriteCccdKeeps DEF WriteCccd
<1>8. CASE UNCHANGED allVars
  <2>1. UNCHANGED << evts, writes, thAttr, th, ctrlTh, lost >>
    BY <1>8 DEF allVars, attrVars, vars, stackVars
  <2> QED BY <2>1, OtherEvents, ThresholdsRest DEF Inv
<1> QED BY <1>1, <1>2, <1>3, <1>4, <1>5, <1>6, <1>7, <1>8 DEF AttrNext

\* The writes, the attributes and the thresholds in use fit together.
THEOREM Invariance == AttrSpec => []Inv
<1>1. Inv /\ [AttrNext]_allVars => Inv'
  BY AttrStep
<1> QED BY <1>1, AttrInitInv, PTL DEF AttrSpec

\* A threshold a central reads, and has no write of under way, is the one in use.
THEOREM ThresholdsInAgreement == AttrSpec => []ThresholdsAgree
<1>1. Inv => ThresholdsAgree
  BY DEF Inv
<1> QED BY <1>1, Invariance, PTL

\* The firmware does not answer a write with an older threshold.
THEOREM NotOverwritten == AttrSpec => WritesNotOverwritten
<1>1. Inv /\ [AttrNext]_allVars
        => [thAttr' # thAttr => Len(writes') > Len(writes)]_allVars
  BY AttrStep
<1> QED BY <1>1, Invariance, PTL DEF AttrSpec, WritesNotOverwritten

-----------------------------------------------------------------------------
(***************************************************************************)
(* The subscriber.  It is notified because the machine knows of the link   *)
(* (LinkInv, of the connection state machine) and of the wish (Wish).      *)
(***************************************************************************)
\* What the firmware knows, or will when the last write is delivered, of a central
\* that has subscribed.
Wish ==
  cccd /\ "CCCD" \notin lost =>
    /\ ~AwaitsWrite("CCCD") => notify = TRUE
    /\ \A i \in 1 .. Len(writes) :
         /\ writes[i].char = "CCCD"
         /\ \A j \in i + 1 .. Len(writes) : writes[j].char # "CCCD"
         => writes[i].value = TRUE

LEMMA WishRests ==
  ASSUME Wish, UNCHANGED << writes, notify >>,
         cccd' /\ "CCCD" \notin lost' => cccd /\ "CCCD" \notin lost
  PROVE  Wish'
BY DEF Wish, AwaitsWrite

LEMMA RaisedWish ==
  ASSUME Inv, Wish, NEW d, WrittenOK(d), RaiseWrite(d), UNCHANGED << notify, lost >>,
         d.char = "CCCD" => cccd' = d.value,
         d.char # "CCCD" => cccd' = cccd,
         cccd \in BOOLEAN, cccd' \in BOOLEAN
  PROVE  Wish'
<1>1. /\ writes' \in Seq(Written) /\ Len(writes') = Len(writes) + 1
      /\ \A i \in 1 .. Len(writes) : writes'[i] = writes[i]
      /\ writes'[Len(writes) + 1] = d
      /\ Len(writes) \in Nat
  <2>1. Len(writes) \in Nat
    BY DEF Inv, Types
  <2> QED BY <2>1, RaiseWritePairs DEF Inv
<1> SUFFICES ASSUME cccd', "CCCD" \notin lost
             PROVE  /\ ~AwaitsWrite("CCCD")' => notify = TRUE
                    /\ \A i \in 1 .. Len(writes') :
                         /\ writes'[i].char = "CCCD"
                         /\ \A j \in i + 1 .. Len(writes') : writes'[j].char # "CCCD"
                         => writes'[i].value = TRUE
  BY DEF Wish
<1>2. CASE d.char = "CCCD"
  <2>0. d.value = TRUE
    BY <1>2, Zenon
  <2>1. Len(writes) + 1 \in 1 .. Len(writes') /\ d.value = TRUE
    BY <1>1, <2>0
  <2>2. AwaitsWrite("CCCD")'
    BY <1>1, <1>2, <2>1 DEF AwaitsWrite
  <2>3. ASSUME NEW i \in 1 .. Len(writes'),
               \A j \in i + 1 .. Len(writes') : writes'[j].char # "CCCD"
        PROVE  i = Len(writes) + 1
    BY <1>1, <1>2, <2>1, <2>3
  <2> QED BY <1>1, <2>1, <2>2, <2>3
<1>3. CASE d.char # "CCCD"
  <2>1. cccd
    BY <1>3
  <2>2. AwaitsWrite("CCCD") => AwaitsWrite("CCCD")'
    BY <1>1 DEF AwaitsWrite
  <2>3. ASSUME NEW i \in 1 .. Len(writes'), writes'[i].char = "CCCD",
               \A j \in i + 1 .. Len(writes') : writes'[j].char # "CCCD"
        PROVE  writes'[i].value = TRUE
    <3>1. i \in 1 .. Len(writes) /\ writes'[i] = writes[i]
      BY <1>1, <1>3, <2>3
    <3>2. \A j \in i + 1 .. Len(writes) : writes[j].char # "CCCD"
      <4> SUFFICES ASSUME NEW j \in i + 1 .. Len(writes) PROVE writes[j].char # "CCCD"
        OBVIOUS
      <4>1. j \in 1 .. Len(writes) /\ j \in i + 1 .. Len(writes')
        BY <1>1, <3>1
      <4> QED BY <1>1, <2>3, <4>1
    <3> QED BY <2>1, <2>3, <3>1, <3>2 DEF Wish
  <2> QED BY <2>1, <2>2, <2>3 DEF Wish
<1> QED BY <1>2, <1>3

\* A handled write leaves the wish it carried, or the next one in writes.
LEMMA HandledWish ==
  ASSUME Inv, Wish, WriteEvt, cccd \in BOOLEAN
  PROVE  Wish'
<1> DEFINE d == writes[1]
<1>1. /\ writes # << >> /\ Head(writes) = d /\ WrittenOK(d)
      /\ writes' \in Seq(Written) /\ Len(writes') = Len(writes) - 1
      /\ \A i \in 1 .. Len(writes') : i + 1 \in 1 .. Len(writes)
                                      /\ writes'[i] = writes[i + 1]
  BY WriteDelivered DEF Inv
<1>2. Len(writes) \in Nat \ {0} /\ Len(writes') \in Nat /\ 1 \in 1 .. Len(writes)
  <2>1. writes \in Seq(Written)
    BY DEF Inv, Types
  <2> QED BY <1>1, <2>1
<1>3. /\ cccd' = cccd
      /\ \/ /\ lost' = lost \ MadeGood(d)
            /\ notify' = IF d.char = "CCCD" THEN d.value ELSE notify
         \/ lost' = lost \cup {d.char} /\ notify' = notify
  <2>1. \/ HandleWriteChar(d) /\ lost' = lost \ MadeGood(d)
        \/ lost' = lost \cup {d.char} /\ UNCHANGED notify
    BY <1>1 DEF WriteEvt
  <2>2. HandleWriteChar(d) => notify' = IF d.char = "CCCD" THEN d.value ELSE notify
    BY DEF HandleWriteChar, Enabled
  <2> QED BY <2>1, <2>2 DEF WriteEvt
<1>4. \A j \in 2 .. Len(writes) : j - 1 \in 1 .. Len(writes') /\ (j - 1) + 1 = j
                                  /\ writes'[j - 1] = writes[j]
  <2> SUFFICES ASSUME NEW j \in 2 .. Len(writes)
               PROVE  j - 1 \in 1 .. Len(writes') /\ (j - 1) + 1 = j
                      /\ writes'[j - 1] = writes[j]
    OBVIOUS
  <2>1. j - 1 \in 1 .. Len(writes') /\ (j - 1) + 1 = j
    BY <1>1, <1>2
  <2> QED BY <1>1, <2>1
<1> HIDE DEF d
<1>5. AwaitsWrite("CCCD") => d.char = "CCCD" \/ AwaitsWrite("CCCD")'
  <2> SUFFICES ASSUME AwaitsWrite("CCCD"), d.char # "CCCD" PROVE AwaitsWrite("CCCD")'
    OBVIOUS
  <2>1. PICK i \in 1 .. Len(writes) : writes[i].char = "CCCD"
    BY DEF AwaitsWrite
  <2>2. i \in 2 .. Len(writes)
    BY <1>2, <2>1 DEF d
  <2> QED BY <1>4, <2>1, <2>2 DEF AwaitsWrite
<1>6. ~AwaitsWrite("CCCD")' => \A j \in 2 .. Len(writes) : writes[j].char # "CCCD"
  BY <1>4 DEF AwaitsWrite
<1> SUFFICES ASSUME cccd, "CCCD" \notin lost'
             PROVE  /\ ~AwaitsWrite("CCCD")' => notify' = TRUE
                    /\ \A i \in 1 .. Len(writes') :
                         /\ writes'[i].char = "CCCD"
                         /\ \A j \in i + 1 .. Len(writes') : writes'[j].char # "CCCD"
                         => writes'[i].value = TRUE
  BY <1>3 DEF Wish
<1>7. CASE "CCCD" \in lost
  <2>1. d.char = "CCCD" /\ ~AwaitsWrite("CCCD")' /\ d.value /\ notify' = d.value
    BY <1>3, <1>7 DEF MadeGood
  <2>2. d.value \in BOOLEAN => notify' = TRUE
    BY <2>1
  <2> QED BY <2>1, <2>2, <1>1 DEF AwaitsWrite, WrittenOK, Written
<1>8. CASE "CCCD" \notin lost
  <2>1. /\ ~AwaitsWrite("CCCD") => notify = TRUE
        /\ \A i \in 1 .. Len(writes) :
             /\ writes[i].char = "CCCD"
             /\ \A j \in i + 1 .. Len(writes) : writes[j].char # "CCCD"
             => writes[i].value = TRUE
    BY <1>8 DEF Wish
  <2>2. ~AwaitsWrite("CCCD")' => notify' = TRUE
    <3> SUFFICES ASSUME ~AwaitsWrite("CCCD")' PROVE notify' = TRUE
      OBVIOUS
    <3>1. CASE d.char = "CCCD"
      <4>1. d.value = TRUE
        BY <1>2, <1>6, <2>1, <3>1 DEF d
      <4> QED BY <1>3, <3>1, <4>1
    <3>2. CASE d.char # "CCCD"
      BY <1>3, <1>5, <2>1, <3>2
    <3> QED BY <3>1, <3>2
  <2>3. ASSUME NEW i \in 1 .. Len(writes'), writes'[i].char = "CCCD",
               \A j \in i + 1 .. Len(writes') : writes'[j].char # "CCCD"
        PROVE  writes'[i].value = TRUE
    <3>1. i + 1 \in 1 .. Len(writes) /\ writes'[i] = writes[i + 1]
      BY <1>1
    <3>2. \A j \in (i + 1) + 1 .. Len(writes) : writes[j].char # "CCCD"
      <4> SUFFICES ASSUME NEW j \in (i + 1) + 1 .. Len(writes)
                   PROVE  writes[j].char # "CCCD"
        OBVIOUS
      <4>1. j \in 2 .. Len(writes) /\ j - 1 \in i + 1 .. Len(writes')
        BY <1>1, <1>2
      <4> QED BY <1>4, <2>3, <4>1
    <3> QED BY <2>1, <2>3, <3>1, <3>2
  <2> QED BY <2>2, <2>3
<1> QED BY <1>7, <1>8

SubscriberInv == LinkInv /\ Inv /\ Wish /\ cccd \in BOOLEAN

\* A central's write is raised like any event that says nothing of the link.
LEMMA RaiseWriteKnows ==
  ASSUME LinkInv, NEW d, RaiseWrite(d)
  PROVE  LinkInv'
<1>1. /\ Raise("WRITE") /\ evts' = Append(evts, "WRITE")
      /\ UNCHANGED << state, conn, link, adv, sec, bonded, deleting, spoilt >>
  BY DEF RaiseWrite, Raise
<1>2. HandleInv'
  <2>1. evts' \in Seq(Event) /\ Len(evts') <= EvtsMax
    BY <1>1, RaiseKeeps DEF LinkInv, HandleInv, TypeOK, Event
  <2> QED BY <1>1, <2>1 DEF LinkInv, HandleInv, TypeOK, Consistent, Machine
<1>3. Sane(Machine)' /\ OneBegin' /\ Known'
  BY <1>1, RaiseKnows DEF Event, Begin, End
<1> QED BY <1>2, <1>3 DEF LinkInv

LEMMA SubscriberStep == SubscriberInv /\ [AttrNext]_allVars => SubscriberInv'
<1> SUFFICES ASSUME SubscriberInv, [AttrNext]_allVars PROVE SubscriberInv'
  OBVIOUS
<1>0. LinkInv /\ Inv /\ Wish /\ cccd \in BOOLEAN
  BY DEF SubscriberInv
<1>1. Inv'
  BY <1>0, AttrStep
<1>2. CASE MachineStep
  <2>1. LinkInv'
    BY <1>0, <1>2, MachineKnows, StackKnows DEF MachineStep
  <2>2. UNCHANGED << writes, notify, cccd, lost >>
    BY <1>2 DEF MachineStep, attrVars
  <2> QED BY <1>0, <1>1, <2>1, <2>2, WishRests DEF SubscriberInv
<1>3. CASE LinkEnds
  <2>1. LinkInv'
    BY <1>0, <1>3, StackKnows DEF LinkEnds
  <2>2. UNCHANGED << writes, notify >> /\ cccd' = FALSE
    BY <1>3 DEF LinkEnds
  <2> QED BY <1>0, <1>1, <2>1, <2>2, WishRests DEF SubscriberInv
<1>4. CASE Secured
  <2>1. LinkInv'
    BY <1>0, <1>4, StackKnows DEF Secured
  <2>2. UNCHANGED << writes, notify >> /\ cccd' \in BOOLEAN
        /\ lost' = IF cccd' = cccd THEN lost ELSE lost \cup {"CCCD"}
    BY <1>0, <1>4 DEF Secured
  <2> QED BY <1>0, <1>1, <2>1, <2>2, WishRests DEF SubscriberInv
<1>5. CASE WriteEvt
  <2>1. LinkInv' /\ cccd' = cccd
    BY <1>0, <1>5, DeliverKnows DEF WriteEvt, Begin
  <2> QED BY <1>0, <1>1, <1>5, <2>1, HandledWish DEF SubscriberInv
<1>6. CASE OtherUpdate \/ HvnTxComplete \/ (\E w \in {"OPEN", "CLOSED"} : Sample(w))
           \/ UNCHANGED allVars
  <2>1. UNCHANGED << vars, writes, notify, cccd, lost >>
    BY <1>6 DEF OtherUpdate, HvnTxComplete, Sample, allVars, attrVars
  <2>2. LinkInv'
    BY <1>0, <2>1, MachineKnows
  <2> QED BY <1>0, <1>1, <2>1, <2>2, WishRests DEF SubscriberInv
<1>7. CASE \E c \in Threshold, v \in ThValue, whole \in BOOLEAN : WriteThreshold(c, v, whole)
  <2>1. PICK c \in Threshold, v \in ThValue, whole \in BOOLEAN : WriteThreshold(c, v, whole)
    BY <1>7
  <2> DEFINE d == [char |-> c, value |-> v, whole |-> whole]
  <2>2. RaiseWrite(d) /\ UNCHANGED << notify, lost, cccd >>
    BY <2>1 DEF WriteThreshold
  <2>3. WrittenOK(d) /\ d.char # "CCCD"
    BY DEF WrittenOK, Written, Threshold
  <2> HIDE DEF d
  <2> QED BY <1>0, <1>1, <2>2, <2>3, RaiseWriteKnows, RaisedWish DEF SubscriberInv
<1>8. CASE \E b \in BOOLEAN : WriteCccd(b)
  <2>1. PICK b \in BOOLEAN : WriteCccd(b)
    BY <1>8
  <2> DEFINE d == [char |-> "CCCD", value |-> b, whole |-> TRUE]
  <2>2. RaiseWrite(d) /\ UNCHANGED << notify, lost >> /\ cccd' = d.value
        /\ cccd' \in BOOLEAN
    BY <2>1 DEF WriteCccd
  <2>3. WrittenOK(d) /\ d.char = "CCCD"
    BY DEF WrittenOK, Written, Threshold
  <2> HIDE DEF d
  <2> QED BY <1>0, <1>1, <2>2, <2>3, RaiseWriteKnows, RaisedWish DEF SubscriberInv
<1> QED BY <1>2, <1>3, <1>4, <1>5, <1>6, <1>7, <1>8 DEF AttrNext

\* A subscriber of a link whose events are all delivered is notified of the next
\* state of the window, unless its wish was dropped or restored in silence.
THEOREM SubscriberNotified == AttrSpec => SubscriberIsNotified
<1>1. AttrInit => SubscriberInv
  <2> SUFFICES ASSUME AttrInit PROVE SubscriberInv
    OBVIOUS
  <2>1. Init /\ cccd = FALSE
    BY DEF AttrInit
  <2> QED BY <2>1, InitKnows, AttrInitInv DEF SubscriberInv, Wish
<1>2. SubscriberInv /\ [AttrNext]_allVars
        => [window' # window /\ cccd /\ link = "up" /\ evts = << >> /\ ~sending =>
              sending' \/ "CCCD" \in lost]_allVars
  <2> SUFFICES ASSUME SubscriberInv, [AttrNext]_allVars, window' # window, cccd,
                      link = "up", evts = << >>, ~sending, "CCCD" \notin lost
               PROVE  sending'
    OBVIOUS
  <2>1. LinkInv /\ Inv /\ Wish
    BY DEF SubscriberInv
  <2>2. PICK w \in {"OPEN", "CLOSED"} : Sample(w)
    BY DEF AttrNext, MachineStep, LinkEnds, Secured, WriteEvt, OtherUpdate,
           HvnTxComplete, WriteThreshold, WriteCccd, attrVars, allVars
  <2>3. conn = "HANDLE"
    <3>1. state # "ADVERTISING"
      BY <2>1 DEF LinkInv, Known
    <3> QED BY <2>1, <3>1 DEF LinkInv, HandleInv, Consistent, Machine
  <2>4. notify = TRUE
    <3>1. Where(evts) = {}
      BY DEF Where
    <3>2. Len(writes) = 0
      BY <2>1, <3>1, FS_EmptySet DEF Inv, Paired
    <3>3. ~AwaitsWrite("CCCD")
      BY <3>2 DEF AwaitsWrite
    <3> QED BY <2>1, <3>3 DEF Wish
  <2> QED BY <2>2, <2>3, <2>4 DEF Sample, Update, Notifies
<1> QED BY <1>1, <1>2, SubscriberStep, PTL DEF AttrSpec, SubscriberIsNotified

-----------------------------------------------------------------------------
(***************************************************************************)
(* The connection under the attributes.  WRITE events lie between those of *)
(* BlePeripheral and delay them, but the state machine takes no step for   *)
(* one: what holds of the connection alone holds of this composition.      *)
(***************************************************************************)
\* A step of the composition is one of BlePeripheral's, or raises or delivers
\* a WRITE.
LEMMA StepOrWrite ==
  ASSUME [AttrNext]_allVars
  PROVE  [Next]_vars \/ (\E d : RaiseWrite(d)) \/ Deliver("WRITE", "WRITE")
<1>1. CASE MachineStep \/ LinkEnds \/ Secured
  BY <1>1 DEF MachineStep, LinkEnds, Secured, Next, LinkNext
<1>2. CASE WriteEvt
  BY <1>2 DEF WriteEvt
<1>3. CASE OtherUpdate \/ HvnTxComplete \/ (\E w \in {"OPEN", "CLOSED"} : Sample(w))
           \/ UNCHANGED allVars
  BY <1>3 DEF OtherUpdate, HvnTxComplete, Sample, allVars
<1>4. CASE \E c \in Threshold, v \in ThValue, whole \in BOOLEAN : WriteThreshold(c, v, whole)
  <2>1. \E d : RaiseWrite(d)
    BY <1>4 DEF WriteThreshold
  <2> QED BY <2>1
<1>5. CASE \E b \in BOOLEAN : WriteCccd(b)
  <2>1. \E d : RaiseWrite(d)
    BY <1>5 DEF WriteCccd
  <2> QED BY <2>1
<1> QED BY <1>1, <1>2, <1>3, <1>4, <1>5 DEF AttrNext

\* What the machine does with a WRITE: nothing.
LEMMA WriteIgnored ==
  ASSUME LinkInv, Deliver("WRITE", "WRITE")
  PROVE  /\ UNCHANGED << state, conn, link, adv, sec, bonded, deleting, spoilt >>
         /\ evts # << >> /\ Head(evts) = "WRITE" /\ evts' = Tail(evts)
<1>1. state \in State /\ Machine.state = state
  BY DEF LinkInv, HandleInv, Consistent, MachineSet, Machine
<1>2. EvtHandler(Machine, "WRITE") = Machine
  <2>1. /\ ConnectedHandler(Machine, "WRITE") = Machine
        /\ DisconnectedHandler(Machine, "WRITE") = Machine
        /\ AdvertisingHandler(Machine, "WRITE") = Machine
        /\ UnbondingHandler(Machine, "WRITE") = Machine
    BY DEF ConnectedHandler, DisconnectedHandler, AdvertisingHandler, UnbondingHandler
  <2>2. /\ DisconnectingHandler(Machine, "WRITE") = Machine
        /\ BondingHandler(Machine, "WRITE") = Machine
    BY DEF DisconnectingHandler, BondingHandler
  <2>3. ASSUME NEW s \in State, Machine.state = s PROVE EvtHandler(Machine, "WRITE") = Machine
    <3>1. CASE s = "CONNECTED"
      BY <2>1, <2>3, <3>1 DEF EvtHandler
    <3>2. CASE s = "DISCONNECTED"
      BY <2>1, <2>3, <3>2 DEF EvtHandler
    <3>3. CASE s = "DISCONNECTING"
      BY <2>2, <2>3, <3>3 DEF EvtHandler
    <3>4. CASE s = "ADVERTISING"
      BY <2>1, <2>3, <3>4 DEF EvtHandler
    <3>5. CASE s = "BONDING"
      BY <2>2, <2>3, <3>5 DEF EvtHandler
    <3>6. CASE s = "UNBONDING"
      BY <2>1, <2>3, <3>6 DEF EvtHandler
    <3> QED BY <3>1, <3>2, <3>3, <3>4, <3>5, <3>6 DEF State
  <2> QED BY <1>1, <2>3
<1>3. /\ evts # << >> /\ Head(evts) = "WRITE" /\ evts' = Tail(evts)
      /\ Becomes(EvtHandler(Machine, "WRITE")) /\ UNCHANGED spoilt
  BY DEF Deliver, LinkInv, HandleInv, TypeOK
<1>4. Becomes(Machine)
  BY <1>2, <1>3
<1> QED BY <1>3, <1>4 DEF Becomes, Machine

\* The events other than WRITE stay in their order.
LEMMA WriteShifts ==
  ASSUME evts \in Seq(Event), evts # << >>, Head(evts) = "WRITE", evts' = Tail(evts)
  PROVE  /\ \A i \in 1 .. Len(evts') : i + 1 \in 1 .. Len(evts) /\ evts'[i] = evts[i + 1]
         /\ \A S : "WRITE" \notin S /\ (\E i \in 1 .. Len(evts) : evts[i] \in S)
                     => \E i \in 1 .. Len(evts') : evts'[i] \in S
<1>1. /\ Len(evts') = Len(evts) - 1 /\ Len(evts) \in Nat \ {0}
      /\ Head(evts) = evts[1]
      /\ \A i \in 1 .. Len(evts') : i + 1 \in 1 .. Len(evts) /\ evts'[i] = evts[i + 1]
  BY TailShifts
<1>2. ASSUME NEW S, "WRITE" \notin S, NEW i \in 1 .. Len(evts), evts[i] \in S
      PROVE  \E j \in 1 .. Len(evts') : evts'[j] \in S
  <2>1. i # 1
    BY <1>1, <1>2
  <2>2. i - 1 \in 1 .. Len(evts') /\ (i - 1) + 1 = i
    BY <1>1, <2>1
  <2> QED BY <1>1, <1>2, <2>2
<1> QED BY <1>1, <1>2

\* A WRITE that is delivered keeps the invariants of the connection.
LEMMA WriteDeliveryEnds ==
  ASSUME EndInv, Deliver("WRITE", "WRITE")
  PROVE  EndInv' /\ (SilenceInv => SilenceInv')
<1>1. /\ UNCHANGED << state, conn, link, adv, sec, bonded, deleting, spoilt >>
      /\ evts # << >> /\ Head(evts) = "WRITE" /\ evts' = Tail(evts)
  BY WriteIgnored DEF EndInv
<1>2. evts \in Seq(Event)
  BY DEF EndInv, LinkInv, HandleInv, TypeOK
<1>3. /\ \A i \in 1 .. Len(evts') : i + 1 \in 1 .. Len(evts) /\ evts'[i] = evts[i + 1]
      /\ \A S : "WRITE" \notin S /\ (\E i \in 1 .. Len(evts) : evts[i] \in S)
                  => \E i \in 1 .. Len(evts') : evts'[i] \in S
  BY <1>1, <1>2, WriteShifts
<1>4. LinkInv'
  BY DeliverKnows DEF EndInv, Begin
<1>5. EndFollows'
  BY <1>1, TailFollows
<1>6. "WRITE" \notin End /\ "WRITE" \notin Begin
  BY DEF End, Begin
<1>7. (\E i \in 1 .. Len(evts) : evts[i] \in End) =>
        \E i \in 1 .. Len(evts') : evts'[i] \in End
  BY <1>3, <1>6
<1>8. EndComes'
  BY <1>1, <1>7 DEF EndInv, EndComes
<1>9. DeletionKnown => DeletionKnown'
  <2> SUFFICES ASSUME DeletionKnown PROVE DeletionKnown'
    OBVIOUS
  <2>1. deleting' => state' = "UNBONDING" /\ bonded'
    BY <1>1 DEF DeletionKnown
  <2>2. \A i \in 1 .. Len(evts') :
          /\ evts'[i] \in Deletion => state' \in {"UNBONDING", "ADVERTISING"}
          /\ evts'[i] = "PEERS_DELETE_SUCCEEDED" /\ state' = "UNBONDING" => ~bonded'
    BY <1>1, <1>3 DEF DeletionKnown
  <2>3. ASSUME NEW i \in 1 .. Len(evts'), NEW j \in 1 .. Len(evts'),
               evts'[i] \in Deletion, evts'[j] = "CONNECTED"
        PROVE  i < j
    <3>1. i + 1 < j + 1
      BY <1>3, <2>3 DEF DeletionKnown
    <3> QED BY <3>1
  <2> QED BY <2>1, <2>2, <2>3 DEF DeletionKnown
<1>10. EndInv'
  BY <1>1, <1>4, <1>5, <1>8, <1>9 DEF EndInv
<1>11. ASSUME SilenceInv PROVE SilenceInv'
  <2>1. (\E i \in 1 .. Len(evts) : evts[i] \in Begin) =>
          \E i \in 1 .. Len(evts') : evts'[i] \in Begin
    BY <1>3, <1>6
  <2> QED BY <1>1, <1>3, <1>7, <1>10, <1>11, <2>1 DEF SilenceInv, NeverUnbonds
<1> QED BY <1>10, <1>11

\* So does one that is raised.
LEMMA WriteRaisedEnds ==
  ASSUME EndInv, NEW d, RaiseWrite(d)
  PROVE  EndInv' /\ (SilenceInv => SilenceInv')
<1>1. /\ evts' = Append(evts, "WRITE") /\ link = "up"
      /\ UNCHANGED << state, conn, link, adv, sec, bonded, deleting, spoilt >>
  BY DEF RaiseWrite, Raise
<1>2. LinkInv'
  BY RaiseWriteKnows DEF EndInv
<1>3. "WRITE" \in Event \ (Deletion \cup {"CONNECTED"}) /\ "WRITE" \notin End
  BY DEF Event, Deletion, End
<1>4. EndFollows' /\ EndComes' /\ (spoilt' \/ DeletionKnown')
  BY <1>1, <1>3, RaiseEnds
<1>5. EndInv'
  BY <1>2, <1>4 DEF EndInv
<1>6. ASSUME SilenceInv PROVE SilenceInv'
  <2>1. /\ Len(evts) \in Nat /\ Len(evts') = Len(evts) + 1
        /\ evts'[Len(evts) + 1] = "WRITE"
        /\ \A i \in 1 .. Len(evts) : evts'[i] = evts[i]
    BY <1>1, <1>3, AppendEnds DEF EndInv, LinkInv, HandleInv, TypeOK
  <2>2. \A i \in 1 .. Len(evts') : i = Len(evts) + 1 \/ i \in 1 .. Len(evts)
    BY <2>1
  <2>3. \A i \in 1 .. Len(evts) : i \in 1 .. Len(evts')
    BY <2>1
  <2> QED BY <1>1, <1>3, <1>5, <1>6, <2>1, <2>2, <2>3 DEF SilenceInv, NeverUnbonds
<1> QED BY <1>5, <1>6

\* The invariants of the connection hold under its attributes, too.
LEMMA ConnectionStep ==
  ASSUME EndInv, [AttrNext]_allVars
  PROVE  EndInv' /\ (NoUnbond /\ SilenceInv => SilenceInv')
<1>1. CASE [Next]_vars
  BY <1>1, StepEnds, StepAdvertises
<1>2. CASE \E d : RaiseWrite(d)
  BY <1>2, WriteRaisedEnds
<1>3. CASE Deliver("WRITE", "WRITE")
  BY <1>3, WriteDeliveryEnds
<1> QED BY <1>1, <1>2, <1>3, StepOrWrite

\* However many WRITE events delay those of the link: the handle follows the
\* state, the machine never rests in DISCONNECTED, a link is known, and
\* CONNECTED with every event delivered has one.
THEOREM ConnectionKept ==
  AttrSpec => [](/\ HandleFollowsState /\ NeverRestsDisconnected
                 /\ LinkIsKnown /\ ConnectedHasLink)
<1>1. AttrInit => EndInv
  BY InitEnds DEF AttrInit
<1>2. EndInv /\ [AttrNext]_allVars => EndInv'
  BY ConnectionStep
<1>3. EndInv => HandleFollowsState /\ NeverRestsDisconnected /\ LinkIsKnown /\ ConnectedHasLink
  <2> SUFFICES ASSUME EndInv
               PROVE  HandleFollowsState /\ NeverRestsDisconnected /\ LinkIsKnown
                      /\ ConnectedHasLink
    OBVIOUS
  <2>1. LinkInv /\ HandleInv /\ Consistent(Machine) /\ Machine.state = state
        /\ Machine.conn = conn /\ Sane(Machine) /\ Machine.adv = adv /\ Machine.link = link
    BY DEF EndInv, LinkInv, HandleInv, Machine
  <2>2. HandleFollowsState /\ NeverRestsDisconnected
    BY <2>1 DEF Consistent, HandleFollowsState, NeverRestsDisconnected
  <2>3. evts = << >> => \A i \in 1 .. Len(evts) : FALSE
    OBVIOUS
  <2>4. LinkIsKnown
    BY <2>1, <2>3 DEF LinkInv, Known, Sane, LinkIsKnown
  <2>5. ConnectedHasLink
    BY <2>3 DEF EndInv, EndComes, ConnectedHasLink
  <2> QED BY <2>2, <2>4, <2>5
<1> QED BY <1>1, <1>2, <1>3, PTL DEF AttrSpec

\* A central that writes and subscribes as it likes never silences the node:
\* without a link it advertises, hears of what makes it, or waits in BONDING.
THEOREM WritesSilenceNothing == ASSUME NoUnbond PROVE AttrSpec => []NeverSilent
<1>1. AttrInit => SilenceInv
  BY InitAdvertises DEF AttrInit
<1>2. SilenceInv /\ [AttrNext]_allVars => SilenceInv'
  BY ConnectionStep DEF SilenceInv
<1>3. SilenceInv => NeverSilent
  BY SilenceTells
<1> QED BY <1>1, <1>2, <1>3, PTL DEF AttrSpec

\* A handle without a link: the end of the link is still to be heard, or never
\* will be in BONDING.
LEMMA HandleWithoutLink ==
  ASSUME SilenceInv, conn = "HANDLE", link = "none"
  PROVE  EndUnheard
<1>1. /\ Consistent(Machine) /\ Machine.state = state /\ Machine.conn = conn
      /\ state \in State
  BY DEF SilenceInv, EndInv, LinkInv, HandleInv, TypeOK, Machine
<1>2. state \in {"CONNECTED", "DISCONNECTING", "BONDING"}
  BY <1>1 DEF Consistent, State, SilenceInv, NeverUnbonds
<1>3. CASE state = "CONNECTED"
  BY <1>3 DEF SilenceInv, NeverUnbonds, EndInv, EndComes, End, EndUnheard
<1>4. CASE state = "DISCONNECTING"
  BY <1>4 DEF SilenceInv, End, EndUnheard
<1>5. CASE state = "BONDING"
  BY <1>5 DEF EndUnheard
<1> QED BY <1>2, <1>3, <1>4, <1>5

\* A new state of the window is published at once.  Only a handle that outlives
\* its link has the update refused, and, with the clients of this firmware, the
\* end of that link is on its way to the machine, or the machine is in BONDING.
THEOREM WindowIsReadable == ASSUME NoUnbond PROVE AttrSpec => WindowReadable
<1>1. AttrInit => SilenceInv
  BY InitAdvertises DEF AttrInit
<1>2. SilenceInv /\ [AttrNext]_allVars => SilenceInv'
  BY ConnectionStep DEF SilenceInv
<1>3. SilenceInv /\ [AttrNext]_allVars
        => [/\ winAttr' # winAttr => winAttr' = window'
            /\ window' # window => winAttr' = window' \/ EndUnheard]_allVars
  <2> DEFINE Readable == /\ winAttr' # winAttr => winAttr' = window'
                         /\ window' # window => winAttr' = window' \/ EndUnheard
  <2> SUFFICES ASSUME SilenceInv, [AttrNext]_allVars PROVE Readable
    OBVIOUS
  <2>1. CASE \E w \in {"OPEN", "CLOSED"} : Sample(w)
    <3>1. PICK w \in {"OPEN", "CLOSED"} : Sample(w)
      BY <2>1
    <3>2. CASE Notifies /\ link = "none"
      <4>1. winAttr' = winAttr /\ EndUnheard
        BY <3>1, <3>2, HandleWithoutLink DEF Sample, Update, Notifies
      <4> QED BY <4>1
    <3>3. CASE ~(Notifies /\ link = "none")
      <4>1. winAttr' = w /\ window' = w
        BY <3>1, <3>3 DEF Sample, Update
      <4> QED BY <4>1
    <3> QED BY <3>2, <3>3
  <2>2. CASE WriteEvt
    <3>1. window' = window /\ (winAttr' = winAttr \/ Update(window))
      BY <2>2 DEF WriteEvt, HandleWriteChar, ThresholdSet
    <3> QED BY <3>1 DEF Update
  <2>3. CASE UNCHANGED << window, winAttr >>
    BY <2>3
  <2>4. CASE MachineStep \/ LinkEnds \/ Secured \/ OtherUpdate \/ HvnTxComplete
             \/ UNCHANGED allVars
    BY <2>3, <2>4 DEF MachineStep, LinkEnds, Secured, OtherUpdate, HvnTxComplete,
                      attrVars, allVars
  <2>5. CASE \/ \E c \in Threshold, v \in ThValue, whole \in BOOLEAN :
                   WriteThreshold(c, v, whole)
             \/ \E b \in BOOLEAN : WriteCccd(b)
    BY <2>3, <2>5 DEF WriteThreshold, WriteCccd
  <2> QED BY <2>1, <2>2, <2>4, <2>5 DEF AttrNext
<1> QED BY <1>1, <1>2, <1>3, PTL DEF AttrSpec, WindowReadable
=============================================================================
