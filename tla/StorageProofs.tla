---------------------------- MODULE StorageProofs ----------------------------
(***************************************************************************)
(* Theorems about the buffers of storage.c, for every number of buffers,   *)
(* keys, values, failures and resets.                                      *)
(*                                                                         *)
(* NoBufferLeaks alone is not inductive: the completion frees by key, so   *)
(* the write that is to free a buffer must have the key the buffer has     *)
(* (Owned).  HeldUntilCallback needs that the pending writes have different*)
(* keys (OneEach), which is what clients that await each write see to.     *)
(* ReadsBack speaks of records; FlashInv says in addition what the running *)
(* operation has done so far and what the waiting ones will find.          *)
(***************************************************************************)
EXTENDS Storage, TLAPS

Writes == {i \in 1 .. Len(ops) : ops[i].kind # "gc"}

\* A reserved buffer has a pending write with its place and its key.
Owned ==
  \A s \in Slot : buffer[s].used =>
    \E i \in Writes : ops[i].slot = s /\ ops[i].key = buffer[s].key

\* No two pending writes have one key.
OneEach == \A i, j \in Writes : ops[i].key = ops[j].key => i = j

\* A pending write has a buffer, and that holds some value a client gave.
HasBuffer ==
  \A i \in Writes : /\ ops[i].slot \in Slot /\ ops[i].key \in Key
                    /\ ops[i].data \in Value /\ buffer[ops[i].slot].data \in Value

StorageInv ==
  /\ TypeOK
  /\ HasBuffer
  /\ \A r \in flash : r.data \in Value
  /\ Owned
  /\ OneAtATime => OneEach /\ HeldUntilCallback

-----------------------------------------------------------------------------
LEMMA AppendOp ==
  ASSUME ops \in Seq(Op), NEW o \in Op, ops' = Append(ops, o)
  PROVE  /\ ops' \in Seq(Op) /\ Len(ops') = Len(ops) + 1
         /\ \A i \in 1 .. Len(ops) : ops'[i] = ops[i]
         /\ ops'[Len(ops) + 1] = o
OBVIOUS

LEMMA DropOp ==
  ASSUME ops \in Seq(Op), ops # << >>, ops' = Tail(ops)
  PROVE  /\ ops' \in Seq(Op) /\ Len(ops') = Len(ops) - 1 /\ Len(ops) \in Nat
         /\ \A i \in 1 .. Len(ops) - 1 : ops'[i] = ops[i + 1]
OBVIOUS

\* What the completion handler leaves in the queue of FDS: the other
\* operations, one place further on, and perhaps a garbage collection.
LEMMA EventMovesOps ==
  ASSUME StorageInv, ops # << >>, FdsEventHandler
  PROVE  /\ ops' \in Seq(Op) /\ Len(ops') \in Nat /\ Len(ops') <= QueueSize
         /\ \A i \in 1 .. Len(ops) - 1 : i \in 1 .. Len(ops') /\ ops'[i] = ops[i + 1]
         /\ \A i \in 1 .. Len(ops') : i \notin 1 .. Len(ops) - 1 => ops'[i] = Gc
<1> DEFINE t == Tail(ops)
<1>1. /\ t \in Seq(Op) /\ Len(t) = Len(ops) - 1 /\ Len(ops) \in Nat \ {0}
      /\ \A i \in 1 .. Len(t) : t[i] = ops[i + 1]
  BY DEF StorageInv, TypeOK
<1>2. Len(ops) <= QueueSize /\ QueueSize \in Nat
  BY StorageAssumption DEF StorageInv, TypeOK
<1>3. Gc \in Op
  BY DEF Gc, Op
<1>4. ops' = t \/ ops' = Append(t, Gc)
  BY DEF FdsEventHandler
<1> HIDE DEF t
<1>5. CASE ops' = t
  BY <1>1, <1>2, <1>5
<1>6. CASE ops' = Append(t, Gc)
  <2>1. /\ ops' \in Seq(Op) /\ Len(ops') = Len(t) + 1 /\ ops'[Len(t) + 1] = Gc
        /\ \A i \in 1 .. Len(t) : ops'[i] = t[i]
    BY <1>1, <1>3, <1>6
  <2> QED BY <1>1, <1>2, <2>1
<1> QED BY <1>4, <1>5, <1>6

\* When an operation leaves the queue the pending writes move up one place.
LEMMA WritesMoveUp ==
  ASSUME StorageInv, ops # << >>, FdsEventHandler \/ EndGc
  PROVE  \A i \in Writes' : /\ i \in 1 .. Len(ops) - 1
                            /\ i + 1 \in Writes /\ ops'[i] = ops[i + 1]
<1>1. ops \in Seq(Op) /\ Len(ops) \in Nat \ {0}
  BY DEF StorageInv, TypeOK
<1>2. \A i \in Writes' : i \in 1 .. Len(ops) - 1 /\ ops'[i] = ops[i + 1]
  <2>1. CASE FdsEventHandler
    BY <2>1, EventMovesOps DEF Writes, Gc
  <2>2. CASE EndGc
    BY <1>1, <2>2, DropOp DEF EndGc, Writes
  <2> QED BY <2>1, <2>2
<1> QED
  <2> SUFFICES ASSUME NEW i \in Writes' PROVE i + 1 \in Writes
    BY <1>2
  <2>1. i \in 1 .. Len(ops) - 1 /\ ops'[i] = ops[i + 1] /\ ops'[i].kind # "gc"
    BY <1>2 DEF Writes
  <2>2. i + 1 \in 1 .. Len(ops)
    BY <1>1, <2>1
  <2> QED BY <2>1, <2>2 DEF Writes

\* The completion handler frees the buffer of the write that has ended, and no
\* other as long as the keys of the pending writes differ.
LEMMA EventKeeps ==
  ASSUME StorageInv, ops # << >>, Head(ops).kind # "gc", FdsEventHandler
  PROVE  /\ buffer' \in [Slot -> Buffer]
         /\ HasBuffer'
         /\ Owned'
         /\ OneAtATime => OneEach' /\ HeldUntilCallback'
<1> DEFINE k == Head(ops).key
<1>1. /\ ops \in Seq(Op) /\ Len(ops) \in Nat \ {0} /\ Head(ops) = ops[1]
      /\ 1 \in Writes /\ buffer \in [Slot -> Buffer]
  BY DEF StorageInv, TypeOK, Writes
<1>2. \A i \in Writes' : i \in 1 .. Len(ops) - 1 /\ i + 1 \in Writes /\ ops'[i] = ops[i + 1]
  BY WritesMoveUp
<1>3. \A i \in Writes : i # 1 => i - 1 \in Writes' /\ ops'[i - 1] = ops[i]
  <2> SUFFICES ASSUME NEW i \in Writes, i # 1
               PROVE  i - 1 \in Writes' /\ ops'[i - 1] = ops[i]
    OBVIOUS
  <2>1. i \in 1 .. Len(ops) /\ i - 1 \in 1 .. Len(ops) - 1 /\ (i - 1) + 1 = i
    BY <1>1 DEF Writes
  <2>2. i - 1 \in 1 .. Len(ops') /\ ops'[i - 1] = ops[i]
    BY <2>1, EventMovesOps
  <2> QED BY <2>2 DEF Writes
<1>4. \A s \in Slot :
        buffer'[s] = IF buffer[s].key = k THEN [buffer[s] EXCEPT !.used = FALSE]
                                          ELSE buffer[s]
  BY DEF FdsEventHandler, Freed
<1>5. buffer' \in [Slot -> Buffer]
  <2>1. \A s \in Slot : [buffer[s] EXCEPT !.used = FALSE] \in Buffer
    BY <1>1 DEF Buffer
  <2> QED BY <1>1, <2>1 DEF FdsEventHandler, Freed
<1>6. \A s \in Slot : buffer'[s].used => buffer[s].key # k /\ buffer'[s] = buffer[s]
  <2> SUFFICES ASSUME NEW s \in Slot, buffer'[s].used, buffer[s].key = k PROVE FALSE
    BY <1>4
  <2>1. buffer'[s] = [buffer[s] EXCEPT !.used = FALSE]
    BY <1>4
  <2> QED BY <1>1, <2>1 DEF Buffer
<1>7. Owned'
  <2> SUFFICES ASSUME NEW s \in Slot, buffer'[s].used
               PROVE  \E i \in Writes' : ops'[i].slot = s /\ ops'[i].key = buffer'[s].key
    BY DEF Owned
  <2>1. buffer'[s] = buffer[s] /\ buffer[s].key # k
    BY <1>6
  <2>2. PICK i \in Writes : ops[i].slot = s /\ ops[i].key = buffer[s].key
    BY <2>1 DEF StorageInv, Owned
  <2>3. i # 1
    BY <1>1, <2>1, <2>2
  <2> QED BY <1>3, <2>1, <2>2, <2>3
<1>8. ASSUME OneAtATime PROVE OneEach'
  <2> SUFFICES ASSUME NEW i \in Writes', NEW j \in Writes', ops'[i].key = ops'[j].key
               PROVE  i = j
    BY DEF OneEach
  <2>1. i + 1 \in Writes /\ j + 1 \in Writes /\ ops[i + 1].key = ops[j + 1].key
    BY <1>2
  <2>2. i + 1 = j + 1
    BY <1>8, <2>1 DEF StorageInv, OneEach
  <2>3. i \in 1 .. Len(ops) - 1 /\ j \in 1 .. Len(ops) - 1
    BY <1>2
  <2> QED BY <1>1, <2>2, <2>3
<1>9. ASSUME OneAtATime PROVE HeldUntilCallback'
  <2> SUFFICES ASSUME NEW i \in 1 .. Len(ops'), ops'[i].kind # "gc"
               PROVE  buffer'[ops'[i].slot] =
                        [key |-> ops'[i].key, data |-> ops'[i].data, used |-> TRUE]
    BY DEF HeldUntilCallback
  <2> DEFINE o == ops[i + 1]
  <2>1. i + 1 \in Writes /\ ops'[i] = o /\ i \in 1 .. Len(ops) - 1
    BY <1>2 DEF Writes
  <2>2. o.key # k
    <3>1. i + 1 # 1
      BY <1>1, <2>1
    <3> QED BY <1>1, <1>9, <2>1, <3>1 DEF StorageInv, OneEach
  <2>3. /\ o.slot \in Slot
        /\ buffer[o.slot] = [key |-> o.key, data |-> o.data, used |-> TRUE]
    BY <1>9, <2>1 DEF StorageInv, HasBuffer, HeldUntilCallback, Writes
  <2> HIDE DEF o, k
  <2>4. buffer[o.slot].key # k
    BY <2>2, <2>3
  <2>5. buffer'[o.slot] = buffer[o.slot]
    BY <1>4, <2>3, <2>4
  <2> QED BY <2>1, <2>3, <2>5
<1>10. HasBuffer'
  <2>1. \A s \in Slot : buffer'[s].data = buffer[s].data
    BY <1>1, <1>4 DEF Buffer
  <2> QED BY <1>2, <2>1 DEF StorageInv, HasBuffer
<1> QED BY <1>5, <1>7, <1>8, <1>9, <1>10

-----------------------------------------------------------------------------
\* A write that is accepted takes the first free buffer, one refused takes none.
LEMMA WriteKeeps ==
  ASSUME StorageInv, NEW k \in Key, NEW v \in Value, Write(k, v)
  PROVE  StorageInv'
<1>0. /\ ops \in Seq(Op) /\ Len(ops) \in Nat /\ Len(ops) <= QueueSize
      /\ buffer \in [Slot -> Buffer] /\ QueueSize \in Nat
  BY StorageAssumption DEF StorageInv, TypeOK
<1>1. PICK i \in Slot : /\ ~buffer[i].used
                        /\ buffer' = Filled(i, k, v)
                        /\ \/ ~Accepts /\ UNCHANGED ops
                           \/ /\ Accepts
                              /\ \E o \in Op : /\ o.kind # "gc" /\ o.key = k
                                              /\ o.slot = i /\ o.data = v
                                              /\ ops' = Append(ops, o)
  <2>1. PICK i \in Slot :
          /\ FirstFree(i)
          /\ buffer' = Filled(i, k, v)
          /\ \/ ~Accepts /\ UNCHANGED ops
             \/ /\ Accepts
                /\ ops' = Append(ops, [kind |-> "write", key |-> k, slot |-> i,
                                       old |-> 0, data |-> v])
             \/ \E r \in Found(k) :
                  /\ Accepts
                  /\ ops' = Append(ops, [kind |-> "update", key |-> k, slot |-> i,
                                         old |-> r.id, data |-> v])
    BY DEF Write
  <2>2. i \in Nat
    BY <1>0 DEF Slot
  <2>3. [kind |-> "write", key |-> k, slot |-> i, old |-> 0, data |-> v] \in Op
    BY <2>2 DEF Op
  <2>4. \A r \in Found(k) :
          [kind |-> "update", key |-> k, slot |-> i, old |-> r.id, data |-> v] \in Op
    BY <2>2 DEF Op, Found, StorageInv, TypeOK, Record
  <2>5. ~buffer[i].used
    BY <2>1 DEF FirstFree
  <2> QED BY <2>1, <2>3, <2>4, <2>5
<1>2. /\ UNCHANGED << mounted, written, flash, nextId, fails, resets, stable, torn >>
      /\ OneAtATime => ~Pending(k)
  BY DEF Write
<1>3. buffer' \in [Slot -> Buffer]
  BY <1>0, <1>1 DEF Filled, Buffer, Accepts, StorageInv, TypeOK
<1>4. \A s \in Slot : s # i => buffer'[s] = buffer[s]
  BY <1>0, <1>1 DEF Filled
<1>5. buffer'[i] = [key |-> k, data |-> v, used |-> Accepts]
  BY <1>0, <1>1 DEF Filled
\* No pending write has the buffer that was found free.
<1>6. ASSUME OneAtATime PROVE \A j \in Writes : ops[j].slot # i
  <2> SUFFICES ASSUME NEW j \in Writes, ops[j].slot = i PROVE FALSE
    OBVIOUS
  <2>1. buffer[i] = [key |-> ops[j].key, data |-> ops[j].data, used |-> TRUE]
    BY <1>6 DEF StorageInv, HeldUntilCallback, Writes
  <2>2. buffer[i].used
    BY <2>1
  <2> QED BY <1>1, <2>2
<1>7. CASE ~Accepts /\ UNCHANGED ops
  <2>1. Writes' = Writes
    BY <1>7 DEF Writes
  <2>2. Owned'
    <3> SUFFICES ASSUME NEW s \in Slot, buffer'[s].used
                 PROVE  \E j \in Writes : ops[j].slot = s /\ ops[j].key = buffer'[s].key
      BY <1>7, <2>1 DEF Owned
    <3>1. s # i
      BY <1>5, <1>7
    <3> QED BY <1>4, <3>1 DEF StorageInv, Owned
  <2>3. ASSUME OneAtATime PROVE HeldUntilCallback'
    <3> SUFFICES ASSUME NEW j \in 1 .. Len(ops), ops[j].kind # "gc"
                 PROVE  buffer'[ops[j].slot] =
                          [key |-> ops[j].key, data |-> ops[j].data, used |-> TRUE]
      BY <1>7 DEF HeldUntilCallback
    <3>1. ops[j].slot \in Slot /\ ops[j].slot # i
      BY <1>6, <2>3 DEF StorageInv, HasBuffer, Writes
    <3> QED BY <1>4, <2>3, <3>1 DEF StorageInv, HeldUntilCallback
  <2>4. OneAtATime => OneEach'
    BY <1>7, <2>1 DEF StorageInv, OneEach
  <2>5. TypeOK'
    BY <1>2, <1>3, <1>7 DEF StorageInv, TypeOK
  <2>6. HasBuffer'
    BY <1>4, <1>5, <1>7, <2>1 DEF StorageInv, HasBuffer
  <2> QED BY <1>2, <2>2, <2>3, <2>4, <2>5, <2>6 DEF StorageInv
<1>8. CASE Accepts /\ \E o \in Op : /\ o.kind # "gc" /\ o.key = k /\ o.slot = i
                                    /\ o.data = v /\ ops' = Append(ops, o)
  <2>1. PICK o \in Op : /\ o.kind # "gc" /\ o.key = k /\ o.slot = i /\ o.data = v
                        /\ ops' = Append(ops, o)
    BY <1>8
  <2> DEFINE n == Len(ops) + 1
  <2>2. /\ ops' \in Seq(Op) /\ Len(ops') = n /\ ops'[n] = o
        /\ \A j \in 1 .. Len(ops) : ops'[j] = ops[j]
    BY <1>0, <2>1, AppendOp
  <2>3. /\ n \in Writes' /\ n \notin Writes
        /\ \A j \in Writes : j \in Writes' /\ ops'[j] = ops[j]
        /\ \A j \in Writes' : j # n => j \in Writes /\ ops'[j] = ops[j]
    BY <1>0, <2>1, <2>2 DEF Writes
  <2> HIDE DEF n
  <2>4. Owned'
    <3> SUFFICES ASSUME NEW s \in Slot, buffer'[s].used
                 PROVE  \E j \in Writes' : ops'[j].slot = s /\ ops'[j].key = buffer'[s].key
      BY DEF Owned
    <3>1. CASE s = i
      BY <1>5, <2>1, <2>2, <2>3, <3>1
    <3>2. CASE s # i
      <4>1. buffer'[s] = buffer[s]
        BY <1>4, <3>2
      <4>2. PICK j \in Writes : ops[j].slot = s /\ ops[j].key = buffer[s].key
        BY <4>1 DEF StorageInv, Owned
      <4> QED BY <2>3, <4>1, <4>2
    <3> QED BY <3>1, <3>2
  <2>5. ASSUME OneAtATime PROVE \A j \in Writes : ops[j].key # k
    BY <1>2, <2>5 DEF Pending, Writes
  <2>6. ASSUME OneAtATime PROVE OneEach'
    <3> SUFFICES ASSUME NEW a \in Writes', NEW b \in Writes', ops'[a].key = ops'[b].key
                 PROVE  a = b
      BY DEF OneEach
    <3>1. CASE a = n \/ b = n
      BY <2>1, <2>2, <2>3, <2>5, <2>6, <3>1
    <3>2. CASE a # n /\ b # n
      BY <2>3, <2>6, <3>2 DEF StorageInv, OneEach
    <3> QED BY <3>1, <3>2
  <2>7. ASSUME OneAtATime PROVE HeldUntilCallback'
    <3> SUFFICES ASSUME NEW j \in Writes'
                 PROVE  buffer'[ops'[j].slot] =
                          [key |-> ops'[j].key, data |-> ops'[j].data, used |-> TRUE]
      BY DEF HeldUntilCallback, Writes
    <3>1. CASE j = n
      BY <1>5, <1>8, <2>1, <2>2, <3>1
    <3>2. CASE j # n
      <4>1. /\ j \in Writes /\ ops'[j] = ops[j]
            /\ ops[j].slot \in Slot /\ ops[j].slot # i
        BY <1>6, <2>3, <2>7, <3>2 DEF StorageInv, HasBuffer
      <4>2. buffer'[ops[j].slot] = buffer[ops[j].slot]
        BY <1>4, <4>1
      <4> QED BY <2>7, <4>1, <4>2 DEF StorageInv, HeldUntilCallback, Writes
    <3> QED BY <3>1, <3>2
  <2>8. TypeOK'
    <3>1. Len(ops') <= QueueSize
      BY <1>0, <1>8, <2>2 DEF Accepts, n
    <3> QED BY <1>2, <1>3, <2>2, <3>1 DEF StorageInv, TypeOK
  <2>9. HasBuffer'
    <3> SUFFICES ASSUME NEW j \in Writes'
                 PROVE  /\ ops'[j].slot \in Slot /\ ops'[j].key \in Key
                        /\ ops'[j].data \in Value /\ buffer'[ops'[j].slot].data \in Value
      BY DEF HasBuffer
    <3>1. CASE j = n
      BY <1>5, <2>1, <2>2, <3>1
    <3>2. CASE j # n
      BY <1>4, <1>5, <2>3, <3>2 DEF StorageInv, HasBuffer
    <3> QED BY <3>1, <3>2
  <2> QED BY <1>2, <2>4, <2>6, <2>7, <2>8, <2>9 DEF StorageInv
<1> QED BY <1>1, <1>7, <1>8
-----------------------------------------------------------------------------
LEMMA WriteRecordKeeps ==
  ASSUME StorageInv, WriteRecord
  PROVE  StorageInv'
<1>1. /\ ops # << >> /\ ops \in Seq(Op) /\ Head(ops) = ops[1] /\ 1 \in Writes
      /\ nextId \in Nat
  BY DEF WriteRecord, Running, StorageInv, TypeOK, Writes
<1>2. Head(ops).key \in Key /\ buffer[Head(ops).slot].data \in Value
  BY <1>1 DEF StorageInv, HasBuffer
<1>3. UNCHANGED << buffer, mounted, ops, fails, resets, stable, torn >> /\ written' = TRUE
  BY DEF WriteRecord
<1>4. PICK r : /\ r = [id |-> nextId, key |-> Head(ops).key,
                       data |-> buffer[Head(ops).slot].data]
               /\ flash' = flash \cup {r} /\ nextId' = nextId + 1
  BY DEF WriteRecord
<1>5. r \in Record /\ r.data \in Value
  BY <1>1, <1>2, <1>4 DEF Record
<1>6. TypeOK'
  BY <1>1, <1>3, <1>4, <1>5 DEF StorageInv, TypeOK
<1>7. HasBuffer' /\ Owned' /\ (OneAtATime => OneEach' /\ HeldUntilCallback')
  BY <1>3 DEF StorageInv, HasBuffer, Owned, OneEach, HeldUntilCallback, Writes
<1> QED BY <1>4, <1>5, <1>6, <1>7 DEF StorageInv

LEMMA EndWriteKeeps ==
  ASSUME StorageInv, EndWrite
  PROVE  StorageInv'
<1>1. /\ ops # << >> /\ Head(ops).kind # "gc" /\ FdsEventHandler
      /\ UNCHANGED << mounted, nextId, fails, resets, torn >> /\ written' = FALSE
      /\ flash' \subseteq flash
      /\ stable' = [stable EXCEPT ![Head(ops).key] = {Head(ops).data}]
  BY DEF EndWrite, Running
<1>2. Head(ops).data \in Value
  BY <1>1 DEF StorageInv, TypeOK, HasBuffer, Writes
<1>3. ops' \in Seq(Op) /\ Len(ops') <= QueueSize
  BY <1>1, EventMovesOps
<1>4. /\ buffer' \in [Slot -> Buffer] /\ HasBuffer' /\ Owned'
      /\ OneAtATime => OneEach' /\ HeldUntilCallback'
  BY <1>1, EventKeeps
<1>5. stable' \in [Key -> SUBSET Value]
  BY <1>1, <1>2 DEF StorageInv, TypeOK
<1>6. TypeOK'
  BY <1>1, <1>3, <1>4, <1>5 DEF StorageInv, TypeOK
<1> QED BY <1>1, <1>4, <1>6 DEF StorageInv

LEMMA FailWriteKeeps ==
  ASSUME StorageInv, FailWrite
  PROVE  StorageInv'
<1>1. /\ ops # << >> /\ Head(ops).kind # "gc" /\ FdsEventHandler
      /\ UNCHANGED << mounted, written, flash, nextId, resets, stable, torn >>
      /\ \/ fails' = fails
         \/ fails < FailsMax /\ fails' = fails + 1
  BY DEF FailWrite, Running
<1>2. ops' \in Seq(Op) /\ Len(ops') <= QueueSize
  BY <1>1, EventMovesOps
<1>3. /\ buffer' \in [Slot -> Buffer] /\ HasBuffer' /\ Owned'
      /\ OneAtATime => OneEach' /\ HeldUntilCallback'
  BY <1>1, EventKeeps
<1>4. fails' \in 0 .. FailsMax
  BY <1>1, StorageAssumption DEF StorageInv, TypeOK
<1>5. TypeOK'
  BY <1>1, <1>2, <1>3, <1>4 DEF StorageInv, TypeOK
<1> QED BY <1>1, <1>3, <1>5 DEF StorageInv

\* A garbage collection has no buffer: the others move up and nothing else.
LEMMA EndGcKeeps ==
  ASSUME StorageInv, EndGc
  PROVE  StorageInv'
<1>1. /\ ops # << >> /\ ops' = Tail(ops) /\ Head(ops).kind = "gc"
      /\ ops \in Seq(Op) /\ Head(ops) = ops[1] /\ 1 \notin Writes
      /\ Len(ops) <= QueueSize /\ QueueSize \in Nat
  BY StorageAssumption DEF EndGc, Running, StorageInv, TypeOK, Writes
<1>2. UNCHANGED << buffer, mounted, written, flash, nextId, fails, resets, stable, torn >>
  BY DEF EndGc
<1>3. /\ ops' \in Seq(Op) /\ Len(ops') = Len(ops) - 1 /\ Len(ops) \in Nat
      /\ \A i \in 1 .. Len(ops) - 1 : ops'[i] = ops[i + 1]
  BY <1>1, DropOp
<1>4. \A i \in Writes' : i \in Nat /\ i + 1 \in Writes /\ ops'[i] = ops[i + 1]
  BY <1>1, <1>3, WritesMoveUp
<1>5. \A i \in Writes : i - 1 \in Writes' /\ ops'[i - 1] = ops[i]
  <2> SUFFICES ASSUME NEW i \in Writes PROVE i - 1 \in Writes' /\ ops'[i - 1] = ops[i]
    OBVIOUS
  <2>1. i - 1 \in 1 .. Len(ops) - 1 /\ (i - 1) + 1 = i /\ ops[i].kind # "gc"
    BY <1>1, <1>3 DEF Writes
  <2>2. i - 1 \in 1 .. Len(ops') /\ ops'[i - 1] = ops[i]
    BY <1>3, <2>1
  <2> QED BY <2>1, <2>2 DEF Writes
<1>6. TypeOK'
  BY <1>1, <1>2, <1>3 DEF StorageInv, TypeOK
<1>7. HasBuffer'
  BY <1>2, <1>4 DEF StorageInv, HasBuffer
<1>8. Owned'
  BY <1>2, <1>5 DEF StorageInv, Owned
<1>9. ASSUME OneAtATime PROVE OneEach'
  BY <1>4, <1>9 DEF StorageInv, OneEach
<1>10. ASSUME OneAtATime PROVE HeldUntilCallback'
  <2> SUFFICES ASSUME NEW i \in Writes'
               PROVE  buffer[ops'[i].slot] =
                        [key |-> ops'[i].key, data |-> ops'[i].data, used |-> TRUE]
    BY <1>2 DEF HeldUntilCallback, Writes
  <2>1. i + 1 \in 1 .. Len(ops) /\ ops[i + 1].kind # "gc" /\ ops'[i] = ops[i + 1]
    BY <1>4 DEF Writes
  <2> QED BY <1>10, <2>1 DEF StorageInv, HeldUntilCallback
<1> QED BY <1>2, <1>6, <1>7, <1>8, <1>9, <1>10 DEF StorageInv

\* No operation and no reserved buffer outlives a reset; a record does.
LEMMA ResetKeeps ==
  ASSUME StorageInv, Reset
  PROVE  StorageInv'
<1>1. /\ resets' = resets + 1 /\ resets < ResetsMax
      /\ buffer' = Empty /\ ops' = << >> /\ written' = FALSE /\ mounted' = FALSE
      /\ stable' = [k \in Key |-> Stored(k)] /\ UNCHANGED << flash, nextId, fails >>
      /\ torn' \subseteq torn \cup Key
  BY DEF Reset
<1>2. Writes' = {} /\ \A s \in Slot : ~buffer'[s].used
  BY <1>1 DEF Writes, Empty
<1>3. stable' \in [Key -> SUBSET Value]
  BY <1>1 DEF StorageInv, Stored
<1>4. buffer' \in [Slot -> Buffer]
  BY <1>1 DEF Empty, Buffer
<1>5. resets' \in 0 .. ResetsMax /\ Len(ops') <= QueueSize /\ ops' \in Seq(Op)
  BY <1>1, StorageAssumption DEF StorageInv, TypeOK
<1>6. TypeOK'
  BY <1>1, <1>3, <1>4, <1>5 DEF StorageInv, TypeOK
<1>7. HasBuffer' /\ Owned' /\ OneEach'
  BY <1>2 DEF HasBuffer, Owned, OneEach
<1>8. HeldUntilCallback'
  BY <1>1 DEF HeldUntilCallback
<1> QED BY <1>1, <1>6, <1>7, <1>8 DEF StorageInv

-----------------------------------------------------------------------------
LEMMA InitStorageInv == Init => StorageInv
<1> SUFFICES ASSUME Init PROVE StorageInv
  OBVIOUS
<1>1. /\ buffer = Empty /\ ops = << >> /\ flash = {} /\ stable = [k \in Key |-> {}]
  BY DEF Init
<1>2. buffer \in [Slot -> Buffer] /\ \A s \in Slot : ~buffer[s].used
  BY <1>1 DEF Empty, Buffer
<1>3. Writes = {}
  BY <1>1 DEF Writes
<1>4. ops \in Seq(Op) /\ Len(ops) <= QueueSize
  BY <1>1, StorageAssumption
<1>5. TypeOK
  <2>1. nextId \in Nat /\ fails \in 0 .. FailsMax /\ resets \in 0 .. ResetsMax
    BY StorageAssumption DEF Init
  <2>2. mounted \in BOOLEAN /\ written \in BOOLEAN
    BY Zenon DEF Init
  <2>3. stable \in [Key -> SUBSET Value] /\ flash \subseteq Record /\ torn \subseteq Key
    BY DEF Init
  <2> QED BY <1>2, <1>4, <2>1, <2>2, <2>3 DEF TypeOK
<1>6. HasBuffer /\ Owned /\ OneEach
  BY <1>2, <1>3 DEF HasBuffer, Owned, OneEach
<1>7. HeldUntilCallback
  BY <1>1 DEF HeldUntilCallback
<1> QED BY <1>1, <1>5, <1>6, <1>7 DEF StorageInv

LEMMA StepKeeps == StorageInv /\ [Next]_vars => StorageInv'
<1> SUFFICES ASSUME StorageInv, [Next]_vars PROVE StorageInv'
  OBVIOUS
<1>1. ASSUME NEW k \in Key, NEW v \in Value, Write(k, v) PROVE StorageInv'
  BY <1>1, WriteKeeps
<1>2. CASE Mount
  BY <1>2 DEF Mount, StorageInv, TypeOK, HasBuffer, Owned, OneEach, HeldUntilCallback, Writes
<1>3. CASE WriteRecord
  BY <1>3, WriteRecordKeeps
<1>4. CASE EndWrite
  BY <1>4, EndWriteKeeps
<1>5. CASE FailWrite
  BY <1>5, FailWriteKeeps
<1>6. CASE EndGc
  BY <1>6, EndGcKeeps
<1>7. CASE Reset
  BY <1>7, ResetKeeps
<1>8. CASE UNCHANGED vars
  BY <1>8 DEF vars, StorageInv, TypeOK, HasBuffer, Owned, OneEach, HeldUntilCallback, Writes
<1> QED BY <1>1, <1>2, <1>3, <1>4, <1>5, <1>6, <1>7, <1>8 DEF Next

\* In every reachable state of the store of records, over refusals, failures
\* and resets, the strengthening holds.
THEOREM StorageInvariance == Spec => []StorageInv
<1> QED BY InitStorageInv, StepKeeps, PTL DEF Spec

\* The buffers, the queue of FDS and the records keep their types.
THEOREM StorageTypeCorrect == Spec => []TypeOK
<1>1. StorageInv => TypeOK
  BY DEF StorageInv
<1> QED BY <1>1, StorageInvariance, PTL

\* storage_write and fds_event_handler leak none of the buffers: a reserved one
\* has a pending write that will give it back, whether or not clients wait.
THEOREM BuffersComeBack == Spec => []NoBufferLeaks
<1>1. StorageInv => NoBufferLeaks
  BY DEF StorageInv, Owned, NoBufferLeaks, Writes
<1> QED BY <1>1, StorageInvariance, PTL

\* A buffer is reserved, and holds what the client gave, until the callback of
\* its write, provided that clients await the end of a write to a key before
\* they start the next.
THEOREM BuffersAreHeld == Spec => [](OneAtATime => HeldUntilCallback)
<1>1. StorageInv => (OneAtATime => HeldUntilCallback)
  BY DEF StorageInv
<1> QED BY <1>1, StorageInvariance, PTL

-----------------------------------------------------------------------------
(***************************************************************************)
(* What the records hold, for clients that wait.  The operation that runs  *)
(* writes a second version before it deletes the first; every other one    *)
(* finds in the flash what it found when it was queued, because no other   *)
(* write to its key is pending.                                            *)
(***************************************************************************)
\* Records have different ids, all given out before.
Ids ==
  /\ \A r \in flash : r.id < nextId
  /\ \A r, s \in flash : r.id = s.id => r = s

\* The new record of the running operation, between its two steps.
New == [id |-> nextId - 1, key |-> ops[1].key, data |-> ops[1].data]

\* The running operation has written its record behind the one it replaces.
Halfway ==
  written => /\ 1 \in Writes /\ New \in flash
             /\ ops[1].kind = "update" => ops[1].old < nextId - 1

StillFound ==
  \A i \in Writes :
    /\ ops[i].kind = "update" => \E r \in Found(ops[i].key) : r.id = ops[i].old
    /\ ops[i].kind = "write" =>
         \A r \in Found(ops[i].key) : written /\ i = 1 /\ r = New

\* A key that no reset has torn has one version, except halfway.
OneVersion ==
  \A k \in Key \ torn : \A r \in Found(k) :
    IF written /\ ops[1].key = k
      THEN \/ r = New
           \/ ops[1].kind = "update" /\ r.id = ops[1].old /\ r.data \in stable[k]
      ELSE r.data \in stable[k] /\ \A s \in Found(k) : r = s

\* The value whose write succeeded last is in the flash.
Kept == \A k \in Key : \A d \in stable[k] : \E r \in Found(k) : r.data = d

FlashInv == Ids /\ Halfway /\ StillFound /\ OneVersion /\ Kept

\* A step after which nothing runs halfway, and which leaves the flash alone.
LEMMA FlashUntouched ==
  ASSUME StorageInv, FlashInv, ~written, ~written', UNCHANGED << flash, nextId, stable, torn >>,
         \A i \in Writes' : \E j \in Writes : ops'[i] = ops[j]
  PROVE  FlashInv'
<1>1. \A k : Found(k)' = Found(k)
  BY DEF Found
<1>2. Ids' /\ Halfway' /\ Kept'
  BY <1>1 DEF FlashInv, Ids, Halfway, Kept
<1>3. StillFound'
  BY <1>1 DEF FlashInv, StillFound
<1>4. OneVersion'
  BY <1>1 DEF FlashInv, OneVersion
<1> QED BY <1>2, <1>3, <1>4 DEF FlashInv

LEMMA WriteKeepsFlash ==
  ASSUME StorageInv, FlashInv, NEW k \in Key, NEW v \in Value, Write(k, v)
  PROVE  FlashInv'
<1>0. ops \in Seq(Op) /\ Len(ops) \in Nat
  BY DEF StorageInv, TypeOK
<1>1. UNCHANGED << written, flash, nextId, stable, torn >>
  BY DEF Write
<1>2. CASE UNCHANGED ops
  BY <1>1, <1>2 DEF FlashInv, Ids, Halfway, StillFound, OneVersion, Kept, Found, Writes, New
<1>3. ASSUME NEW o \in Op, ops' = Append(ops, o), o.key = k, o.kind # "gc",
             o.kind = "write" => Found(k) = {},
             o.kind = "update" => \E r \in Found(k) : r.id = o.old
      PROVE  FlashInv'
  <2> DEFINE n == Len(ops) + 1
  <2>1. /\ Len(ops') = n /\ ops'[n] = o /\ n \notin Writes
        /\ \A i \in 1 .. Len(ops) : ops'[i] = ops[i]
    BY <1>0, <1>3, AppendOp DEF Writes
  <2>2. \A i \in Writes : i \in Writes' /\ ops'[i] = ops[i]
    BY <1>0, <2>1 DEF Writes
  <2>3. \A i \in Writes' : i # n => i \in Writes /\ ops'[i] = ops[i]
    BY <1>0, <2>1 DEF Writes
  <2> HIDE DEF n
  <2>4. written => 1 \in Writes /\ ops'[1] = ops[1] /\ New' = New
    BY <1>1, <2>2 DEF FlashInv, Halfway, New
  <2>5. \A c : Found(c)' = Found(c)
    BY <1>1 DEF Found
  <2>6. Ids' /\ Halfway' /\ Kept'
    BY <1>1, <2>2, <2>4, <2>5 DEF FlashInv, Ids, Halfway, Kept
  <2>7. OneVersion'
    BY <1>1, <2>4, <2>5 DEF FlashInv, OneVersion
  <2>8. StillFound'
    <3> SUFFICES ASSUME NEW i \in Writes'
                 PROVE  /\ ops'[i].kind = "update" =>
                             \E r \in Found(ops'[i].key) : r.id = ops'[i].old
                        /\ ops'[i].kind = "write" =>
                             \A r \in Found(ops'[i].key) : written /\ i = 1 /\ r = New'
      BY <1>1, <2>5 DEF StillFound
    <3>1. CASE i = n
      BY <1>3, <2>1, <3>1
    <3>2. CASE i # n
      BY <2>3, <2>4, <3>2 DEF FlashInv, StillFound
    <3> QED BY <3>1, <3>2
  <2> QED BY <2>6, <2>7, <2>8 DEF FlashInv
<1>4. PICK i \in Slot :
        \/ UNCHANGED ops
        \/ /\ Found(k) = {}
           /\ ops' = Append(ops, [kind |-> "write", key |-> k, slot |-> i,
                                  old |-> 0, data |-> v])
        \/ \E r \in Found(k) :
             ops' = Append(ops, [kind |-> "update", key |-> k, slot |-> i,
                                 old |-> r.id, data |-> v])
  BY DEF Write
<1>5. i \in Nat
  BY StorageAssumption DEF Slot
<1>6. CASE Found(k) = {} /\ ops' = Append(ops, [kind |-> "write", key |-> k, slot |-> i,
                                                old |-> 0, data |-> v])
  <2> DEFINE o == [kind |-> "write", key |-> k, slot |-> i, old |-> 0, data |-> v]
  <2>1. o \in Op /\ o.key = k /\ o.kind = "write"
    BY <1>5 DEF Op
  <2> QED BY <1>3, <1>6, <2>1
<1>7. ASSUME NEW r \in Found(k),
             ops' = Append(ops, [kind |-> "update", key |-> k, slot |-> i,
                                 old |-> r.id, data |-> v])
      PROVE  FlashInv'
  <2> DEFINE o == [kind |-> "update", key |-> k, slot |-> i, old |-> r.id, data |-> v]
  <2>1. o \in Op /\ o.key = k /\ o.kind = "update" /\ o.old = r.id
    BY <1>5 DEF Op, Found, StorageInv, TypeOK, Record
  <2> QED BY <1>3, <1>7, <2>1
<1> QED BY <1>2, <1>4, <1>6, <1>7

\* The new version comes beside the one the operation found, if any.
LEMMA WriteRecordKeepsFlash ==
  ASSUME StorageInv, FlashInv, OneAtATime, WriteRecord
  PROVE  FlashInv'
<1>1. /\ ops # << >> /\ ops \in Seq(Op) /\ Head(ops) = ops[1] /\ 1 \in Writes
      /\ nextId \in Nat /\ ops[1].kind \in {"write", "update"} /\ ~written
  BY DEF WriteRecord, Running, StorageInv, TypeOK, Writes
<1>2. UNCHANGED << buffer, ops, stable, torn >> /\ written' = TRUE /\ Writes' = Writes
  BY DEF WriteRecord, Writes
<1>3. buffer[ops[1].slot].data = ops[1].data
  <2>1. buffer[ops[1].slot] = [key |-> ops[1].key, data |-> ops[1].data, used |-> TRUE]
    BY <1>1 DEF StorageInv, HeldUntilCallback, Writes
  <2> QED BY <2>1
<1>4. /\ New' = [id |-> nextId, key |-> ops[1].key, data |-> ops[1].data]
      /\ flash' = flash \cup {New'} /\ nextId' = nextId + 1
  <2>1. nextId' = nextId + 1 /\ nextId' - 1 = nextId
    BY <1>1 DEF WriteRecord
  <2>2. New' = [id |-> nextId, key |-> ops[1].key, data |-> ops[1].data]
    BY <1>2, <2>1 DEF New
  <2> QED BY <1>1, <1>3, <2>1, <2>2 DEF WriteRecord
<1>5. New'.id = nextId /\ New'.key = ops[1].key
  BY <1>4
<1>6. \A k : /\ k = ops[1].key => Found(k)' = Found(k) \cup {New'}
             /\ k # ops[1].key => Found(k)' = Found(k)
  BY <1>4, <1>5 DEF Found
<1>7. \A r \in flash : r.id \in Nat
  BY DEF StorageInv, TypeOK, Record
<1>8. Ids'
  BY <1>1, <1>4, <1>5, <1>7 DEF FlashInv, Ids
<1>9. Halfway'
  <2>1. ops[1].kind = "update" => \E r \in flash : r.id = ops[1].old
    BY <1>1 DEF FlashInv, StillFound, Found
  <2>2. ops[1].kind = "update" => ops[1].old < nextId
    BY <2>1 DEF FlashInv, Ids
  <2>3. nextId' - 1 = nextId
    BY <1>1, <1>4
  <2> QED BY <1>1, <1>2, <1>4, <2>2, <2>3 DEF Halfway
<1>10. StillFound'
  <2> SUFFICES ASSUME NEW i \in Writes, NEW o, o = ops[i]
               PROVE  /\ o.kind = "update" => \E r \in Found(o.key)' : r.id = o.old
                      /\ o.kind = "write" => \A r \in Found(o.key)' : i = 1 /\ r = New'
    BY <1>2 DEF StillFound, Found
  <2>1. o.kind = "update" => \E r \in Found(o.key) : r.id = o.old
    BY DEF FlashInv, StillFound
  <2>2. o.kind = "write" => Found(o.key) = {}
    BY <1>1 DEF FlashInv, StillFound
  <2>3. i # 1 => o.key # ops[1].key
    BY <1>1 DEF StorageInv, OneEach
  <2> QED BY <1>6, <2>1, <2>2, <2>3
<1>11. OneVersion'
  <2> SUFFICES ASSUME NEW k \in Key \ torn, NEW r \in Found(k)'
               PROVE  IF ops[1].key = k
                        THEN \/ r = New'
                             \/ ops[1].kind = "update" /\ r.id = ops[1].old /\ r.data \in stable[k]
                        ELSE r.data \in stable[k] /\ \A s \in Found(k)' : r = s
    BY <1>2 DEF OneVersion, Found
  <2>1. \A p \in Found(k) : p.data \in stable[k] /\ \A s \in Found(k) : p = s
    BY <1>1 DEF FlashInv, OneVersion
  <2>2. CASE ops[1].key = k
    <3> SUFFICES ASSUME r # New'
                 PROVE  ops[1].kind = "update" /\ r.id = ops[1].old /\ r.data \in stable[k]
      BY <2>2
    <3>1. r \in Found(k)
      BY <1>6, <2>2
    <3>2. ops[1].kind = "update"
      BY <1>1, <2>2, <3>1 DEF FlashInv, StillFound
    <3>3. PICK p \in Found(k) : p.id = ops[1].old
      BY <1>1, <2>2, <3>2 DEF FlashInv, StillFound
    <3> QED BY <2>1, <3>1, <3>2, <3>3
  <2>3. CASE ops[1].key # k
    BY <1>6, <2>1, <2>3
  <2> QED BY <2>2, <2>3
<1>12. Kept'
  BY <1>2, <1>6 DEF FlashInv, Kept
<1> QED BY <1>8, <1>9, <1>10, <1>11, <1>12 DEF FlashInv

\* Only the version the operation replaces is deleted.
LEMMA EndWriteKeepsFlash ==
  ASSUME StorageInv, FlashInv, OneAtATime, EndWrite
  PROVE  FlashInv'
<1>0. PICK h, n : h = ops[1] /\ n = New
  OBVIOUS
<1>1. /\ ops # << >> /\ ops \in Seq(Op) /\ Head(ops) = h /\ 1 \in Writes
      /\ nextId \in Nat /\ h.kind \in {"write", "update"} /\ written /\ FdsEventHandler
      /\ h.key \in Key
  BY <1>0 DEF EndWrite, Running, StorageInv, TypeOK, Writes, HasBuffer
<1>2. UNCHANGED << nextId, torn >> /\ written' = FALSE
  BY DEF EndWrite
<1>3. /\ flash' = {r \in flash : h.kind = "update" => r.id # h.old}
      /\ stable' = [stable EXCEPT ![h.key] = {h.data}]
  BY <1>1 DEF EndWrite
<1>4. /\ stable'[h.key] = {h.data}
      /\ \A k \in Key : k # h.key => stable'[k] = stable[k]
  BY <1>1, <1>3 DEF StorageInv, TypeOK
<1>5. \A i \in Writes' : i + 1 \in Writes /\ ops'[i] = ops[i + 1] /\ ops[i + 1].key # h.key
  <2> SUFFICES ASSUME NEW i \in Writes'
               PROVE  i + 1 \in Writes /\ ops'[i] = ops[i + 1] /\ ops[i + 1].key # h.key
    OBVIOUS
  <2>1. i \in 1 .. Len(ops) - 1 /\ i + 1 \in Writes /\ ops'[i] = ops[i + 1]
    BY <1>1, WritesMoveUp
  <2>2. i + 1 # 1
    BY <1>1, <2>1
  <2> QED BY <1>1, <2>1, <2>2 DEF StorageInv, OneEach
<1>6. /\ n.data = h.data /\ n \in Found(h.key)'
      /\ h.kind = "update" => \E r \in flash : r.id = h.old /\ r.key = h.key
  <2>1. n.id = nextId - 1 /\ n.key = h.key /\ n.data = h.data
    BY <1>0 DEF New
  <2>2. n \in flash /\ (h.kind = "update" => h.old < nextId - 1)
    BY <1>0, <1>1 DEF FlashInv, Halfway
  <2>3. h.kind = "update" => \E r \in flash : r.id = h.old /\ r.key = h.key
    BY <1>0, <1>1 DEF FlashInv, StillFound, Found
  <2>4. h.kind = "update" => n.id # h.old
    <3>1. h.kind = "update" => h.old \in Nat
      BY <2>3 DEF StorageInv, TypeOK, Record
    <3> QED BY <1>1, <2>1, <2>2, <3>1
  <2> QED BY <1>3, <2>1, <2>2, <2>3, <2>4 DEF Found
<1>7. \A k : k # h.key => Found(k)' = Found(k)
  <2>1. \A r \in flash : r.key # h.key /\ h.kind = "update" => r.id # h.old
    BY <1>6 DEF FlashInv, Ids
  <2> QED BY <1>3, <2>1 DEF Found
<1>8. \A r \in Found(h.key)' : r \in Found(h.key) /\ (h.kind = "update" => r.id # h.old)
  BY <1>3 DEF Found
<1>9. Ids' /\ Halfway'
  BY <1>2, <1>3 DEF FlashInv, Ids, Halfway
<1>10. StillFound'
  <2> SUFFICES ASSUME NEW i \in Writes', NEW o, o = ops'[i]
               PROVE  /\ o.kind = "update" => \E r \in Found(o.key)' : r.id = o.old
                      /\ o.kind = "write" => Found(o.key)' = {}
    BY DEF StillFound, Found
  <2>1. i + 1 \in Writes /\ o = ops[i + 1] /\ Found(o.key)' = Found(o.key)
    BY <1>5, <1>7
  <2>2. i + 1 # 1
    BY <1>0, <1>5
  <2> QED BY <2>1, <2>2 DEF FlashInv, StillFound
<1>11. OneVersion'
  <2> SUFFICES ASSUME NEW k \in Key \ torn, NEW r \in Found(k)'
               PROVE  r.data \in stable'[k] /\ \A s \in Found(k)' : r = s
    BY <1>2 DEF OneVersion, Found
  <2>1. CASE k = h.key
    <3>1. \A s \in Found(k)' : s = n
      BY <1>0, <1>1, <1>8, <2>1 DEF FlashInv, OneVersion
    <3> QED BY <1>4, <1>6, <2>1, <3>1
  <2>2. CASE k # h.key
    BY <1>0, <1>4, <1>7, <2>2 DEF FlashInv, OneVersion
  <2> QED BY <2>1, <2>2
<1>12. Kept'
  <2> SUFFICES ASSUME NEW k \in Key, NEW d \in stable'[k]
               PROVE  \E r \in Found(k)' : r.data = d
    BY DEF Kept, Found
  <2>1. CASE k = h.key
    BY <1>4, <1>6, <2>1
  <2>2. CASE k # h.key
    BY <1>4, <1>7, <2>2 DEF FlashInv, Kept
  <2> QED BY <2>1, <2>2
<1> QED BY <1>9, <1>10, <1>11, <1>12 DEF FlashInv

\* A reset in the middle leaves two versions: the key is torn.
LEMMA ResetKeepsFlash ==
  ASSUME StorageInv, FlashInv, Reset
  PROVE  FlashInv'
<1>1. /\ ops' = << >> /\ written' = FALSE /\ UNCHANGED << flash, nextId >>
      /\ stable' = [k \in Key |-> Stored(k)]
      /\ torn' = torn \cup {k \in Key : \E r, s \in flash : r # s /\ r.key = k /\ s.key = k}
  BY DEF Reset
<1>2. Writes' = {} /\ \A k : Found(k)' = Found(k)
  BY <1>1 DEF Writes, Found
<1>3. Ids' /\ Halfway' /\ StillFound'
  BY <1>1, <1>2 DEF FlashInv, Ids, Halfway, StillFound
<1>4. OneVersion'
  BY <1>1, <1>2 DEF OneVersion, Found, Stored
<1>5. Kept'
  BY <1>1, <1>2 DEF Kept, Found, Stored
<1> QED BY <1>3, <1>4, <1>5 DEF FlashInv

LEMMA FlashStep == OneAtATime /\ StorageInv /\ FlashInv /\ [Next]_vars => FlashInv'
<1> SUFFICES ASSUME OneAtATime, StorageInv, FlashInv, [Next]_vars PROVE FlashInv'
  OBVIOUS
<1>1. ASSUME NEW k \in Key, NEW v \in Value, Write(k, v) PROVE FlashInv'
  BY <1>1, WriteKeepsFlash
<1>2. CASE Mount \/ UNCHANGED vars
  <2>1. UNCHANGED << ops, written, flash, nextId, stable, torn >>
    BY <1>2 DEF Mount, vars
  <2> QED BY <2>1 DEF FlashInv, Ids, Halfway, StillFound, OneVersion, Kept, Found, Writes, New
<1>3. CASE WriteRecord
  BY <1>3, WriteRecordKeepsFlash
<1>4. CASE EndWrite
  BY <1>4, EndWriteKeepsFlash
<1>5. CASE FailWrite
  <2>1. /\ ops # << >> /\ FdsEventHandler /\ ~written /\ ~written' /\ Head(ops).kind # "gc"
        /\ UNCHANGED << flash, nextId, stable, torn >>
    BY <1>5 DEF FailWrite, Running
  <2> QED BY <2>1, WritesMoveUp, FlashUntouched
<1>6. CASE EndGc
  <2>1. /\ ops # << >> /\ UNCHANGED << written, flash, nextId, stable, torn >>
    BY <1>6 DEF EndGc, Running
  <2>2. ~written
    <3>1. Head(ops) = ops[1] /\ Head(ops).kind = "gc"
      BY <1>6 DEF EndGc, Running, StorageInv, TypeOK
    <3> QED BY <3>1 DEF FlashInv, Halfway, Writes
  <2> QED BY <1>6, <2>1, <2>2, WritesMoveUp, FlashUntouched
<1>7. CASE Reset
  BY <1>7, ResetKeepsFlash
<1> QED BY <1>1, <1>2, <1>3, <1>4, <1>5, <1>6, <1>7 DEF Next

\* The values asked for are those of the pending writes.
LEMMA AskedHas ==
  \A k \in Key : \A d :
    /\ d \in Asked[k] <=> \E i \in Writes : ops[i].key = k /\ ops[i].data = d
    /\ d \in Asked'[k] <=> \E i \in Writes' : ops'[i].key = k /\ ops'[i].data = d
BY DEF Asked, Writes

LEMMA InitFlashInv == Init => FlashInv
<1> SUFFICES ASSUME Init PROVE FlashInv
  OBVIOUS
<1>1. ops = << >> /\ flash = {} /\ stable = [k \in Key |-> {}] /\ ~written
  BY DEF Init
<1>2. Writes = {} /\ \A k : Found(k) = {}
  BY <1>1 DEF Writes, Found
<1> QED BY <1>1, <1>2 DEF FlashInv, Ids, Halfway, StillFound, OneVersion, Kept

\* For clients that wait, a key always holds the value whose write succeeded last,
\* and until a reset has torn it nothing else but the value being written, over
\* refusals, failures and resets.
THEOREM ValuesReadBack == Spec => [](OneAtATime => ReadsBack)
<1>1. Init => FlashInv
  BY InitFlashInv
<1>2. FlashInv => ReadsBack
  <2> SUFFICES ASSUME FlashInv, NEW k \in Key
               PROVE  /\ stable[k] \subseteq Stored(k)
                      /\ k \notin torn => Stored(k) \subseteq stable[k] \cup Asked[k]
    BY DEF ReadsBack
  <2>1. stable[k] \subseteq Stored(k)
    BY DEF FlashInv, Kept, Found, Stored
  <2>2. ASSUME k \notin torn, NEW r \in Found(k)
        PROVE  r.data \in stable[k] \cup Asked[k]
    <3>1. CASE written /\ ops[1].key = k
      <4>1. r = New \/ r.data \in stable[k]
        BY <2>2, <3>1 DEF FlashInv, OneVersion
      <4>2. 1 \in Writes /\ New.data = ops[1].data
        BY <3>1 DEF FlashInv, Halfway, New
      <4> QED BY <3>1, <4>1, <4>2, AskedHas
    <3>2. CASE ~(written /\ ops[1].key = k)
      BY <2>2, <3>2 DEF FlashInv, OneVersion
    <3> QED BY <3>1, <3>2
  <2> QED BY <2>1, <2>2 DEF Found, Stored
<1> DEFINE J == OneAtATime => FlashInv
<1>4. StorageInv /\ J /\ [Next]_vars => J'
  BY FlashStep
<1>5. Init => J
  BY <1>1
<1>6. J => (OneAtATime => ReadsBack)
  BY <1>2
<1> HIDE DEF J
<1> QED BY <1>4, <1>5, <1>6, StorageInvariance, PTL DEF Spec

-----------------------------------------------------------------------------
(***************************************************************************)
(* The storage implements the abstract store, for clients that wait.       *)
(***************************************************************************)
\* The invariant of the refinement.
Stable == StorageInv /\ FlashInv /\ OneAtATime

\* What is mapped.
LEMMA Mapped ==
  /\ Asked = [k \in Key |-> Asked[k]] /\ Asked' = [k \in Key |-> Asked'[k]]
  /\ Values = [k \in Key |-> Values[k]] /\ Values' = [k \in Key |-> Values'[k]]
  /\ \A k \in Key : \A d : /\ d \in Values[k] <=> \E r \in Found(k) : r.data = d
                           /\ d \in Values'[k] <=> \E r \in Found(k)' : r.data = d
BY DEF Asked, Values, Stored, Found

\* A write that is pending is the only one of its key.
LEMMA OneAsked ==
  ASSUME Stable, NEW i \in Writes
  PROVE  ops[i].key \in Key /\ Asked[ops[i].key] = {ops[i].data}
<1>1. ops[i].key \in Key /\ \A j \in Writes : ops[j].key = ops[i].key => i = j
  BY DEF Stable, StorageInv, HasBuffer, OneEach
<1> QED BY <1>1, AskedHas

\* The first operation leaves the queue; the other writes stay pending.
LEMMA WritesStay ==
  ASSUME StorageInv, ops # << >>, FdsEventHandler \/ EndGc
  PROVE  \A i \in Writes : i # 1 => \E j \in Writes' : ops'[j] = ops[i]
<1>1. ops \in Seq(Op) /\ Len(ops) \in Nat \ {0}
  BY DEF StorageInv, TypeOK
<1> SUFFICES ASSUME NEW i \in Writes, i # 1 PROVE \E j \in Writes' : ops'[j] = ops[i]
  OBVIOUS
<1>2. i - 1 \in 1 .. Len(ops) - 1 /\ (i - 1) + 1 = i
  BY <1>1 DEF Writes
<1>3. \A j \in 1 .. Len(ops) - 1 : j \in 1 .. Len(ops') /\ ops'[j] = ops[j + 1]
  <2>1. CASE FdsEventHandler
    BY <2>1, EventMovesOps
  <2>2. CASE EndGc
    BY <1>1, <2>2, DropOp DEF EndGc
  <2> QED BY <2>1, <2>2
<1>4. i - 1 \in 1 .. Len(ops') /\ ops'[i - 1] = ops[i]
  BY <1>2, <1>3
<1> QED BY <1>4 DEF Writes

\* The end of a write takes its value, and no other, from what is asked for.
LEMMA EventAnswers ==
  ASSUME Stable, ops # << >>, Head(ops).kind # "gc", FdsEventHandler
  PROVE  /\ Head(ops).key \in Key /\ Asked[Head(ops).key] = {Head(ops).data}
         /\ Asked' = [Asked EXCEPT ![Head(ops).key] = {}]
<1> DEFINE h == ops[1]
<1>1. StorageInv /\ ops \in Seq(Op) /\ Head(ops) = h /\ 1 \in Writes
  BY DEF Stable, StorageInv, TypeOK, Writes
<1>2. h.key \in Key /\ Asked[h.key] = {h.data}
  BY <1>1, OneAsked
<1>3. \A i \in Writes : ops[i].key = h.key => i = 1
  BY <1>1 DEF Stable, StorageInv, OneEach
<1>4. \A j \in Writes' : j + 1 \in Writes /\ j + 1 # 1 /\ ops'[j] = ops[j + 1]
  BY <1>1, WritesMoveUp DEF Writes
<1>5. \A i \in Writes : i # 1 => \E j \in Writes' : ops'[j] = ops[i]
  BY <1>1, WritesStay
<1> HIDE DEF h
<1>6. Asked'[h.key] = {}
  BY <1>2, <1>3, <1>4, AskedHas
<1>7. ASSUME NEW k \in Key, k # h.key PROVE Asked'[k] = Asked[k]
  <2>1. ASSUME NEW d, d \in Asked[k] PROVE d \in Asked'[k]
    <3>1. PICK i \in Writes : ops[i].key = k /\ ops[i].data = d
      BY <2>1, AskedHas
    <3>2. i # 1
      BY <1>7, <3>1 DEF h
    <3> QED BY <1>5, <3>1, <3>2, AskedHas
  <2>2. ASSUME NEW d, d \in Asked'[k] PROVE d \in Asked[k]
    BY <1>4, <2>2, AskedHas
  <2> QED BY <2>1, <2>2
<1>8. Asked' = [Asked EXCEPT ![h.key] = {}]
  BY <1>2, <1>6, <1>7, Mapped
<1> QED BY <1>1, <1>2, <1>8

\* A write is asked for, unless it is refused.
LEMMA WriteAsks ==
  ASSUME Stable, NEW k \in Key, NEW v \in Value, Write(k, v)
  PROVE  Store!Ask(k, v) \/ UNCHANGED Store!storeVars
<1>1. ops \in Seq(Op) /\ Len(ops) \in Nat /\ UNCHANGED << written, flash, torn >>
  BY DEF Stable, StorageInv, TypeOK, Write
<1>2. UNCHANGED Values
  BY <1>1 DEF Values, Stored
<1>3. CASE UNCHANGED ops
  BY <1>1, <1>2, <1>3 DEF Store!storeVars, Asked, Half
<1>4. ASSUME NEW o \in Op, ops' = Append(ops, o), o.key = k, o.data = v, o.kind # "gc"
      PROVE  Store!Ask(k, v)
  <2> DEFINE n == Len(ops) + 1
  <2>1. /\ ops'[n] = o /\ n \in Writes'
        /\ \A i \in Writes : i \in Writes' /\ ops'[i] = ops[i]
        /\ \A i \in Writes' : i # n => i \in Writes /\ ops'[i] = ops[i]
    <3>1. /\ Len(ops') = n /\ ops'[n] = o /\ \A i \in 1 .. Len(ops) : ops'[i] = ops[i]
      BY <1>1, <1>4, AppendOp
    <3> QED BY <1>1, <1>4, <3>1 DEF Writes
  <2> HIDE DEF n
  <2>2. Asked[k] = {}
    <3>1. ~Pending(k)
      BY DEF Write, Stable
    <3> QED BY <3>1, AskedHas DEF Pending, Writes
  <2>3. Asked'[k] = {v}
    <3>1. \A d : d \in Asked'[k] <=> d = v
      <4>1. \A i \in Writes' : ops'[i].key = k => i = n
        <5>1. \A i \in Writes : ops[i].key # k
          BY <2>2, AskedHas
        <5> QED BY <2>1, <5>1
      <4>2. \A d : d \in Asked'[k] <=> \E i \in Writes' : ops'[i].key = k /\ ops'[i].data = d
        BY AskedHas
      <4>3. \A i \in Writes' : ops'[i].key = k => ops'[i].data = v
        BY <1>4, <2>1, <4>1
      <4>4. n \in Writes' /\ ops'[n].key = k /\ ops'[n].data = v
        BY <1>4, <2>1
      <4> QED BY <4>2, <4>3, <4>4
    <3> QED BY <3>1
  <2>4. ASSUME NEW c \in Key, c # k PROVE Asked'[c] = Asked[c]
    <3>1. \A d : /\ d \in Asked[c] <=> \E i \in Writes : ops[i].key = c /\ ops[i].data = d
                 /\ d \in Asked'[c] <=> \E i \in Writes' : ops'[i].key = c /\ ops'[i].data = d
      BY AskedHas
    <3>2. ASSUME NEW d, d \in Asked[c] PROVE d \in Asked'[c]
      BY <2>1, <3>1, <3>2
    <3>3. ASSUME NEW d, d \in Asked'[c] PROVE d \in Asked[c]
      <4>1. PICK i \in Writes' : ops'[i].key = c /\ ops'[i].data = d
        BY <3>1, <3>3
      <4>2. i # n
        BY <1>4, <2>1, <2>4, <4>1
      <4> QED BY <2>1, <3>1, <4>1, <4>2
    <3> QED BY <3>2, <3>3
  <2>5. Asked' = [Asked EXCEPT ![k] = {v}]
    BY <2>3, <2>4, Mapped
  <2>6. UNCHANGED Half
    <3>1. ops # << >> => Head(ops') = Head(ops)
      BY <1>1, <1>4
    <3>2. written => ops # << >>
      BY <1>1 DEF Stable, FlashInv, Halfway, Writes
    <3> QED BY <1>1, <3>1, <3>2 DEF Half
  <2> QED BY <1>1, <1>2, <2>2, <2>5, <2>6 DEF Store!Ask
<1>5. PICK i \in Slot :
        \/ UNCHANGED ops
        \/ \E kind \in {"write", "update"}, id \in Nat :
             ops' = Append(ops, [kind |-> kind, key |-> k, slot |-> i, old |-> id, data |-> v])
  <2>1. \A r \in Found(k) : r.id \in Nat
    BY DEF Stable, StorageInv, TypeOK, Record, Found
  <2> QED BY <2>1 DEF Write
<1>6. i \in Nat
  BY StorageAssumption DEF Slot
<1>7. ASSUME NEW kind \in {"write", "update"}, NEW id \in Nat,
             ops' = Append(ops, [kind |-> kind, key |-> k, slot |-> i, old |-> id, data |-> v])
      PROVE  Store!Ask(k, v)
  <2> DEFINE o == [kind |-> kind, key |-> k, slot |-> i, old |-> id, data |-> v]
  <2>1. o \in Op /\ o.key = k /\ o.data = v /\ o.kind # "gc"
    BY <1>6 DEF Op
  <2> QED BY <1>4, <1>7, <2>1
<1> QED BY <1>3, <1>5, <1>7

\* FDS writes the record: the new value can be read beside the old.
LEMMA WriteRecordBegins ==
  ASSUME Stable, WriteRecord
  PROVE  Store!Begin(Head(ops).key)
<1>1. /\ StorageInv /\ Head(ops) = ops[1] /\ 1 \in Writes /\ ops # << >>
      /\ ~written /\ written' = TRUE /\ UNCHANGED << ops, torn >>
  BY DEF Stable, StorageInv, TypeOK, Writes, WriteRecord, Running
<1> PICK h : h = ops[1]
  OBVIOUS
<1> PICK k : k = h.key
  OBVIOUS
<1>2. k \in Key /\ Asked[k] = {h.data}
  BY <1>1, OneAsked
<1> PICK n : n = [id |-> nextId, key |-> k, data |-> h.data]
  OBVIOUS
<1>3. flash' = flash \cup {n} /\ n.key = k /\ n.data = h.data
  <2>1. buffer[h.slot].data = h.data
    <3>1. buffer[h.slot] = [key |-> h.key, data |-> h.data, used |-> TRUE]
      BY <1>1 DEF Stable, StorageInv, HeldUntilCallback, Writes
    <3> QED BY <3>1
  <2> QED BY <1>1, <2>1 DEF WriteRecord
<1>4. \A c, r : r \in Found(c)' <=> r \in Found(c) \/ (r = n /\ c = k)
  BY <1>3 DEF Found
<1>5. Values' = [Values EXCEPT ![k] = Values[k] \cup Asked[k]]
  <2>0. \A c \in Key : \A d : /\ d \in Values[c] <=> \E r \in Found(c) : r.data = d
                              /\ d \in Values'[c] <=> \E r \in Found(c)' : r.data = d
    BY Mapped
  <2>1. \A c \in Key : c # k => Values'[c] = Values[c]
    <3> SUFFICES ASSUME NEW c \in Key, c # k PROVE \A d : d \in Values'[c] <=> d \in Values[c]
      OBVIOUS
    <3> QED BY <1>4, <2>0
  <2>2. Values'[k] = Values[k] \cup {h.data}
    <3>1. \A d : d \in Values'[k] <=> d \in Values[k] \/ d = h.data
      BY <1>2, <1>3, <1>4, <2>0
    <3> QED BY <3>1
  <2> QED BY <1>2, <2>1, <2>2, Mapped
<1>6. Half = {} /\ Half' = {k} /\ UNCHANGED Asked
  BY <1>1 DEF Half, Asked
<1> QED BY <1>1, <1>2, <1>5, <1>6 DEF Store!Begin

\* It deletes the old one and reports the end.
LEMMA EndWriteSucceeds ==
  ASSUME Stable, EndWrite
  PROVE  Store!Succeed(Head(ops).key)
<1>1. /\ StorageInv /\ Head(ops) = ops[1] /\ 1 \in Writes /\ ops # << >>
      /\ written /\ ~written' /\ UNCHANGED torn /\ FdsEventHandler /\ Head(ops).kind # "gc"
      /\ nextId' = nextId
  BY DEF Stable, StorageInv, TypeOK, Writes, EndWrite, Running
<1> PICK h : h = Head(ops)
  OBVIOUS
<1> PICK k : k = h.key
  OBVIOUS
<1>2. k \in Key /\ Asked[k] = {h.data} /\ Asked' = [Asked EXCEPT ![k] = {}]
  BY <1>1, EventAnswers
<1>3. flash' = {r \in flash : h.kind = "update" => r.id # h.old}
  BY <1>1 DEF EndWrite
<1>4. FlashInv'
  BY EndWriteKeepsFlash DEF Stable
<1>5. stable'[k] = {h.data} /\ torn' = torn
  BY <1>1, <1>2 DEF EndWrite, Stable, StorageInv, TypeOK
<1>6. Half = {k} /\ Half' = {}
  BY <1>1 DEF Half
<1>7. h.kind = "update" => \E r \in flash : r.id = h.old /\ r.key = k
  BY <1>1 DEF Stable, FlashInv, StillFound, Found
<1>8. /\ \A c, r : c # k /\ r \in Found(c) => r \in Found(c)'
      /\ \A c, r : r \in Found(c)' => r \in Found(c)
  <2>1. \A r \in flash : r.key # k /\ h.kind = "update" => r.id # h.old
    BY <1>7 DEF Stable, FlashInv, Ids
  <2> QED BY <1>3, <2>1 DEF Found
<1>9. \A c \in Key : \A d : /\ d \in Values[c] <=> \E r \in Found(c) : r.data = d
                            /\ d \in Values'[c] <=> \E r \in Found(c)' : r.data = d
  BY Mapped
<1>10. /\ \A c \in Key : c # k => Values'[c] = Values[c]
       /\ Values'[k] \subseteq Values[k]
  <2>1. ASSUME NEW c \in Key, c # k PROVE Values'[c] = Values[c]
    <3>1. \A d : d \in Values'[c] <=> d \in Values[c]
      BY <1>8, <1>9, <2>1
    <3> QED BY <3>1
  <2>2. \A d \in Values'[k] : d \in Values[k]
    BY <1>2, <1>8, <1>9
  <2> QED BY <2>1, <2>2
<1>11. h.data \in Values'[k]
  <2>1. \E r \in Found(k)' : r.data = h.data
    BY <1>2, <1>4, <1>5 DEF FlashInv, Kept
  <2> QED BY <1>2, <1>9, <2>1
<1>12. k \notin torn => Values'[k] = {h.data}
  <2> SUFFICES ASSUME k \notin torn PROVE Values'[k] = {h.data}
    OBVIOUS
  <2>1. \A r \in Found(k)' : r.data \in stable'[k]
    <3>1. (\A c \in Key \ torn : \A r \in Found(c) :
             ~ (written /\ ops[1].key = c) => r.data \in stable[c])'
      BY <1>4 DEF FlashInv, OneVersion
    <3> QED BY <1>1, <1>2, <1>5, <3>1
  <2>2. \A d \in Values'[k] : d = h.data
    BY <1>2, <1>5, <1>9, <2>1
  <2> QED BY <1>11, <2>2
<1>13. Values' = [Values EXCEPT ![k] = Values'[k]]
  BY <1>2, <1>10, Mapped
<1> PICK left : left = Values'[k]
  OBVIOUS
<1>14. /\ left \in SUBSET Values[k] /\ Asked[k] \subseteq left
       /\ k \notin torn => left = Asked[k]
       /\ Values' = [Values EXCEPT ![k] = left]
  BY <1>2, <1>10, <1>11, <1>12, <1>13
<1>15. Store!Succeed(k)
  BY <1>2, <1>5, <1>6, <1>14 DEF Store!Succeed
<1> QED BY <1>15

\* A reset tears no key but the one of which it finds two versions.
LEMMA ResetCrashes == ASSUME Stable, Reset PROVE Store!Crash
<1>1. /\ ops' = << >> /\ ~written' /\ UNCHANGED flash
      /\ torn' = torn \cup {k \in Key : \E r, s \in flash : r # s /\ r.key = k /\ s.key = k}
  BY DEF Reset
<1>2. UNCHANGED Values
  BY <1>1 DEF Values, Stored
<1>3. Writes' = {}
  BY <1>1 DEF Writes
<1>4. Asked' = [k \in Key |-> {}] /\ Half' = {}
  BY <1>1, <1>3, AskedHas, Mapped DEF Half
<1>5. ASSUME NEW k \in Key \ torn, NEW r \in flash, NEW s \in flash,
             r # s, r.key = k, s.key = k
      PROVE  k \in Half
  <2>1. written /\ ops[1].key = k
    BY <1>5 DEF Stable, FlashInv, OneVersion, Found
  <2>2. Head(ops) = ops[1]
    BY <2>1 DEF Stable, FlashInv, Halfway, Writes, StorageInv, TypeOK
  <2> QED BY <2>1, <2>2 DEF Half
<1>6. torn \subseteq torn' /\ torn' \subseteq torn \cup Half
  BY <1>1, <1>5
<1>7. ASSUME NEW k \in Key \ torn', NEW v \in Values[k], NEW w \in Values[k] PROVE v = w
  <2>1. PICK r \in Found(k), s \in Found(k) : r.data = v /\ s.data = w
    BY <1>7, Mapped
  <2>2. r = s
    BY <1>1, <1>7, <2>1 DEF Found
  <2> QED BY <2>1, <2>2
<1> QED BY <1>2, <1>4, <1>6, <1>7 DEF Store!Crash

LEMMA StoreStep == ASSUME Stable, [Next]_vars PROVE [Store!Next]_(Store!storeVars)
<1>1. ASSUME NEW k \in Key, NEW v \in Value, Write(k, v)
      PROVE  [Store!Next]_(Store!storeVars)
  BY <1>1, WriteAsks DEF Store!Next
<1>2. CASE Mount \/ UNCHANGED vars
  <2>1. UNCHANGED << ops, written, flash, torn >>
    BY <1>2 DEF Mount, vars
  <2> QED BY <2>1 DEF Store!storeVars, Values, Stored, Asked, Half
<1>3. CASE WriteRecord
  <2>1. Head(ops).key \in Key
    <3>1. Head(ops) = ops[1] /\ 1 \in Writes
      BY <1>3 DEF WriteRecord, Running, Writes, Stable, StorageInv, TypeOK
    <3> QED BY <3>1, OneAsked
  <2> QED BY <1>3, <2>1, WriteRecordBegins DEF Store!Next
<1>4. CASE EndWrite
  <2>1. Head(ops).key \in Key
    <3>1. Head(ops) = ops[1] /\ 1 \in Writes
      BY <1>4 DEF EndWrite, Running, Writes, Stable, StorageInv, TypeOK
    <3> QED BY <3>1, OneAsked
  <2> QED BY <1>4, <2>1, EndWriteSucceeds DEF Store!Next
<1>5. CASE FailWrite
  <2>1. /\ ops # << >> /\ Head(ops).kind # "gc" /\ FdsEventHandler
        /\ ~written /\ UNCHANGED << written, flash, torn >>
    BY <1>5 DEF FailWrite, Running
  <2>2. /\ Head(ops).key \in Key /\ Asked[Head(ops).key] = {Head(ops).data}
        /\ Asked' = [Asked EXCEPT ![Head(ops).key] = {}]
    BY <2>1, EventAnswers
  <2>3. Half = {} /\ Half' = {} /\ UNCHANGED Values
    BY <2>1 DEF Half, Values, Stored
  <2>4. Store!Fail(Head(ops).key)
    BY <2>1, <2>2, <2>3 DEF Store!Fail
  <2> QED BY <2>2, <2>4 DEF Store!Next
<1>6. CASE EndGc
  <2>1. /\ ops # << >> /\ ops \in Seq(Op) /\ ops[1].kind = "gc"
        /\ UNCHANGED << written, flash, torn >> /\ StorageInv
    BY <1>6 DEF EndGc, Running, Stable, StorageInv, TypeOK
  <2>2. 1 \notin Writes /\ ~written
    BY <2>1 DEF Writes, Stable, FlashInv, Halfway
  <2>3. \A i \in Writes : \E j \in Writes' : ops'[j] = ops[i]
    BY <1>6, <2>1, <2>2, WritesStay
  <2>4. \A j \in Writes' : \E i \in Writes : ops'[j] = ops[i]
    BY <1>6, <2>1, WritesMoveUp
  <2>5. \A k \in Key : Asked'[k] = Asked[k]
    <3> SUFFICES ASSUME NEW k \in Key PROVE \A d : d \in Asked'[k] <=> d \in Asked[k]
      OBVIOUS
    <3> QED BY <2>3, <2>4, AskedHas
  <2>6. UNCHANGED << Asked, Half, Values >>
    BY <2>1, <2>2, <2>5, Mapped DEF Half, Values, Stored
  <2> QED BY <2>1, <2>6 DEF Store!storeVars
<1>7. CASE Reset
  BY <1>7, ResetCrashes DEF Store!Next
<1> QED BY <1>1, <1>2, <1>3, <1>4, <1>5, <1>6, <1>7 DEF Next

\* storage.c over FDS is an abstract store whose writes take place whole or not
\* at all, for clients that await the end of a write to a key before the next.
THEOREM ImplementsStore == ASSUME OneAtATime PROVE Spec => StoreSpec
<1>1. Init => Store!Init
  <2> SUFFICES ASSUME Init PROVE Store!Init
    OBVIOUS
  <2>1. ops = << >> /\ flash = {} /\ ~written /\ torn = {}
    BY DEF Init
  <2>2. Writes = {} /\ \A k : Found(k) = {}
    BY <2>1 DEF Writes, Found
  <2> QED BY <2>1, <2>2, AskedHas, Mapped DEF Store!Init, Half
<1>2. Init => FlashInv
  BY InitFlashInv
<1>3. StorageInv /\ FlashInv /\ [Next]_vars => FlashInv' /\ [Store!Next]_(Store!storeVars)
  BY FlashStep, StoreStep DEF Stable
<1> QED BY <1>1, <1>2, <1>3, StorageInvariance, PTL DEF Spec, StoreSpec, Store!Spec
=============================================================================
