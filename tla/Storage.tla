------------------------------- MODULE Storage -------------------------------
(***************************************************************************)
(* storage.c: records kept in the flash by FDS, an external library, for   *)
(* config.c.                                                               *)
(*                                                                         *)
(* A write is asynchronous.  FDS keeps a pointer to the data until it has  *)
(* written them, so storage_write copies them into one of a few buffers,   *)
(* and fds_event_handler gives the buffer back.  FDS writes the new version*)
(* of a record before it deletes the old one, one operation at a time, and *)
(* reports the end of each; calls and reports all run in the main loop.    *)
(* A reset may come at any moment.                                         *)
(***************************************************************************)
EXTENDS Naturals, Sequences

CONSTANTS
  Key,            \* storage_record_id_t of the only file
  Value,          \* what clients store
  None,           \* the key and the data of a zeroed buffer
  QueueSize,      \* FDS_OP_QUEUE_SIZE, STORAGE_RECORDS_BUFFER_LENGTH
  OneAtATime,     \* clients await the end of a write to a key before the next
  WritesMax,      \* bound: records written to the flash in a behaviour
  FailsMax,       \* bound: operations the flash fails
  ResetsMax       \* bound: resets

ASSUME StorageAssumption ==
  /\ None \notin Key \cup Value
  /\ QueueSize \in Nat \ {0}
  /\ OneAtATime \in BOOLEAN
  /\ WritesMax \in Nat /\ FailsMax \in Nat /\ ResetsMax \in Nat

Slot == 1 .. QueueSize

VARIABLES
  buffer,   \* g_records_buffer
  mounted,  \* fds_init has ended
  ops,      \* the operations queued in FDS, the running one first
  written,  \* the running operation has written its record
  flash,    \* the valid records
  nextId,   \* the id FDS gives to the next record
  fails,    \* operations that failed so far
  resets,   \* resets so far
  stable,   \* history: what a key holds once no write to it is pending
  torn      \* history: keys that had two records at a reset

vars == << buffer, mounted, ops, written, flash, nextId, fails, resets, stable, torn >>

Buffer == [key : Key \cup {None}, data : Value \cup {None}, used : BOOLEAN]

\* data is ghost: what the client gave to storage_write.
Op == [kind : {"write", "update", "gc"}, key : Key \cup {None}, slot : Nat,
       old : Nat, data : Value \cup {None}]

Record == [id : Nat, key : Key, data : Value \cup {None}]

TypeOK ==
  /\ buffer \in [Slot -> Buffer]
  /\ mounted \in BOOLEAN
  /\ ops \in Seq(Op) /\ Len(ops) <= QueueSize
  /\ written \in BOOLEAN
  /\ flash \subseteq Record
  /\ nextId \in Nat /\ fails \in 0 .. FailsMax /\ resets \in 0 .. ResetsMax
  /\ stable \in [Key -> SUBSET Value]
  /\ torn \subseteq Key

Empty == [i \in Slot |-> [key |-> None, data |-> None, used |-> FALSE]]

Gc == [kind |-> "gc", key |-> None, slot |-> 0, old |-> 0, data |-> None]

Pending(k) == \E i \in 1 .. Len(ops) : ops[i].key = k

Stored(k) == {r.data : r \in {r \in flash : r.key = k}}

-----------------------------------------------------------------------------
(***************************************************************************)
(* storage.c.                                                              *)
(***************************************************************************)
\* The first buffer that is not used; without one the write is BUSY.
FirstFree(i) == /\ ~buffer[i].used
                /\ \A j \in Slot : j < i => buffer[j].used

\* fds_record_update or fds_record_write: refused before FDS is mounted and
\* when its queue is full.
Accepts == mounted /\ Len(ops) < QueueSize

\* Mistake: the buffer of a refused write is not given back.
BugFilled(i, k, v) == [buffer EXCEPT ![i] = [key |-> k, data |-> v, used |-> TRUE]]

Filled(i, k, v) == [buffer EXCEPT ![i] = [key |-> k, data |-> v, used |-> Accepts]]

\* Mistake: an existing record is not looked for.
BugFound(k) == {}

\* fds_record_find, which takes any valid record of the key.
Found(k) == {r \in flash : r.key = k}

\* storage_write.
Write(k, v) ==
  /\ OneAtATime => ~Pending(k)
  /\ nextId + Len(ops) < WritesMax
  /\ \E i \in Slot :
       /\ FirstFree(i)
       /\ buffer' = Filled(i, k, v)
       /\ \/ /\ ~Accepts
             /\ UNCHANGED ops
          \/ /\ Accepts /\ Found(k) = {}
             /\ ops' = Append(ops, [kind |-> "write", key |-> k, slot |-> i,
                                    old |-> 0, data |-> v])
          \/ \E r \in Found(k) :
               /\ Accepts
               /\ ops' = Append(ops, [kind |-> "update", key |-> k, slot |-> i,
                                      old |-> r.id, data |-> v])
  /\ UNCHANGED << mounted, written, flash, nextId, fails, resets, stable, torn >>

\* Mistake: the completion is not told apart by its key.
BugFreed(k) == [i \in Slot |-> [buffer[i] EXCEPT !.used = FALSE]]

\* fds_event_handler frees the buffers of the key.
Freed(k) ==
  [i \in Slot |-> IF buffer[i].key = k THEN [buffer[i] EXCEPT !.used = FALSE]
                                       ELSE buffer[i]]

\* fds_event_handler on FDS_EVT_WRITE and FDS_EVT_UPDATE, whatever the result.
\* fds_gc finds the ended operation still in the queue.
FdsEventHandler ==
  /\ buffer' = Freed(Head(ops).key)
  /\ ops' = IF Len(ops) < QueueSize THEN Append(Tail(ops), Gc) ELSE Tail(ops)

-----------------------------------------------------------------------------
(***************************************************************************)
(* FDS and the flash.                                                      *)
(***************************************************************************)
Mount ==
  /\ ~mounted /\ mounted' = TRUE
  /\ UNCHANGED << buffer, ops, written, flash, nextId, fails, resets, stable, torn >>

Running(kinds) == ops # << >> /\ Head(ops).kind \in kinds

\* The record an update replaces is looked for again.
OldIsThere == Head(ops).kind = "update" => \E r \in flash : r.id = Head(ops).old

\* The record is written, with the data its buffer has by now.
WriteRecord ==
  /\ Running({"write", "update"}) /\ ~written /\ OldIsThere
  /\ written' = TRUE
  /\ flash' = flash \cup {[id |-> nextId, key |-> Head(ops).key,
                           data |-> buffer[Head(ops).slot].data]}
  /\ nextId' = nextId + 1
  /\ UNCHANGED << buffer, mounted, ops, fails, resets, stable, torn >>

\* The old record is deleted and the success reported.
EndWrite ==
  /\ Running({"write", "update"}) /\ written
  /\ written' = FALSE
  /\ flash' = {r \in flash : Head(ops).kind = "update" => r.id # Head(ops).old}
  /\ stable' = [stable EXCEPT ![Head(ops).key] = {Head(ops).data}]
  /\ FdsEventHandler
  /\ UNCHANGED << mounted, nextId, fails, resets, torn >>

\* The old record has gone, or the flash fails: nothing is written.
FailWrite ==
  /\ Running({"write", "update"}) /\ ~written
  /\ \/ ~OldIsThere /\ UNCHANGED fails
     \/ OldIsThere /\ fails < FailsMax /\ fails' = fails + 1
  /\ FdsEventHandler
  /\ UNCHANGED << mounted, written, flash, nextId, resets, stable, torn >>

EndGc ==
  /\ Running({"gc"})
  /\ ops' = Tail(ops)
  /\ UNCHANGED << buffer, mounted, written, flash, nextId, fails, resets, stable, torn >>

\* A reset loses the buffers and the queue, then storage_init runs again.
Reset ==
  /\ resets < ResetsMax /\ resets' = resets + 1
  /\ buffer' = Empty /\ ops' = << >> /\ written' = FALSE /\ mounted' = FALSE
  /\ stable' = [k \in Key |-> Stored(k)]
  /\ torn' = torn \cup {k \in Key : \E r, s \in flash : r # s /\ r.key = k /\ s.key = k}
  /\ UNCHANGED << flash, nextId, fails >>

\* storage_init on an erased flash.
Init ==
  /\ buffer = Empty /\ mounted = FALSE
  /\ ops = << >> /\ written = FALSE
  /\ flash = {} /\ nextId = 0 /\ fails = 0 /\ resets = 0
  /\ stable = [k \in Key |-> {}] /\ torn = {}

Next ==
  \/ \E k \in Key, v \in Value : Write(k, v)
  \/ Mount \/ WriteRecord \/ EndWrite \/ FailWrite \/ EndGc \/ Reset

Spec == Init /\ [][Next]_vars

-----------------------------------------------------------------------------
(***************************************************************************)
(* What the clients take the storage for.                                  *)
(***************************************************************************)
Values == [k \in Key |-> Stored(k)]

Asked ==
  [k \in Key |-> {ops[i].data : i \in {i \in 1 .. Len(ops) : /\ ops[i].kind # "gc"
                                                         /\ ops[i].key = k}}]

Half == IF written THEN {Head(ops).key} ELSE {}

Store == INSTANCE ValueStore WITH stored <- Values, asked <- Asked, half <- Half

-----------------------------------------------------------------------------
(***************************************************************************)
(* Properties.                                                             *)
(***************************************************************************)
\* "Store the record and free it in the callback": until FDS has reported the
\* end of a write its buffer is reserved and holds what the client gave.
HeldUntilCallback ==
  \A i \in 1 .. Len(ops) :
    ops[i].kind # "gc" =>
      buffer[ops[i].slot] = [key |-> ops[i].key, data |-> ops[i].data, used |-> TRUE]

\* A buffer that is reserved has a write pending that will give it back: no
\* refusal, failure or reset leaks one of the few.
NoBufferLeaks ==
  \A s \in Slot : buffer[s].used =>
    \E i \in 1 .. Len(ops) : ops[i].kind # "gc" /\ ops[i].slot = s

\* A key always holds the value whose write succeeded last, over failures and
\* resets, and besides it at most the value of the pending write.  But a key that
\* a reset caught between the writing of a record and the deletion of the old one
\* keeps a second version, which storage_read may find, for ever.
ReadsBack ==
  \A k \in Key :
    /\ stable[k] \subseteq Stored(k)
    /\ k \notin torn => Stored(k) \subseteq stable[k] \cup Asked[k]

\* For clients that wait, every write takes place whole or not at all: the
\* records, the queue of FDS and the buffers implement the abstract store, in
\* which a failed or refused write leaves no trace, a key is changed by its own
\* writes only, and a reset loses no value.
StoreSpec == Store!Spec
=============================================================================
