---------------------------- MODULE CircularBuf ----------------------------
(***************************************************************************)
(* The byte ring of circular_buf_safe.c and the critical region of         *)
(* critical_region.c, used the way acc.c uses them: whole commands go in   *)
(* and out, from the main loop and from the TWI interrupt.                 *)
(*                                                                         *)
(* Three things must fit together for the ring to be a queue of commands.  *)
(* Both memcpy and the index updates that follow are protected by a region *)
(* that nests (execute_one_cmd asks for the size, and then pops, inside a  *)
(* region of its own) and whose depth the firmware counts itself.  size is *)
(* wrong for a ring that has wrapped, so only its being zero may be used.  *)
(* And a push that wraps copies its first bytes twice, which a capacity    *)
(* that is a multiple of the element excludes.                             *)
(*                                                                         *)
(* A main loop function is a list of steps (pc), an interrupt is one step  *)
(* that may come whenever interrupts are not masked.  Masking is the       *)
(* SoftDevice's (external).                                                *)
(***************************************************************************)
EXTENDS Integers, Sequences

CONSTANTS
  Capacity,  \* circular_buf_t.capacity, in bytes
  Width,     \* sizeof(acc_command_t)
  Byte,      \* the values of a byte
  Element,   \* the commands, as sequences of bytes counted from 0
  Word,      \* 2^32, the range of the indices
  Nothing    \* an uninitialised command on the stack

ASSUME RingAssumption ==
  /\ Width \in Nat \ {0}
  /\ Capacity \in Nat \ {0} /\ Capacity % Width = 0
  /\ Word \in Nat /\ 2 * Capacity < Word
  /\ 0 \in Byte
  /\ Element \subseteq [0 .. Width - 1 -> Byte]
  /\ Nothing \notin Element

VARIABLES
  ring,    \* circular_buf_t.buffer
  head,    \* where the next byte goes
  tail,    \* where the oldest byte is
  full,    \* head has caught up with tail
  nested,  \* g_nested
  masked,  \* the SoftDevice keeps the interrupts of the application back
  pc,      \* where the main loop is
  held,    \* the command on the stack of the main loop
  taken    \* history: the command that was popped last

bufVars == << ring, head, tail, full >>
vars == << bufVars, nested, masked, pc, held, taken >>

Buf == [ring |-> ring, head |-> head, tail |-> tail, full |-> full]

TypeOK ==
  /\ ring \in [0 .. Capacity - 1 -> Byte]
  /\ head \in 0 .. Capacity - 1 /\ tail \in 0 .. Capacity - 1
  /\ full \in BOOLEAN
  /\ nested \in 0 .. 2
  /\ masked \in BOOLEAN
  /\ pc \in {"ready", "copy_in", "commit_in", "look", "pop", "commit_out", "leave"}
  /\ held \in Element \union {Nothing}
  /\ taken \in Element \union {Nothing}

-----------------------------------------------------------------------------
(***************************************************************************)
(* The ring.  A buffer is a record; push and pop are split where memcpy    *)
(* ends and the indices change.                                            *)
(***************************************************************************)
Least(a, b) == IF a < b THEN a ELSE b

\* Mistake: a full ring, whose indices are equal, is taken for an empty one.
BugSize(b) ==
  IF b.tail <= b.head THEN b.head - b.tail
                      ELSE (Capacity - (b.head - b.tail)) % Word

\* size: with head behind tail it is the capacity PLUS the bytes that are free.
Size(b) ==
  IF b.full THEN Capacity
  ELSE IF b.tail <= b.head THEN b.head - b.tail
  ELSE (Capacity - (b.head - b.tail)) % Word

\* The bytes memcpy moves up to the end of the ring (or to tail) ...
InFirst(b) ==
  Least(Width, IF b.tail <= b.head THEN Capacity - b.head ELSE b.tail - b.head)

\* ... and from its start.
InSecond(b) ==
  IF b.tail <= b.head THEN Least(Width - InFirst(b), b.tail) ELSE 0

\* The second memcpy of push starts with data again.
CopiedIn(b, data) ==
  IF b.full THEN b
  ELSE [b EXCEPT !.ring = [i \in 0 .. Capacity - 1 |->
          IF i \in b.head .. b.head + InFirst(b) - 1 THEN data[i - b.head]
          ELSE IF i < InSecond(b) THEN data[i]
          ELSE b.ring[i]]]

\* Mistake: the head leaves the ring at its end.
BugCommittedIn(b) ==
  LET next == b.head + InFirst(b) + InSecond(b)
  IN  IF b.full THEN b ELSE [b EXCEPT !.head = next, !.full = next = b.tail]

CommittedIn(b) ==
  LET next == (b.head + InFirst(b) + InSecond(b)) % Capacity
  IN  IF b.full THEN b ELSE [b EXCEPT !.head = next, !.full = next = b.tail]

OutFirst(b) ==
  Least(Width, IF b.tail <= b.head THEN b.head - b.tail ELSE Capacity - b.tail)

OutSecond(b) ==
  IF b.tail <= b.head THEN 0 ELSE Least(Width - OutFirst(b), b.head)

\* What pop leaves in the caller's command: nothing of a full ring, where
\* head equals tail.
CopiedOut(b) ==
  IF OutFirst(b) + OutSecond(b) < Width THEN Nothing
  ELSE [i \in 0 .. Width - 1 |->
          b.ring[IF i < OutFirst(b) THEN b.tail + i ELSE i - OutFirst(b)]]

\* An empty ring starts at 0 again; so does a full one that was popped.
CommittedOut(b) ==
  LET next == (b.tail + OutFirst(b) + OutSecond(b)) % Capacity
  IN  IF next = b.head
        THEN [b EXCEPT !.head = 0, !.tail = 0, !.full = FALSE]
        ELSE [b EXCEPT !.tail = next]

\* The step that leaves the buffer b.
BufBecomes(b) ==
  /\ ring' = b.ring /\ head' = b.head /\ tail' = b.tail /\ full' = b.full

-----------------------------------------------------------------------------
(***************************************************************************)
(* The critical region.                                                    *)
(***************************************************************************)
\* Mistake: the SoftDevice is told of every exit that it is the last one.
BugStillMasked(depth) == FALSE

\* critical_region_exit, from a depth: sd_nvic_critical_region_exit unmasks
\* unless it is told that the region is nested.
StillMasked(depth) == 1 < depth

Enter ==
  /\ masked' = TRUE
  /\ nested' = nested + 1

\* Mistake: the depth is never counted down.
BugExit ==
  /\ masked' = StillMasked(nested)
  /\ UNCHANGED nested

Exit ==
  /\ masked' = StillMasked(nested)
  /\ nested' = nested - 1

\* A region inside the step of a function: depth and mask as its exit leaves them.
EnterAndExit ==
  /\ masked' = StillMasked(nested + 1)
  /\ UNCHANGED nested

-----------------------------------------------------------------------------
(***************************************************************************)
(* The main loop: circular_buf_push of a command, and execute_one_cmd.     *)
(***************************************************************************)
StartPush(e) ==
  /\ pc = "ready" /\ pc' = "copy_in"
  /\ held' = e
  /\ Enter
  /\ UNCHANGED << bufVars, taken >>

CopyIn ==
  /\ pc = "copy_in" /\ pc' = "commit_in"
  /\ BufBecomes(CopiedIn(Buf, held))
  /\ UNCHANGED << nested, masked, held, taken >>

CommitIn ==
  /\ pc = "commit_in" /\ pc' = "ready"
  /\ BufBecomes(CommittedIn(Buf))
  /\ Exit
  /\ UNCHANGED << held, taken >>

StartExec ==
  /\ pc = "ready" /\ pc' = "look"
  /\ Enter
  /\ UNCHANGED << bufVars, held, taken >>

\* circular_buf_size, in a region of its own.
Look ==
  /\ pc = "look"
  /\ pc' = IF 0 < Size(Buf) THEN "pop" ELSE "leave"
  /\ EnterAndExit
  /\ UNCHANGED << bufVars, held, taken >>

StartPop ==
  /\ pc = "pop" /\ pc' = "commit_out"
  /\ held' = CopiedOut(Buf)
  /\ Enter
  /\ UNCHANGED << bufVars, taken >>

CommitOut ==
  /\ pc = "commit_out" /\ pc' = "leave"
  /\ BufBecomes(CommittedOut(Buf))
  /\ taken' = held
  /\ Exit
  /\ UNCHANGED held

Leave ==
  /\ pc = "leave" /\ pc' = "ready"
  /\ Exit
  /\ UNCHANGED << bufVars, held, taken >>

-----------------------------------------------------------------------------
(***************************************************************************)
(* The TWI interrupt, whose handler runs to its end: it pushes a read of   *)
(* the samples, or pops the next command (execute_one_cmd_force).          *)
(***************************************************************************)
IsrPush(e) ==
  /\ ~masked
  /\ BufBecomes(CommittedIn(CopiedIn(Buf, e)))
  /\ EnterAndExit
  /\ UNCHANGED << pc, held, taken >>

IsrPop ==
  /\ ~masked /\ 0 < Size(Buf)
  /\ BufBecomes(CommittedOut(Buf))
  /\ taken' = CopiedOut(Buf)
  /\ EnterAndExit
  /\ UNCHANGED << pc, held >>

\* circular_buf_safe_init of a static buffer.
Init ==
  /\ ring = [i \in 0 .. Capacity - 1 |-> 0]
  /\ head = 0 /\ tail = 0 /\ full = FALSE
  /\ nested = 0 /\ masked = FALSE
  /\ pc = "ready" /\ held = Nothing /\ taken = Nothing

Next ==
  \/ \E e \in Element : StartPush(e) \/ IsrPush(e)
  \/ CopyIn \/ CommitIn
  \/ StartExec \/ Look \/ StartPop \/ CommitOut \/ Leave
  \/ IsrPop

Spec == Init /\ [][Next]_vars

-----------------------------------------------------------------------------
(***************************************************************************)
(* Properties.                                                             *)
(***************************************************************************)
\* Bytes in the ring.
Used == IF full THEN Capacity ELSE (head - tail + Capacity) % Capacity

\* The commands in the ring, oldest first.
Contents ==
  [k \in 1 .. Used \div Width |->
     [i \in 0 .. Width - 1 |-> ring[(tail + (k - 1) * Width + i) % Capacity]]]

\* circular_buf_size, whose value is wrong once the ring has wrapped, is zero
\* exactly when the ring is empty: all that execute_one_cmd makes of it.
SizeTellsEmpty == Size(Buf) = 0 <=> Contents = << >>

\* From the first to the last byte of a push, and from the look at the size
\* to the end of the pop, no interrupt comes between: each inner exit leaves
\* the mask of the outer region alone, and the last one takes it away.
RegionHolds == masked <=> pc # "ready"

\* The ring is a queue of whole commands for both contexts: no byte of a
\* command is lost, torn or handed out twice, whoever interrupts whom.
Queue == INSTANCE ElementQueue WITH
           Places <- Capacity \div Width, queue <- Contents

QueueSpec == Queue!Spec
=============================================================================
