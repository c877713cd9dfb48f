-------------------------- MODULE CircularBufProofs --------------------------
(***************************************************************************)
(* The critical region of a command is held from its first step to its     *)
(* last, and the ring holds whole commands, for every capacity.            *)
(*                                                                         *)
(* RegionHolds is not inductive: whether an exit unmasks depends on the    *)
(* depth, which the firmware counts.  DepthInv says how deep each step is. *)
(* The ring needs its indices to stay where elements begin: then a memcpy  *)
(* never wraps inside an element, and RingInv can say that every place     *)
(* from tail to head holds one.  The elements in those places are the      *)
(* queue: Elements says so without the bytes, and each half of a push or   *)
(* of a pop is first shown to do to Elements what the queue does.          *)
(***************************************************************************)
EXTENDS CircularBuf, SequenceTheorems, TLAPS

\* The regions a step of the main loop is inside of.
Depth == [ready |-> 0, copy_in |-> 1, commit_in |-> 1, look |-> 1, pop |-> 1,
          commit_out |-> 2, leave |-> 1]

DepthInv ==
  /\ pc \in {"ready", "copy_in", "commit_in", "look", "pop", "commit_out", "leave"}
  /\ nested = Depth[pc]
  /\ masked <=> 0 < nested

\* What the two kinds of exit leave of the mask.
LEMMA ExitMask ==
  /\ Exit => nested' = nested - 1 /\ (masked' <=> 1 < nested)
  /\ EnterAndExit => nested' = nested /\ (masked' <=> 1 < nested + 1)
BY Zenon DEF Exit, EnterAndExit, StillMasked

\* An interrupt comes at depth 0, and leaves the depth and the mask as they are.
LEMMA InterruptKeeps ==
  ASSUME DepthInv, ~masked, EnterAndExit, UNCHANGED pc
  PROVE  DepthInv'
BY ExitMask DEF DepthInv, Depth

\* Each step of the main loop enters or leaves as many regions as it should.
LEMMA DepthStep == DepthInv /\ [Next]_vars => DepthInv'
<1> SUFFICES ASSUME DepthInv, [Next]_vars PROVE DepthInv'
  OBVIOUS
<1>1. CASE \E e \in Element : StartPush(e)
  BY <1>1 DEF DepthInv, StartPush, Enter, Depth
<1>2. CASE \E e \in Element : IsrPush(e)
  BY <1>2, InterruptKeeps DEF IsrPush
<1>3. CASE CopyIn
  BY <1>3 DEF DepthInv, CopyIn, Depth
<1>4. CASE CommitIn
  BY <1>4, ExitMask DEF DepthInv, CommitIn, Depth
<1>5. CASE StartExec
  BY <1>5 DEF DepthInv, StartExec, Enter, Depth
<1>6. CASE Look
  <2>1. pc' \in {"pop", "leave"}
    BY <1>6 DEF Look
  <2> QED BY <1>6, <2>1, ExitMask DEF DepthInv, Look, Depth
<1>7. CASE StartPop
  BY <1>7 DEF DepthInv, StartPop, Enter, Depth
<1>8. CASE CommitOut
  BY <1>8, ExitMask DEF DepthInv, CommitOut, Depth
<1>9. CASE Leave
  BY <1>9, ExitMask DEF DepthInv, Leave, Depth
<1>10. CASE IsrPop
  BY <1>10, InterruptKeeps DEF IsrPop
<1>11. CASE UNCHANGED vars
  BY <1>11 DEF DepthInv, vars
<1> QED
  BY <1>1, <1>2, <1>3, <1>4, <1>5, <1>6, <1>7, <1>8, <1>9, <1>10, <1>11 DEF Next

\* No interrupt comes between the first and the last byte of a push, nor between
\* the look at the size and the end of the pop, though the regions nest.
THEOREM RegionIsHeld == Spec => []RegionHolds
<1>1. Init => DepthInv
  BY DEF Init, DepthInv, Depth
<1>2. DepthInv => RegionHolds
  BY DEF DepthInv, RegionHolds, Depth
<1> QED BY <1>1, <1>2, DepthStep, PTL DEF Spec

\* A place where an element may begin.
Aligned(a) == \E k \in Nat : a = k * Width

LEMMA AlignedPlaces ==
  /\ Aligned(0) /\ Aligned(Capacity)
  /\ \A a : Aligned(a) => a \in Nat
  /\ \A a, b : Aligned(a) /\ Aligned(b) => Aligned(a + b)
<1>1. Aligned(0)
  BY RingAssumption DEF Aligned
<1>2. Aligned(Capacity)
  <2>1. Capacity = Width * (Capacity \div Width) + (Capacity % Width)
    BY RingAssumption
  <2>2. Capacity \div Width \in Nat
    BY RingAssumption
  <2>3. Capacity = (Capacity \div Width) * Width
    BY <2>1, <2>2, RingAssumption
  <2> QED BY <2>2, <2>3 DEF Aligned
<1>3. \A a : Aligned(a) => a \in Nat
  BY RingAssumption DEF Aligned
<1>4. ASSUME NEW a, NEW b, Aligned(a), Aligned(b) PROVE Aligned(a + b)
  <2>1. PICK j \in Nat : a = j * Width
    BY <1>4 DEF Aligned
  <2>2. PICK k \in Nat : b = k * Width
    BY <1>4 DEF Aligned
  <2>3. a + b = (j + k) * Width
    BY <2>1, <2>2, RingAssumption
  <2> QED BY <2>3 DEF Aligned
<1> QED BY <1>1, <1>2, <1>3, <1>4

\* Between two places there is room for an element.
LEMMA AlignedGap ==
  ASSUME NEW a, NEW b, Aligned(a), Aligned(b), a < b
  PROVE  a + Width <= b
<1>1. PICK j \in Nat : a = j * Width
  BY DEF Aligned
<1>2. PICK k \in Nat : b = k * Width
  BY DEF Aligned
<1>3. j < k
  <2>1. k <= j => k * Width <= j * Width
    BY RingAssumption
  <2> QED BY <1>1, <1>2, <2>1, RingAssumption
<1>4. (j + 1) * Width <= k * Width
  BY <1>3, RingAssumption
<1> QED BY <1>1, <1>2, <1>4, RingAssumption

LEMMA WholeElements ==
  ASSUME NEW a \in Nat
  PROVE  /\ a < Width => a \div Width = 0
         /\ Width <= a => 1 <= a \div Width
         /\ a \div Width \in Nat
<1>1. a = Width * (a \div Width) + (a % Width) /\ a % Width \in 0 .. Width - 1
      /\ a \div Width \in Nat
  BY RingAssumption
<1> QED BY <1>1, RingAssumption

-----------------------------------------------------------------------------
(***************************************************************************)
(* The ring: its indices stay where elements begin, and every place from   *)
(* the tail to the head holds an element.                                  *)
(***************************************************************************)
Bytes == [0 .. Capacity - 1 -> Byte]

Index == 0 .. Capacity - 1

\* What the ring holds from a place on.
Slot(b, p) == [i \in 0 .. Width - 1 |-> b.ring[p + i]]

\* A place that a pop will come to.
Live(b, p) ==
  \/ b.full
  \/ b.tail <= b.head /\ b.tail <= p /\ p < b.head
  \/ b.head < b.tail /\ (b.tail <= p \/ p < b.head)

Shape(b) ==
  /\ b \in [ring : Bytes, head : Index, tail : Index, full : BOOLEAN]
  /\ Aligned(b.head) /\ Aligned(b.tail)
  /\ b.full => b.head = b.tail

Whole(b) == \A p \in Index : Aligned(p) /\ Live(b, p) => Slot(b, p) \in Element

\* Where the next place is.
LEMMA NextPlace ==
  ASSUME NEW a \in Index, Aligned(a)
  PROVE  /\ a + Width <= Capacity
         /\ (a + Width) % Capacity = IF a + Width = Capacity THEN 0 ELSE a + Width
         /\ (a + Width) % Capacity \in Index
         /\ Aligned((a + Width) % Capacity)
<1>1. a + Width <= Capacity /\ Aligned(a + Width)
  <2>1. Aligned(Width)
    <3>1. Width = 1 * Width
      BY RingAssumption
    <3> QED BY <3>1 DEF Aligned
  <2>2. a < Capacity
    BY RingAssumption DEF Index
  <2> QED BY <2>1, <2>2, AlignedPlaces, AlignedGap
<1>2. (a + Width) % Capacity = IF a + Width = Capacity THEN 0 ELSE a + Width
  <2>0. a \in Nat /\ Width \in Nat /\ Capacity \in Nat \ {0}
    BY RingAssumption DEF Index
  <2>1. CASE a + Width = Capacity
    <3>1. Capacity % Capacity = 0
      BY <2>0
    <3> QED BY <2>1, <3>1
  <2>2. CASE a + Width # Capacity
    BY <1>1, <2>0, <2>2
  <2> QED BY <2>1, <2>2
<1>3. (a + Width) % Capacity \in Index
  BY <1>1, <1>2, RingAssumption DEF Index
<1> QED BY <1>1, <1>2, <1>3, AlignedPlaces

\* A push moves one whole element in one piece, the second memcpy nothing.
LEMMA PushMoves ==
  ASSUME NEW b, Shape(b), ~b.full
  PROVE  InFirst(b) = Width /\ InSecond(b) = 0
<1>1. b.head \in Nat /\ b.tail \in Nat /\ Width \in Nat /\ Capacity \in Nat
      /\ b.head < Capacity
  BY RingAssumption DEF Shape, Index
<1>2. b.head + Width <= Capacity
  BY NextPlace DEF Shape
<1>3. CASE b.tail <= b.head
  BY <1>1, <1>2, <1>3 DEF InFirst, InSecond, Least
<1>4. CASE ~(b.tail <= b.head)
  <2>1. b.head + Width <= b.tail
    BY <1>1, <1>4, AlignedGap DEF Shape
  <2> QED BY <1>1, <1>4, <2>1 DEF InFirst, InSecond, Least
<1> QED BY <1>3, <1>4

\* A pop moves one whole element in one piece, or nothing.
LEMMA PopMoves ==
  ASSUME NEW b, Shape(b)
  PROVE  /\ OutSecond(b) = 0
         /\ OutFirst(b) = IF b.head = b.tail THEN 0 ELSE Width
<1>1. b.head \in Nat /\ b.tail \in Nat /\ Width \in Nat \ {0} /\ Capacity \in Nat
      /\ b.tail < Capacity
  BY RingAssumption DEF Shape, Index
<1>2. b.tail + Width <= Capacity
  BY NextPlace DEF Shape
<1>3. CASE b.tail < b.head
  <2>1. b.tail + Width <= b.head
    BY <1>3, AlignedGap DEF Shape
  <2> QED BY <1>1, <1>3, <2>1 DEF OutFirst, OutSecond, Least
<1>4. CASE b.tail = b.head
  BY <1>1, <1>4 DEF OutFirst, OutSecond, Least
<1>5. CASE b.head < b.tail
  BY <1>1, <1>2, <1>5 DEF OutFirst, OutSecond, Least
<1> QED BY <1>1, <1>3, <1>4, <1>5

\* The bytes of a push go where no element is.
LEMMA CopiedInKeeps ==
  ASSUME NEW b, Shape(b), Whole(b), NEW data \in Element
  PROVE  LET c == CopiedIn(b, data)
         IN  /\ Shape(c) /\ Whole(c)
             /\ c.head = b.head /\ c.tail = b.tail /\ c.full = b.full
             /\ c.full \/ Slot(c, c.head) = data
             /\ \A p \in Index : Aligned(p) /\ Live(b, p) => Slot(c, p) = Slot(b, p)
<1> DEFINE c == CopiedIn(b, data)
           r == [i \in 0 .. Capacity - 1 |->
                   IF i \in b.head .. b.head + Width - 1 THEN data[i - b.head]
                                                         ELSE b.ring[i]]
<1>0. b \in [ring : Bytes, head : Index, tail : Index, full : BOOLEAN]
      /\ b.head \in Nat /\ b.tail \in Nat /\ Width \in Nat \ {0} /\ Capacity \in Nat
      /\ data \in [0 .. Width - 1 -> Byte]
  BY RingAssumption DEF Shape, Index
<1>1. CASE b.full
  BY <1>1 DEF CopiedIn
<1>2. CASE ~b.full
  <2>1. InFirst(b) = Width /\ InSecond(b) = 0
    BY <1>2, PushMoves
  <2>2. c = [b EXCEPT !.ring = r]
    <3>1. \A i \in 0 .. Capacity - 1 : ~(i < 0)
      BY <1>0
    <3> QED BY <1>2, <2>1, <3>1 DEF CopiedIn
  <2>3. r \in Bytes
    <3> SUFFICES ASSUME NEW i \in 0 .. Capacity - 1
                 PROVE  r[i] \in Byte
      BY DEF Bytes
    <3>1. CASE i \in b.head .. b.head + Width - 1
      <4>1. i - b.head \in 0 .. Width - 1
        BY <1>0, <3>1
      <4> QED BY <1>0, <3>1, <4>1
    <3>2. CASE i \notin b.head .. b.head + Width - 1
      BY <1>0, <3>2 DEF Bytes
    <3> QED BY <3>1, <3>2
  <2>4. b.head + Width <= Capacity
    BY NextPlace DEF Shape
  <2>5. /\ c \in [ring : Bytes, head : Index, tail : Index, full : BOOLEAN]
        /\ c.ring = r /\ c.head = b.head /\ c.tail = b.tail /\ c.full = b.full
    BY <1>0, <2>2, <2>3
  <2> HIDE DEF c
  <2>6. Slot(c, c.head) = data
    <3>1. \A i \in 0 .. Width - 1 : /\ b.head + i \in 0 .. Capacity - 1
                                    /\ b.head + i \in b.head .. b.head + Width - 1
                                    /\ (b.head + i) - b.head = i
      BY <1>0, <2>4
    <3>2. \A i \in 0 .. Width - 1 : r[b.head + i] = data[i]
      BY <3>1
    <3> HIDE DEF r
    <3>3. Slot(c, c.head) = [i \in 0 .. Width - 1 |-> data[i]]
      BY <2>5, <3>2 DEF Slot
    <3> QED BY <1>0, <3>3
  <2>7. ASSUME NEW p \in Index, Aligned(p), Live(b, p)
        PROVE  Slot(c, p) = Slot(b, p)
    <3>1. p # b.head
      BY <1>0, <1>2, <2>7 DEF Live, Index
    <3>2. p + Width <= b.head \/ b.head + Width <= p
      <4>1. p < b.head \/ b.head < p
        BY <1>0, <3>1 DEF Index
      <4> QED BY <2>7, <4>1, AlignedGap DEF Shape
    <3>3. p + Width <= Capacity
      BY <2>7, NextPlace
    <3>4. \A i \in 0 .. Width - 1 : /\ p + i \in 0 .. Capacity - 1
                                    /\ p + i \notin b.head .. b.head + Width - 1
      BY <1>0, <3>2, <3>3 DEF Index
    <3>5. \A i \in 0 .. Width - 1 : r[p + i] = b.ring[p + i]
      BY <3>4
    <3> HIDE DEF r
    <3> QED BY <2>5, <3>5 DEF Slot
  <2>8. Shape(c) /\ Whole(c)
    BY <2>5, <2>7 DEF Shape, Whole, Live
  <2> QED BY <2>5, <2>6, <2>7, <2>8 DEF c
<1> QED BY <1>1, <1>2

\* A push moves the head on, around the end of the ring.
LEMMA CommittedInMoves ==
  ASSUME NEW b, Shape(b), ~b.full
  PROVE  LET c == CommittedIn(b)
             next == (b.head + Width) % Capacity
         IN  /\ c \in [ring : Bytes, head : Index, tail : Index, full : BOOLEAN]
             /\ c.ring = b.ring /\ c.head = next /\ c.tail = b.tail
             /\ c.full = (next = b.tail)
             /\ b.head + Width <= Capacity
             /\ next = IF b.head + Width = Capacity THEN 0 ELSE b.head + Width
             /\ next \in Index /\ Aligned(next)
<1> DEFINE next == (b.head + Width) % Capacity
           c == CommittedIn(b)
<1>1. c = [b EXCEPT !.head = next, !.full = (next = b.tail)]
  <2>1. InFirst(b) = Width /\ InSecond(b) = 0
    BY PushMoves
  <2>2. b.head + InFirst(b) + InSecond(b) = b.head + Width
    BY <2>1, RingAssumption DEF Shape, Index
  <2> QED BY <2>2 DEF CommittedIn
<1>2. /\ b.head + Width <= Capacity
      /\ next = IF b.head + Width = Capacity THEN 0 ELSE b.head + Width
      /\ next \in Index /\ Aligned(next)
  BY NextPlace DEF Shape
<1> HIDE DEF next
<1>3. /\ c \in [ring : Bytes, head : Index, tail : Index, full : BOOLEAN]
      /\ c.ring = b.ring /\ c.head = next /\ c.tail = b.tail
      /\ c.full = (next = b.tail)
  BY <1>1, <1>2 DEF Shape
<1> HIDE DEF c
<1> QED BY <1>2, <1>3 DEF c, next

\* The place the head has left is an element now.
LEMMA CommittedInKeeps ==
  ASSUME NEW b, Shape(b), Whole(b), b.full \/ Slot(b, b.head) \in Element
  PROVE  Shape(CommittedIn(b)) /\ Whole(CommittedIn(b))
<1> DEFINE next == (b.head + Width) % Capacity
           c == CommittedIn(b)
<1>0. /\ b.head \in Nat /\ b.tail \in Nat /\ Width \in Nat \ {0} /\ Capacity \in Nat
      /\ b.head < Capacity /\ b.tail < Capacity
  BY RingAssumption DEF Shape, Index
<1>1. CASE b.full
  BY <1>1 DEF CommittedIn
<1>2. CASE ~b.full
  <2>1. /\ c \in [ring : Bytes, head : Index, tail : Index, full : BOOLEAN]
        /\ c.ring = b.ring /\ c.head = next /\ c.tail = b.tail
        /\ c.full = (next = b.tail)
        /\ b.head + Width <= Capacity
        /\ next = IF b.head + Width = Capacity THEN 0 ELSE b.head + Width
        /\ next \in Index /\ Aligned(next)
    BY <1>2, CommittedInMoves
  <2> HIDE DEF c, next
  <2>2. Shape(c)
    BY <2>1 DEF Shape
  <2>3. Whole(c)
    <3> SUFFICES ASSUME NEW p \in Index, Aligned(p), Live(c, p)
                 PROVE  Slot(c, p) \in Element
      BY DEF Whole
    <3>0. p \in Nat /\ p < Capacity
      BY RingAssumption DEF Index
    <3>1. Slot(c, p) = Slot(b, p)
      BY <2>1 DEF Slot
    <3>2. CASE p = b.head
      BY <1>2, <3>1, <3>2
    <3>3. CASE p # b.head
      <4>1. b.head < p => b.head + Width <= p
        BY AlignedGap DEF Shape
      <4>2. b.head < b.tail => b.head + Width <= b.tail
        BY AlignedGap DEF Shape
      <4>3. Live(b, p)
        <5>1. CASE next = b.tail
          BY <1>0, <2>1, <3>0, <3>3, <4>1, <5>1 DEF Live
        <5>2. CASE next # b.tail
          BY <1>0, <2>1, <3>0, <3>3, <4>1, <4>2, <5>2 DEF Live
        <5> QED BY <5>1, <5>2
      <4> QED BY <3>1, <4>3 DEF Whole
    <3> QED BY <3>2, <3>3
  <2> QED BY <2>2, <2>3 DEF c
<1> QED BY <1>1, <1>2

\* A pop empties a ring of one element, and one that is full; else it moves the tail on.
LEMMA CommittedOutMoves ==
  ASSUME NEW b, Shape(b)
  PROVE  LET c == CommittedOut(b)
             next == (b.tail + Width) % Capacity
         IN  /\ b.head = b.tail \/ next = b.head
                  => /\ c \in [ring : Bytes, head : Index, tail : Index, full : BOOLEAN]
                     /\ c.head = 0 /\ c.tail = 0 /\ c.full = FALSE
             /\ b.head # b.tail /\ next # b.head
                  => /\ c \in [ring : Bytes, head : Index, tail : Index, full : BOOLEAN]
                     /\ c.ring = b.ring /\ c.head = b.head /\ c.tail = next
                     /\ c.full = FALSE /\ b.full = FALSE
             /\ b.tail + Width <= Capacity
             /\ next = IF b.tail + Width = Capacity THEN 0 ELSE b.tail + Width
             /\ next \in Index /\ Aligned(next)
<1> DEFINE next == (b.tail + Width) % Capacity
           c == CommittedOut(b)
<1>0. b \in [ring : Bytes, head : Index, tail : Index, full : BOOLEAN]
      /\ b.tail \in Nat /\ b.tail < Capacity /\ Width \in Nat \ {0} /\ Capacity \in Nat \ {0}
  BY RingAssumption DEF Shape, Index
<1>1. /\ b.tail + Width <= Capacity
      /\ next = IF b.tail + Width = Capacity THEN 0 ELSE b.tail + Width
      /\ next \in Index /\ Aligned(next)
  BY NextPlace DEF Shape
<1>2. b.head = b.tail => (b.tail + OutFirst(b) + OutSecond(b)) % Capacity = b.tail
  <2>1. b.head = b.tail => b.tail + OutFirst(b) + OutSecond(b) = b.tail
    BY <1>0, PopMoves
  <2>2. b.tail % Capacity = b.tail
    BY <1>0
  <2> QED BY <2>1, <2>2
<1>3. b.head # b.tail => (b.tail + OutFirst(b) + OutSecond(b)) % Capacity = next
  <2>1. b.head # b.tail => b.tail + OutFirst(b) + OutSecond(b) = b.tail + Width
    BY <1>0, PopMoves
  <2> QED BY <2>1
<1>4. ASSUME b.head = b.tail \/ next = b.head
      PROVE  /\ c \in [ring : Bytes, head : Index, tail : Index, full : BOOLEAN]
             /\ c.head = 0 /\ c.tail = 0 /\ c.full = FALSE
  <2>1. c = [b EXCEPT !.head = 0, !.tail = 0, !.full = FALSE]
    BY <1>2, <1>3, <1>4 DEF CommittedOut
  <2>2. 0 \in Index
    BY <1>0 DEF Index
  <2> QED BY <1>0, <2>1, <2>2
<1>5. ASSUME b.head # b.tail, next # b.head
      PROVE  /\ c \in [ring : Bytes, head : Index, tail : Index, full : BOOLEAN]
             /\ c.ring = b.ring /\ c.head = b.head /\ c.tail = next
             /\ c.full = FALSE /\ b.full = FALSE
  <2>1. c = [b EXCEPT !.tail = next]
    BY <1>3, <1>5 DEF CommittedOut
  <2>2. b.full = FALSE
    BY <1>0, <1>5 DEF Shape
  <2> HIDE DEF next
  <2> QED BY <1>0, <1>1, <2>1, <2>2
<1> HIDE DEF c, next
<1> QED BY <1>1, <1>4, <1>5 DEF c, next

\* A pop takes a place away from those that hold elements.
LEMMA CommittedOutKeeps ==
  ASSUME NEW b, Shape(b), Whole(b)
  PROVE  Shape(CommittedOut(b)) /\ Whole(CommittedOut(b))
<1> DEFINE next == (b.tail + Width) % Capacity
           c == CommittedOut(b)
<1>0. /\ b.head \in Nat /\ b.tail \in Nat /\ Width \in Nat \ {0} /\ Capacity \in Nat \ {0}
      /\ b.head < Capacity /\ b.tail < Capacity
  BY RingAssumption DEF Shape, Index
<1>1. CASE b.head = b.tail \/ next = b.head
  <2>1. /\ c \in [ring : Bytes, head : Index, tail : Index, full : BOOLEAN]
        /\ c.head = 0 /\ c.tail = 0 /\ c.full = FALSE
    BY <1>1, CommittedOutMoves
  <2> HIDE DEF c
  <2>2. \A p \in Index : ~Live(c, p)
    BY <1>0, <2>1 DEF Live, Index
  <2>3. Shape(c) /\ Whole(c)
    BY <2>1, <2>2, AlignedPlaces DEF Shape, Whole
  <2> QED BY <2>3 DEF c
<1>2. CASE b.head # b.tail /\ next # b.head
  <2>1. /\ c \in [ring : Bytes, head : Index, tail : Index, full : BOOLEAN]
        /\ c.ring = b.ring /\ c.head = b.head /\ c.tail = next
        /\ c.full = FALSE /\ b.full = FALSE
        /\ b.tail + Width <= Capacity
        /\ next = IF b.tail + Width = Capacity THEN 0 ELSE b.tail + Width
        /\ next \in Index /\ Aligned(next)
    BY <1>2, CommittedOutMoves
  <2> HIDE DEF c, next
  <2>2. Shape(c)
    BY <2>1 DEF Shape
  <2>3. Whole(c)
    <3> SUFFICES ASSUME NEW p \in Index, Aligned(p), Live(c, p)
                 PROVE  Slot(c, p) \in Element
      BY DEF Whole
    <3>1. p \in Nat /\ p < Capacity /\ Slot(c, p) = Slot(b, p)
      BY <1>0, <2>1 DEF Index, Slot
    <3>2. b.tail < b.head => b.tail + Width <= b.head
      BY AlignedGap DEF Shape
    <3>3. Live(b, p)
      BY <1>0, <1>2, <2>1, <3>1, <3>2 DEF Live
    <3> QED BY <3>1, <3>3 DEF Whole
  <2> QED BY <2>2, <2>3 DEF c
<1> QED BY <1>1, <1>2

\* What is popped is the element at the tail, and nothing of an empty or a full ring.
LEMMA CopiedOutWhole ==
  ASSUME NEW b, Shape(b), Whole(b)
  PROVE  /\ CopiedOut(b) \in Element \cup {Nothing}
         /\ b.head = b.tail => CopiedOut(b) = Nothing
         /\ b.head # b.tail => CopiedOut(b) = Slot(b, b.tail)
<1>0. b.head \in Nat /\ b.tail \in Nat /\ Width \in Nat \ {0}
  BY RingAssumption DEF Shape, Index
<1>1. CASE b.head = b.tail
  <2>1. OutFirst(b) + OutSecond(b) = 0
    BY <1>1, PopMoves
  <2> QED BY <1>0, <1>1, <2>1 DEF CopiedOut
<1>2. CASE b.head # b.tail
  <2>1. OutFirst(b) = Width /\ OutSecond(b) = 0
    BY <1>2, PopMoves
  <2>2. CopiedOut(b) = Slot(b, b.tail)
    <3>1. ~(OutFirst(b) + OutSecond(b) < Width)
      BY <1>0, <2>1
    <3>2. \A i \in 0 .. Width - 1 : i < OutFirst(b)
      BY <1>0, <2>1
    <3> QED BY <3>1, <3>2 DEF CopiedOut, Slot
  <2>3. Live(b, b.tail) /\ b.tail \in Index /\ Aligned(b.tail)
    BY <1>0, <1>2 DEF Live, Shape
  <2> QED BY <1>2, <2>2, <2>3 DEF Whole
<1> QED BY <1>1, <1>2

-----------------------------------------------------------------------------
(***************************************************************************)
(* The ring is a queue.  Its elements lie in the places from tail on, as   *)
(* many as there are whole elements between tail and head.                 *)
(***************************************************************************)
Held(b) == IF b.full THEN Capacity ELSE (b.head - b.tail + Capacity) % Capacity

\* Where the kth element begins.
PlaceOf(b, k) ==
  LET p == b.tail + (k - 1) * Width IN IF p < Capacity THEN p ELSE p - Capacity

Elements(b) == [k \in 1 .. Held(b) \div Width |-> Slot(b, PlaceOf(b, k))]

\* Multiples of the width of an element.
LEMMA Multiples ==
  /\ \A j \in Nat : j * Width \in Nat /\ (j + 1) * Width = j * Width + Width
                    /\ Aligned(j * Width)
                    /\ (j * Width) \div Width = j
  /\ \A j, k \in Nat : j < k <=> j * Width < k * Width
  /\ \A j, k \in Nat : j * Width = k * Width => j = k
<1>1. ASSUME NEW j \in Nat
      PROVE  j * Width \in Nat /\ (j + 1) * Width = j * Width + Width /\ Aligned(j * Width)
  BY RingAssumption DEF Aligned
<1>2. ASSUME NEW j \in Nat, NEW k \in Nat PROVE j < k <=> j * Width < k * Width
  <2>1. j < k => j * Width < k * Width
    BY RingAssumption
  <2>2. k <= j => k * Width <= j * Width
    BY RingAssumption
  <2> QED BY <1>1, <2>1, <2>2
<1>3. ASSUME NEW j \in Nat, NEW k \in Nat, j * Width = k * Width PROVE j = k
  <2>1. ~(j < k) /\ ~(k < j)
    BY <1>1, <1>2, <1>3
  <2> QED BY <2>1
<1>4. ASSUME NEW j \in Nat PROVE (j * Width) \div Width = j
  <2> DEFINE a == j * Width
             q == a \div Width
             below == q * Width
             above == (q + 1) * Width
  <2>1. a \in Nat /\ q \in Nat /\ a = Width * q + (a % Width) /\ a % Width \in 0 .. Width - 1
    BY <1>1, RingAssumption
  <2>2. q * Width = Width * q /\ (q + 1) * Width = q * Width + Width /\ q * Width \in Nat
    BY <1>1, <2>1, RingAssumption
  <2>3. q * Width <= a /\ a < (q + 1) * Width
    <3> HIDE DEF a, q
    <3> QED BY <2>1, <2>2, RingAssumption
  <2>4. ~(j < q) /\ ~(q + 1 <= j)
    <3>1. j < q => a < q * Width
      BY <1>2, <2>1
    <3>2. q + 1 \in Nat /\ (q + 1 < j => (q + 1) * Width < a) /\ (q + 1 = j => (q + 1) * Width = a)
      BY <1>2, <2>1
    <3>3. below <= a /\ a < above /\ below \in Nat /\ above \in Nat
      <4>1. (q + 1) * Width \in Nat
        BY <1>1, <2>1
      <4> QED BY <2>2, <2>3, <4>1
    <3>4. (j < q => a < below) /\ (q + 1 < j => above < a) /\ (q + 1 = j => above = a)
      BY <3>1, <3>2
    <3> HIDE DEF a, q, below, above
    <3> QED BY <2>1, <3>2, <3>3, <3>4
  <2>5. q = j
    <3> HIDE DEF a, q
    <3> QED BY <2>1, <2>4
  <2> QED BY <2>5
<1> QED BY <1>1, <1>2, <1>3, <1>4

\* The elements of a ring: how many, and where the places from tail on end.
LEMMA HeldElements ==
  ASSUME NEW b, Shape(b)
  PROVE  /\ Held(b) \in 0 .. Capacity /\ Held(b) \div Width \in Nat
         /\ Held(b) = (Held(b) \div Width) * Width
         /\ Held(b) = 0 <=> b.head = b.tail /\ ~b.full
         /\ Held(b) = Capacity <=> b.full
         /\ b.tail + Held(b) = b.head \/ b.tail + Held(b) = b.head + Capacity
         /\ ~b.full /\ b.tail <= b.head => Held(b) = b.head - b.tail
         /\ ~b.full /\ b.head < b.tail => Held(b) = b.head - b.tail + Capacity
<1>0. /\ b.head \in Nat /\ b.tail \in Nat /\ Width \in Nat \ {0} /\ Capacity \in Nat \ {0}
      /\ b.head < Capacity /\ b.tail < Capacity /\ b.full \in BOOLEAN
      /\ b.full => b.head = b.tail
  BY RingAssumption DEF Shape, Index
<1>1. /\ ~b.full /\ b.tail <= b.head => Held(b) = b.head - b.tail
      /\ ~b.full /\ b.head < b.tail => Held(b) = b.head - b.tail + Capacity
      /\ b.full => Held(b) = Capacity
  <2>1. CASE ~b.full /\ b.tail <= b.head
    <3>1. b.head - b.tail \in 0 .. Capacity - 1
      BY <1>0, <2>1
    <3>2. \A d \in 0 .. Capacity - 1 : (d + Capacity) % Capacity = d
      BY <1>0
    <3> QED BY <1>0, <2>1, <3>1, <3>2 DEF Held
  <2>2. CASE ~b.full /\ b.head < b.tail
    <3>1. (b.head - b.tail + Capacity) % Capacity = b.head - b.tail + Capacity
      BY <1>0, <2>2
    <3> QED BY <1>0, <2>2, <3>1 DEF Held
  <2>3. CASE b.full
    BY <2>3 DEF Held
  <2> QED BY <1>0, <2>1, <2>2, <2>3
<1>2. /\ Held(b) \in 0 .. Capacity
      /\ Held(b) = 0 <=> b.head = b.tail /\ ~b.full
      /\ Held(b) = Capacity <=> b.full
      /\ b.tail + Held(b) = b.head \/ b.tail + Held(b) = b.head + Capacity
  BY <1>0, <1>1
<1>3. \E n \in Nat : Held(b) = n * Width
  <2>1. PICK h \in Nat : b.head = h * Width
    BY DEF Shape, Aligned
  <2>2. PICK t \in Nat : b.tail = t * Width
    BY DEF Shape, Aligned
  <2>3. PICK c \in Nat : Capacity = c * Width
    BY AlignedPlaces DEF Aligned
  <2>4. CASE b.full
    BY <1>1, <2>3, <2>4
  <2>5. CASE ~b.full /\ b.tail <= b.head
    <3>1. ~(h < t)
      BY <1>0, <2>1, <2>2, <2>5, Multiples
    <3>2. h - t \in Nat /\ (h - t) * Width = h * Width - t * Width
      BY <1>0, <3>1
    <3> QED BY <1>1, <2>1, <2>2, <2>5, <3>2
  <2>6. CASE ~b.full /\ b.head < b.tail
    <3>1. t < c
      BY <1>0, <2>2, <2>3, Multiples
    <3>2. h - t + c \in Nat /\ (h - t + c) * Width = h * Width - t * Width + c * Width
      BY <1>0, <3>1
    <3> QED BY <1>1, <2>1, <2>2, <2>3, <2>6, <3>2
  <2> QED BY <1>0, <2>4, <2>5, <2>6
<1>4. PICK n \in Nat : Held(b) = n * Width
  BY <1>3
<1>5. Held(b) \div Width = n
  BY <1>4, Multiples
<1> QED BY <1>1, <1>2, <1>4, <1>5

\* The places of the elements are places of the ring, and what a pop comes to.
LEMMA PlacesAreLive ==
  ASSUME NEW b, Shape(b), NEW k \in 1 .. Held(b) \div Width
  PROVE  /\ (k - 1) * Width \in Nat /\ (k - 1) * Width + Width <= Held(b)
         /\ PlaceOf(b, k) \in Index /\ Aligned(PlaceOf(b, k)) /\ Live(b, PlaceOf(b, k))
         /\ PlaceOf(b, k) + Width <= Capacity
<1> DEFINE d == (k - 1) * Width
           n == Held(b) \div Width
<1>0. /\ b.head \in Nat /\ b.tail \in Nat /\ Width \in Nat \ {0} /\ Capacity \in Nat \ {0}
      /\ b.head < Capacity /\ b.tail < Capacity /\ b.full \in BOOLEAN
  BY RingAssumption DEF Shape, Index
<1>1. n \in Nat /\ k - 1 \in Nat /\ k - 1 < n /\ Held(b) = n * Width /\ Held(b) \in 0 .. Capacity
  BY HeldElements
<1>2. d \in Nat /\ Aligned(d) /\ Aligned(Held(b)) /\ d < Held(b)
  <2> HIDE DEF n
  <2> QED BY <1>1, Multiples
<1>3. d + Width <= Held(b)
  BY <1>2, AlignedGap
<1> HIDE DEF d, n
<1>4. PlaceOf(b, k) = IF b.tail + d < Capacity THEN b.tail + d ELSE (b.tail + d) - Capacity
  BY DEF PlaceOf, d
<1>5. PlaceOf(b, k) \in Nat /\ PlaceOf(b, k) < Capacity
  BY <1>0, <1>1, <1>2, <1>4
<1>6. Aligned(PlaceOf(b, k))
  <2>1. Aligned(b.tail + d)
    BY <1>2, AlignedPlaces DEF Shape
  <2>2. CASE b.tail + d < Capacity
    BY <1>4, <2>1, <2>2
  <2>3. CASE ~(b.tail + d < Capacity)
    <3>1. PICK i \in Nat : b.tail + d = i * Width
      BY <2>1 DEF Aligned
    <3>2. PICK c \in Nat : Capacity = c * Width
      BY AlignedPlaces DEF Aligned
    <3>3. ~(i < c)
      BY <1>0, <1>2, <2>3, <3>1, <3>2, Multiples
    <3>4. i - c \in Nat /\ (i - c) * Width = i * Width - c * Width
      BY <1>0, <3>3
    <3>5. PlaceOf(b, k) = (b.tail + d) - Capacity
      BY <1>4, <2>3
    <3>6. PlaceOf(b, k) = (i - c) * Width
      BY <3>1, <3>2, <3>4, <3>5, Zenon
    <3> QED BY <3>4, <3>6 DEF Aligned
  <2> QED BY <2>2, <2>3
<1>7. Live(b, PlaceOf(b, k))
  <2>1. CASE b.full
    BY <2>1 DEF Live
  <2>2. CASE ~b.full /\ b.tail <= b.head
    <3>1. Held(b) = b.head - b.tail
      BY <2>2, HeldElements
    <3> QED BY <1>0, <1>2, <1>4, <2>2, <3>1 DEF Live
  <2>3. CASE ~b.full /\ b.head < b.tail
    <3>1. Held(b) = b.head - b.tail + Capacity
      BY <2>3, HeldElements
    <3> QED BY <1>0, <1>2, <1>4, <2>3, <3>1 DEF Live
  <2> QED BY <1>0, <2>1, <2>2, <2>3
<1>8. PlaceOf(b, k) \in Index /\ PlaceOf(b, k) + Width <= Capacity
  <2>1. PlaceOf(b, k) \in Index
    BY <1>0, <1>5 DEF Index
  <2> QED BY <1>6, <2>1, NextPlace
<1> QED BY <1>2, <1>3, <1>6, <1>7, <1>8 DEF d

\* The commands in the ring are its elements: none is wrapped.
LEMMA ElementsInBytes ==
  ASSUME NEW b, Shape(b)
  PROVE  [k \in 1 .. Held(b) \div Width |->
           [i \in 0 .. Width - 1 |-> b.ring[(b.tail + (k - 1) * Width + i) % Capacity]]]
           = Elements(b)
<1>0. b.tail \in Nat /\ b.tail < Capacity /\ Width \in Nat \ {0} /\ Capacity \in Nat \ {0}
  BY RingAssumption DEF Shape, Index
<1>1. ASSUME NEW k \in 1 .. Held(b) \div Width, NEW i \in 0 .. Width - 1
      PROVE  (b.tail + (k - 1) * Width + i) % Capacity = PlaceOf(b, k) + i
  <2> DEFINE d == (k - 1) * Width
  <2>1. /\ d \in Nat /\ PlaceOf(b, k) + Width <= Capacity
        /\ d + Width <= Held(b) /\ Held(b) \in 0 .. Capacity
        /\ PlaceOf(b, k) \in Nat
    BY PlacesAreLive, HeldElements DEF Index
  <2>2. PlaceOf(b, k) = IF b.tail + d < Capacity THEN b.tail + d ELSE (b.tail + d) - Capacity
    BY DEF PlaceOf
  <2> HIDE DEF d
  <2>3. PlaceOf(b, k) + i \in 0 .. Capacity - 1
    BY <1>0, <2>1
  <2>4. b.tail + d + i = PlaceOf(b, k) + i \/ b.tail + d + i = (PlaceOf(b, k) + i) + Capacity
    BY <1>0, <2>1, <2>2
  <2>5. \A q \in 0 .. Capacity - 1 : q % Capacity = q /\ (q + Capacity) % Capacity = q
    BY <1>0
  <2>6. (b.tail + d + i) % Capacity = PlaceOf(b, k) + i
    BY <2>3, <2>4, <2>5
  <2> QED BY <2>6 DEF d
<1> QED BY <1>1 DEF Elements, Slot

\* The elements, as a sequence.
LEMMA ElementsSeq ==
  ASSUME NEW b, Shape(b), Whole(b)
  PROVE  /\ Elements(b) \in Seq(Element)
         /\ Len(Elements(b)) = Held(b) \div Width
         /\ \A k \in 1 .. Held(b) \div Width : Elements(b)[k] = Slot(b, PlaceOf(b, k))
<1>1. Held(b) \div Width \in Nat
  BY HeldElements
<1>2. \A k \in 1 .. Held(b) \div Width : Slot(b, PlaceOf(b, k)) \in Element
  BY PlacesAreLive DEF Whole
<1> DEFINE n == Held(b) \div Width
<1>3. Elements(b) = [k \in 1 .. n |-> Slot(b, PlaceOf(b, k))]
  BY DEF Elements
<1> HIDE DEF n
<1>4. Elements(b) \in [1 .. n -> Element] /\ DOMAIN Elements(b) = 1 .. n
  BY <1>2, <1>3 DEF n
<1>5. Elements(b) \in Seq(Element) /\ Len(Elements(b)) = n
  BY <1>1, <1>4, SeqDef DEF n
<1> QED BY <1>3, <1>5 DEF n

\* Bytes written where no element is leave the queue alone.
LEMMA SameElements ==
  ASSUME NEW b, Shape(b), NEW c,
         c.head = b.head, c.tail = b.tail, c.full = b.full,
         \A p \in Index : Aligned(p) /\ Live(b, p) => Slot(c, p) = Slot(b, p)
  PROVE  Elements(c) = Elements(b)
<1>1. Held(c) = Held(b)
  BY DEF Held
<1>2. \A k \in 1 .. Held(b) \div Width : PlaceOf(c, k) = PlaceOf(b, k)
  BY DEF PlaceOf
<1>3. \A k \in 1 .. Held(b) \div Width : Slot(c, PlaceOf(c, k)) = Slot(b, PlaceOf(b, k))
  BY <1>2, PlacesAreLive
<1> QED BY <1>1, <1>3 DEF Elements

\* Moving the head on appends what lies before it.
LEMMA CommittedInElements ==
  ASSUME NEW b, Shape(b), Whole(b), ~b.full, Slot(b, b.head) \in Element
  PROVE  /\ Elements(CommittedIn(b)) = Append(Elements(b), Slot(b, b.head))
         /\ Len(Elements(b)) < Capacity \div Width
<1> DEFINE c == CommittedIn(b)
           n == Held(b) \div Width
           e == Slot(b, b.head)
<1>0. /\ b.head \in Nat /\ b.tail \in Nat /\ Width \in Nat \ {0} /\ Capacity \in Nat \ {0}
      /\ b.head < Capacity /\ b.tail < Capacity
  BY RingAssumption DEF Shape, Index
<1>1. Shape(c) /\ Whole(c)
  BY CommittedInKeeps
<1>2. /\ c.ring = b.ring /\ c.tail = b.tail
      /\ c.head = IF b.head + Width = Capacity THEN 0 ELSE b.head + Width
      /\ c.full = (c.head = b.tail)
      /\ b.head + Width <= Capacity
  BY CommittedInMoves
<1> HIDE DEF c
<1>3. Held(c) = Held(b) + Width
  <2>1. b.head < b.tail => b.head + Width <= b.tail
    BY AlignedGap DEF Shape
  <2>2. CASE b.tail <= b.head
    <3>1. Held(b) = b.head - b.tail
      BY <2>2, HeldElements
    <3>2. CASE b.head + Width = Capacity
      <4>1. c.head = 0
        BY <1>2, <3>2
      <4>2. CASE b.tail = 0
        <5>1. Held(c) = Capacity
          BY <1>1, <1>2, <4>1, <4>2, HeldElements
        <5> QED BY <1>0, <3>1, <3>2, <4>2, <5>1
      <4>3. CASE b.tail # 0
        BY <1>0, <1>1, <1>2, <3>1, <3>2, <4>1, <4>3, HeldElements
      <4> QED BY <4>2, <4>3
    <3>3. CASE b.head + Width # Capacity
      BY <1>0, <1>1, <1>2, <2>2, <3>1, <3>3, HeldElements
    <3> QED BY <3>2, <3>3
  <2>3. CASE b.head < b.tail
    <3>1. Held(b) = b.head - b.tail + Capacity
      BY <2>3, HeldElements
    <3>2. c.head = b.head + Width
      BY <1>0, <1>2, <2>1, <2>3
    <3>3. CASE c.head = b.tail
      <4>1. Held(c) = Capacity
        BY <1>1, <1>2, <3>3, HeldElements
      <4> QED BY <1>0, <3>1, <3>2, <3>3, <4>1
    <3>4. CASE c.head # b.tail
      BY <1>0, <1>1, <1>2, <2>1, <2>3, <3>1, <3>2, <3>4, HeldElements
    <3> QED BY <3>3, <3>4
  <2> QED BY <1>0, <2>2, <2>3
<1>4. n \in Nat /\ Held(b) = n * Width /\ Held(b) \in 0 .. Capacity
  BY HeldElements
<1>5. Held(c) \div Width = n + 1
  <2> HIDE DEF n
  <2>1. Held(c) = (n + 1) * Width /\ n + 1 \in Nat
    BY <1>3, <1>4, Multiples
  <2> QED BY <2>1, Multiples
<1>6. n < Capacity \div Width
  <2>1. PICK m \in Nat : Capacity = m * Width
    BY AlignedPlaces DEF Aligned
  <2>2. Held(c) <= Capacity
    BY <1>0, <1>1, HeldElements
  <2>3. n * Width < m * Width
    <3> HIDE DEF n
    <3> QED BY <1>0, <1>3, <1>4, <2>1, <2>2
  <2>4. n < m
    <3> HIDE DEF n
    <3> QED BY <1>4, <2>1, <2>3, Multiples
  <2> QED BY <2>1, <2>4, Multiples
<1>7. \A k \in 1 .. n + 1 : PlaceOf(c, k) = PlaceOf(b, k) /\ Slot(c, PlaceOf(c, k)) = Slot(b, PlaceOf(b, k))
  BY <1>2 DEF PlaceOf, Slot
<1>8. PlaceOf(b, n + 1) = b.head
  <2>1. ((n + 1) - 1) * Width = Held(b)
    <3> HIDE DEF n
    <3> QED BY <1>4
  <2>2. PlaceOf(b, n + 1) = IF b.tail + Held(b) < Capacity THEN b.tail + Held(b)
                                                           ELSE (b.tail + Held(b)) - Capacity
    BY <2>1 DEF PlaceOf
  <2>3. b.tail + Held(b) = b.head \/ b.tail + Held(b) = b.head + Capacity
    BY HeldElements
  <2> HIDE DEF n
  <2> QED BY <1>0, <1>4, <2>2, <2>3
<1> DEFINE s == Elements(b)
           t == Elements(c)
<1>9. /\ s \in Seq(Element) /\ Len(s) = n
      /\ \A k \in 1 .. n : s[k] = Slot(b, PlaceOf(b, k))
  BY ElementsSeq
<1>10. /\ t \in Seq(Element) /\ Len(t) = n + 1
       /\ \A k \in 1 .. n + 1 : t[k] = Slot(c, PlaceOf(c, k))
  BY <1>1, <1>5, ElementsSeq
<1>11. t = Append(s, e)
  <2> HIDE DEF n, s, t, e
  <2>1. e \in Element /\ e = Slot(b, b.head)
    BY DEF e
  <2>2. /\ Append(s, e) \in Seq(Element) /\ Len(Append(s, e)) = n + 1
        /\ \A i \in 1 .. n : Append(s, e)[i] = s[i]
        /\ Append(s, e)[n + 1] = e
    BY <1>9, <2>1, AppendProperties
  <2>3. ASSUME NEW k \in 1 .. n + 1 PROVE t[k] = Append(s, e)[k]
    <3>1. t[k] = Slot(b, PlaceOf(b, k))
      BY <1>7, <1>10
    <3>2. CASE k = n + 1
      BY <1>8, <2>1, <2>2, <3>1, <3>2
    <3>3. CASE k # n + 1
      <4>1. n \in Nat
        BY <1>4
      <4>2. k \in 1 .. n
        BY <3>3, <4>1
      <4> QED BY <1>9, <2>2, <3>1, <4>2
    <3> QED BY <3>2, <3>3
  <2> QED BY <1>10, <2>2, <2>3, SeqEqual
<1> QED BY <1>6, <1>9, <1>11 DEF c

\* Moving the tail on takes the first element away.
LEMMA CommittedOutElements ==
  ASSUME NEW b, Shape(b), Whole(b), b.head # b.tail
  PROVE  /\ Elements(b) # << >> /\ Len(Elements(b)) < Capacity \div Width
         /\ Head(Elements(b)) = CopiedOut(b)
         /\ Elements(CommittedOut(b)) = Tail(Elements(b))
<1> DEFINE c == CommittedOut(b)
           n == Held(b) \div Width
           s == Elements(b)
           t == Elements(c)
           next == (b.tail + Width) % Capacity
<1>0. /\ b.head \in Nat /\ b.tail \in Nat /\ Width \in Nat \ {0} /\ Capacity \in Nat \ {0}
      /\ b.head < Capacity /\ b.tail < Capacity
  BY RingAssumption DEF Shape, Index
<1>1. Shape(c) /\ Whole(c)
  BY CommittedOutKeeps
<1>2. ~b.full /\ b.tail + Width <= Capacity
      /\ next = IF b.tail + Width = Capacity THEN 0 ELSE b.tail + Width
  BY CommittedOutMoves DEF Shape
<1>3. /\ next = b.head => c.head = 0 /\ c.tail = 0 /\ c.full = FALSE
      /\ next # b.head => c.ring = b.ring /\ c.head = b.head /\ c.tail = next /\ c.full = FALSE
  BY CommittedOutMoves
<1> HIDE DEF c, next
<1>4. Held(c) = Held(b) - Width
  <2>1. CASE next = b.head
    <3>1. Held(c) = 0
      BY <1>1, <1>3, <2>1, HeldElements
    <3>2. Held(b) = Width
      <4>1. CASE b.tail <= b.head
        <5>1. b.tail + Width <= b.head
          BY <1>0, <4>1, AlignedGap DEF Shape
        <5> QED BY <1>0, <1>2, <2>1, <4>1, <5>1, HeldElements
      <4>2. CASE b.head < b.tail
        BY <1>0, <1>2, <2>1, <4>2, HeldElements
      <4> QED BY <1>0, <4>1, <4>2
    <3> QED BY <1>0, <3>1, <3>2
  <2>2. CASE next # b.head
    <3>1. CASE b.tail <= b.head
      <4>1. b.tail + Width <= b.head
        BY <1>0, <3>1, AlignedGap DEF Shape
      <4>2. Held(b) = b.head - b.tail
        BY <1>2, <3>1, HeldElements
      <4>3. c.head = b.head /\ c.tail = b.tail + Width /\ c.full = FALSE
        BY <1>0, <1>2, <1>3, <2>2, <4>1
      <4>4. Held(c) = c.head - c.tail
        BY <1>0, <1>1, <4>1, <4>3, HeldElements
      <4> QED BY <1>0, <4>2, <4>3, <4>4
    <3>2. CASE b.head < b.tail
      <4>1. Held(b) = b.head - b.tail + Capacity
        BY <1>2, <3>2, HeldElements
      <4>2. CASE b.tail + Width = Capacity
        <5>1. c.head = b.head /\ c.tail = 0 /\ c.full = FALSE
          BY <1>2, <1>3, <2>2, <4>2
        <5>2. Held(c) = c.head - c.tail
          BY <1>0, <1>1, <5>1, HeldElements
        <5> QED BY <1>0, <4>1, <4>2, <5>1, <5>2
      <4>3. CASE b.tail + Width # Capacity
        <5>1. c.head = b.head /\ c.tail = b.tail + Width /\ c.full = FALSE
          BY <1>2, <1>3, <2>2, <4>3
        <5>2. Held(c) = c.head - c.tail + Capacity
          BY <1>0, <1>1, <3>2, <5>1, HeldElements
        <5> QED BY <1>0, <4>1, <5>1, <5>2
      <4> QED BY <4>2, <4>3
    <3> QED BY <1>0, <3>1, <3>2
  <2> QED BY <2>1, <2>2
<1>5. n \in Nat /\ Held(b) = n * Width /\ Held(b) \in 1 .. Capacity - 1
  BY <1>0, <1>2, HeldElements
<1>6. n # 0 /\ n - 1 \in Nat /\ (n - 1) * Width = Held(b) - Width /\ Held(c) \div Width = n - 1
  <2> HIDE DEF n
  <2>1. n # 0
    BY <1>0, <1>5
  <2>2. n - 1 \in Nat /\ ((n - 1) + 1) * Width = (n - 1) * Width + Width
    BY <1>5, <2>1, Multiples
  <2>3. (n - 1) * Width \in Nat /\ (n - 1) + 1 = n
    BY <1>5, <2>2, Multiples
  <2>4. (n - 1) * Width = Held(b) - Width
    BY <1>0, <1>5, <2>2, <2>3
  <2> QED BY <1>4, <2>1, <2>2, <2>4, Multiples
<1>7. n < Capacity \div Width
  <2>1. PICK m \in Nat : Capacity = m * Width
    BY AlignedPlaces DEF Aligned
  <2>2. n < m
    <3> HIDE DEF n
    <3> QED BY <1>0, <1>5, <2>1, Multiples
  <2> QED BY <2>1, <2>2, Multiples
<1>8. /\ s \in Seq(Element) /\ Len(s) = n
      /\ \A k \in 1 .. n : s[k] = Slot(b, PlaceOf(b, k))
  BY ElementsSeq
<1>9. /\ t \in Seq(Element) /\ Len(t) = n - 1
      /\ \A k \in 1 .. n - 1 : t[k] = Slot(c, PlaceOf(c, k))
  BY <1>1, <1>6, ElementsSeq
<1>10. ASSUME NEW k \in 1 .. n - 1 PROVE Slot(c, PlaceOf(c, k)) = Slot(b, PlaceOf(b, k + 1))
  <2> DEFINE d == (k - 1) * Width
  <2>1. next # b.head
    <3> SUFFICES ASSUME next = b.head PROVE FALSE
      OBVIOUS
    <3>1. Held(c) = 0
      BY <1>1, <1>3, HeldElements
    <3> HIDE DEF n
    <3>2. Held(c) = (n - 1) * Width
      BY <1>0, <1>4, <1>6
    <3>3. n - 1 = 0
      BY <1>0, <1>6, <3>1, <3>2
    <3> QED BY <3>3
  <2>2. d \in Nat /\ ((k + 1) - 1) * Width = d + Width
    <3> HIDE DEF n
    <3>1. k - 1 \in Nat /\ k = (k - 1) + 1 /\ (k + 1) - 1 = k
      BY <1>5
    <3> QED BY <3>1, Multiples
  <2>3. d + Width <= Held(b) - Width
    <3> HIDE DEF n
    <3>1. k \in 1 .. Held(c) \div Width
      BY <1>6
    <3> QED BY <1>1, <1>4, <3>1, PlacesAreLive
  <2>4. PlaceOf(c, k) = IF next + d < Capacity THEN next + d ELSE (next + d) - Capacity
    BY <1>3, <2>1 DEF PlaceOf
  <2>5. PlaceOf(b, k + 1) = IF b.tail + (d + Width) < Capacity THEN b.tail + (d + Width)
                                                     ELSE (b.tail + (d + Width)) - Capacity
    BY <2>2 DEF PlaceOf
  <2> HIDE DEF d, n
  <2>6. PlaceOf(c, k) = PlaceOf(b, k + 1)
    BY <1>0, <1>2, <1>5, <2>2, <2>3, <2>4, <2>5
  <2> QED BY <1>3, <2>1, <2>6 DEF Slot
<1>11. s # << >> /\ Head(s) = CopiedOut(b)
  <2> HIDE DEF n
  <2>1. PlaceOf(b, 1) = b.tail
    <3>1. (1 - 1) * Width = 0
      BY <1>0
    <3> QED BY <1>0, <3>1 DEF PlaceOf
  <2>2. s[1] = Slot(b, b.tail)
    BY <1>5, <1>6, <1>8, <2>1
  <2>3. CopiedOut(b) = Slot(b, b.tail)
    BY CopiedOutWhole
  <2> HIDE DEF s
  <2> QED BY <1>6, <1>8, <2>2, <2>3
<1>12. t = Tail(s)
  <2> HIDE DEF n, s, t
  <2>1. /\ Tail(s) \in Seq(Element) /\ Len(Tail(s)) = n - 1
        /\ \A i \in 1 .. n - 1 : Tail(s)[i] = s[i + 1]
    BY <1>8, <1>11, HeadTailProperties
  <2>2. ASSUME NEW k \in 1 .. n - 1 PROVE t[k] = Tail(s)[k]
    <3>1. k + 1 \in 1 .. n
      BY <1>5
    <3>2. s[k + 1] = Slot(b, PlaceOf(b, k + 1))
      BY <1>8, <3>1
    <3> QED BY <1>9, <1>10, <2>1, <3>2
  <2> QED BY <1>9, <2>1, <2>2, SeqEqual
<1> QED BY <1>7, <1>8, <1>11, <1>12 DEF c

\* A pop of a full ring gives nothing and empties it.
LEMMA ForgottenElements ==
  ASSUME NEW b, Shape(b), Whole(b), b.full
  PROVE  /\ Len(Elements(b)) = Capacity \div Width
         /\ CopiedOut(b) = Nothing
         /\ Elements(CommittedOut(b)) = << >>
<1>1. b.head = b.tail
  BY DEF Shape
<1>2. Len(Elements(b)) = Capacity \div Width
  BY ElementsSeq, HeldElements
<1>3. Shape(CommittedOut(b)) /\ Whole(CommittedOut(b))
  BY CommittedOutKeeps
<1>4. Held(CommittedOut(b)) = 0
  BY <1>1, <1>3, CommittedOutMoves, HeldElements
<1>5. 0 \div Width = 0
  BY RingAssumption, WholeElements
<1>6. Elements(CommittedOut(b)) \in Seq(Element) /\ Len(Elements(CommittedOut(b))) = 0
  BY <1>3, <1>4, <1>5, ElementsSeq
<1>7. Elements(CommittedOut(b)) = << >>
  BY <1>6, EmptySeq
<1> QED BY <1>1, <1>2, <1>7, CopiedOutWhole

-----------------------------------------------------------------------------
(***************************************************************************)
(* The inductive invariant: the ring is in order wherever the main loop    *)
(* is; between the two halves of a push the element is in its place, and   *)
(* from the look at the size on the ring has what the pop takes.           *)
(***************************************************************************)
RingInv ==
  /\ Shape(Buf) /\ Whole(Buf)
  /\ held \in Element \union {Nothing}
  /\ taken \in Element \union {Nothing}
  /\ pc \in {"copy_in", "commit_in"} => held \in Element
  /\ pc = "commit_in" => full \/ Slot(Buf, head) = held
  /\ pc \in {"pop", "commit_out"} => full \/ head # tail
  /\ pc = "commit_out" => held = CopiedOut(Buf)

LEMMA BufferFields ==
  Buf.ring = ring /\ Buf.head = head /\ Buf.tail = tail /\ Buf.full = full
BY DEF Buf

\* A step of the buffer leaves the record it computes.
LEMMA BufferBecomes ==
  ASSUME NEW c \in [ring : Bytes, head : Index, tail : Index, full : BOOLEAN],
         BufBecomes(c)
  PROVE  Buf' = c
BY DEF BufBecomes, Buf

LEMMA RingStart == Init => RingInv
<1> SUFFICES ASSUME Init PROVE RingInv
  OBVIOUS
<1>1. ring \in Bytes /\ head \in Index /\ tail \in Index /\ full \in BOOLEAN
  <2>1. 0 \in Index
    BY RingAssumption DEF Index
  <2>2. ring \in Bytes
    BY RingAssumption DEF Init, Bytes
  <2> QED BY <2>1, <2>2 DEF Init
<1>2. Buf \in [ring : Bytes, head : Index, tail : Index, full : BOOLEAN]
  BY <1>1 DEF Buf
<1>3. Shape(Buf)
  BY <1>2, BufferFields, AlignedPlaces DEF Shape, Init
<1>4. \A p \in Index : ~Live(Buf, p)
  BY BufferFields, RingAssumption DEF Live, Init, Index
<1> QED BY <1>3, <1>4 DEF RingInv, Whole, Init

\* What a step that leaves the ring alone does not change.
LEMMA RingUnchanged ==
  ASSUME UNCHANGED bufVars
  PROVE  /\ Buf' = Buf /\ head' = head /\ tail' = tail /\ full' = full
         /\ Shape(Buf)' = Shape(Buf) /\ Whole(Buf)' = Whole(Buf)
         /\ Slot(Buf, head)' = Slot(Buf, head)
         /\ CopiedOut(Buf)' = CopiedOut(Buf)
<1>1. ring' = ring /\ head' = head /\ tail' = tail /\ full' = full
  BY DEF bufVars
<1>2. Buf' = Buf
  BY <1>1 DEF Buf
<1>3. Shape(Buf)' = Shape(Buf) /\ Whole(Buf)' = Whole(Buf)
  BY <1>2 DEF Shape, Whole
<1>4. Slot(Buf, head)' = Slot(Buf, head) /\ CopiedOut(Buf)' = CopiedOut(Buf)
  BY <1>1, <1>2 DEF Slot, CopiedOut
<1> QED BY <1>1, <1>2, <1>3, <1>4

\* A step of the buffer leaves the record it computes, and that is in order.
LEMMA RingBecomes ==
  ASSUME NEW c, Shape(c), Whole(c), BufBecomes(c)
  PROVE  /\ Shape(Buf)' /\ Whole(Buf)'
         /\ Buf' = c /\ head' = c.head /\ tail' = c.tail /\ full' = c.full
<1>1. Buf' = c
  BY BufferBecomes DEF Shape
<1>2. Shape(Buf') /\ Whole(Buf')
  BY <1>1
<1> QED BY <1>1, <1>2 DEF BufBecomes, Shape, Whole

LEMMA RingStep == DepthInv /\ RingInv /\ [Next]_vars => RingInv'
<1> SUFFICES ASSUME DepthInv, RingInv, [Next]_vars PROVE RingInv'
  OBVIOUS
<1>0. Shape(Buf) /\ Whole(Buf)
  BY DEF RingInv
<1>1. ~masked => pc = "ready"
  BY DEF DepthInv, Depth
<1>2. ASSUME NEW e \in Element, StartPush(e) PROVE RingInv'
  <2>1. pc' = "copy_in" /\ held' = e /\ taken' = taken /\ UNCHANGED bufVars
    BY <1>2 DEF StartPush
  <2> QED BY <1>0, <2>1, RingUnchanged DEF RingInv
<1>3. ASSUME NEW e \in Element, IsrPush(e) PROVE RingInv'
  <2> DEFINE c == CopiedIn(Buf, e)
  <2>1. Shape(c) /\ Whole(c) /\ (c.full \/ Slot(c, c.head) \in Element)
    BY <1>0, CopiedInKeeps
  <2>2. Shape(CommittedIn(c)) /\ Whole(CommittedIn(c))
    BY <2>1, CommittedInKeeps
  <2>3. Shape(Buf)' /\ Whole(Buf)'
    BY <1>3, <2>2, RingBecomes DEF IsrPush
  <2>4. pc' = "ready" /\ held' = held /\ taken' = taken
    BY <1>1, <1>3 DEF IsrPush
  <2> QED BY <2>3, <2>4 DEF RingInv
<1>4. CASE CopyIn
  <2> DEFINE c == CopiedIn(Buf, held)
  <2>1. held \in Element /\ pc' = "commit_in" /\ held' = held /\ taken' = taken
    BY <1>4 DEF RingInv, CopyIn
  <2>2. Shape(c) /\ Whole(c) /\ (c.full \/ Slot(c, c.head) = held)
    BY <1>0, <2>1, CopiedInKeeps
  <2>3. /\ Shape(Buf)' /\ Whole(Buf)' /\ Buf' = c
        /\ head' = c.head /\ full' = c.full
    BY <1>4, <2>2, RingBecomes DEF CopyIn
  <2>4. full' \/ Slot(Buf', head') = held'
    BY <2>1, <2>2, <2>3
  <2> QED BY <2>1, <2>3, <2>4 DEF RingInv, Slot
<1>5. CASE CommitIn
  <2>1. full \/ Slot(Buf, head) \in Element
    BY <1>5 DEF RingInv, CommitIn
  <2>2. Shape(CommittedIn(Buf)) /\ Whole(CommittedIn(Buf))
    BY <1>0, <2>1, BufferFields, CommittedInKeeps
  <2>3. Shape(Buf)' /\ Whole(Buf)'
    BY <1>5, <2>2, RingBecomes DEF CommitIn
  <2> QED BY <1>5, <2>3 DEF RingInv, CommitIn
<1>6. CASE StartExec \/ Leave
  <2>1. pc' \in {"look", "ready"} /\ held' = held /\ taken' = taken /\ UNCHANGED bufVars
    BY <1>6 DEF StartExec, Leave
  <2> QED BY <1>0, <2>1, RingUnchanged DEF RingInv
<1>7. CASE Look
  <2>1. pc' \in {"pop", "leave"} /\ held' = held /\ taken' = taken /\ UNCHANGED bufVars
    BY <1>7 DEF Look
  <2>2. pc' = "pop" => full \/ head # tail
    <3>1. pc' = "pop" => 0 < Size(Buf)
      BY <1>7 DEF Look
    <3>2. ~full /\ head = tail => Size(Buf) = 0
      BY <1>0, BufferFields, RingAssumption DEF Size, Shape, Index
    <3> QED BY <3>1, <3>2
  <2> QED BY <1>0, <2>1, <2>2, RingUnchanged DEF RingInv
<1>8. CASE StartPop
  <2>1. pc' = "commit_out" /\ held' = CopiedOut(Buf) /\ taken' = taken /\ UNCHANGED bufVars
    BY <1>8 DEF StartPop
  <2>2. held' \in Element \union {Nothing} /\ (full \/ head # tail)
    BY <1>0, <1>8, <2>1, CopiedOutWhole DEF RingInv, StartPop
  <2> QED BY <1>0, <2>1, <2>2, RingUnchanged DEF RingInv
<1>9. CASE CommitOut
  <2>1. Shape(CommittedOut(Buf)) /\ Whole(CommittedOut(Buf))
    BY <1>0, CommittedOutKeeps
  <2>2. Shape(Buf)' /\ Whole(Buf)'
    BY <1>9, <2>1, RingBecomes DEF CommitOut
  <2> QED BY <1>9, <2>2 DEF RingInv, CommitOut
<1>10. CASE IsrPop
  <2>1. Shape(CommittedOut(Buf)) /\ Whole(CommittedOut(Buf))
    BY <1>0, CommittedOutKeeps
  <2>2. Shape(Buf)' /\ Whole(Buf)'
    BY <1>10, <2>1, RingBecomes DEF IsrPop
  <2>3. taken' \in Element \union {Nothing}
    BY <1>0, <1>10, CopiedOutWhole DEF IsrPop
  <2> QED BY <1>1, <1>10, <2>2, <2>3 DEF RingInv, IsrPop
<1>11. CASE UNCHANGED vars
  <2>1. pc' = pc /\ held' = held /\ taken' = taken /\ UNCHANGED bufVars
    BY <1>11 DEF vars
  <2> QED BY <2>1, RingUnchanged DEF RingInv
<1> QED
  BY <1>2, <1>3, <1>4, <1>5, <1>6, <1>7, <1>8, <1>9, <1>10, <1>11 DEF Next

\* The ring and the depth of the regions, together.
LEMMA RingInvariance == Spec => [](DepthInv /\ RingInv)
<1>1. Init => DepthInv
  BY DEF Init, DepthInv, Depth
<1> QED BY <1>1, RingStart, DepthStep, RingStep, PTL DEF Spec

\* Masking is a comparison of depths.
MaskInv == masked \in BOOLEAN

LEMMA MaskStep == DepthInv /\ MaskInv /\ [Next]_vars => MaskInv'
<1>1. \A depth \in Int : StillMasked(depth) \in BOOLEAN
  BY DEF StillMasked
<1>2. DepthInv => nested \in Int /\ nested + 1 \in Int
  BY DEF DepthInv, Depth
<1>3. [Next]_vars => Enter \/ Exit \/ EnterAndExit \/ UNCHANGED masked
  BY Zenon DEF Next, StartPush, IsrPush, CopyIn, CommitIn, StartExec, Look, StartPop,
              CommitOut, Leave, IsrPop, vars
<1> QED BY <1>1, <1>2, <1>3, Zenon DEF MaskInv, Enter, Exit, EnterAndExit

\* Indices stay inside the ring, the depth within two regions, and what goes in
\* or out is a command or, when a full ring is popped, nothing.
THEOREM TypeCorrect == Spec => []TypeOK
<1>1. DepthInv /\ RingInv /\ MaskInv => TypeOK
  <2> SUFFICES ASSUME DepthInv, RingInv, MaskInv PROVE TypeOK
    OBVIOUS
  <2>1. ring \in Bytes /\ head \in Index /\ tail \in Index /\ full \in BOOLEAN
    BY BufferFields DEF RingInv, Shape
  <2>2. nested \in 0 .. 2
    BY DEF DepthInv, Depth
  <2> QED BY <2>1, <2>2 DEF TypeOK, Bytes, Index, DepthInv, RingInv, MaskInv
<1>2. Init => MaskInv
  BY DEF Init, MaskInv
<1> QED BY <1>1, <1>2, RingInvariance, MaskStep, PTL DEF Spec

\* Whoever interrupted whom, a size of zero means that the ring is empty, though
\* the size of a ring that has wrapped is wrong.
THEOREM SizeIsZeroWhenEmpty == Spec => []SizeTellsEmpty
<1>1. RingInv => SizeTellsEmpty
  <2> SUFFICES ASSUME RingInv PROVE SizeTellsEmpty
    OBVIOUS
  <2>1. /\ head \in Index /\ tail \in Index /\ full \in BOOLEAN
        /\ Aligned(head) /\ Aligned(tail) /\ (full => head = tail)
    BY BufferFields DEF RingInv, Shape
  <2>2. /\ head \in Nat /\ tail \in Nat /\ head < Capacity /\ tail < Capacity
        /\ Capacity \in Nat \ {0} /\ Width \in Nat \ {0} /\ Word \in Nat
        /\ 2 * Capacity < Word
    BY <2>1, RingAssumption DEF Index
  <2>3. Size(Buf) = 0 <=> (~full /\ head = tail)
    <3>1. CASE full
      BY <2>2, <3>1, BufferFields DEF Size
    <3>2. CASE ~full /\ tail <= head
      BY <2>2, <3>2, BufferFields DEF Size
    <3>3. CASE ~full /\ head < tail
      <4>1. Capacity - (head - tail) \in 1 .. Word - 1
        BY <2>2, <3>3
      <4>2. (Capacity - (head - tail)) % Word = Capacity - (head - tail)
        BY <2>2, <4>1
      <4>3. Size(Buf) = Capacity - (head - tail)
        BY <2>2, <3>3, <4>2, BufferFields DEF Size
      <4> QED BY <2>2, <3>3, <4>1, <4>3
    <3> QED BY <2>1, <2>2, <3>1, <3>2, <3>3
  <2>4. Used \in Nat
    BY <2>1, <2>2 DEF Used
  <2>5. (~full /\ head = tail) => Used = 0
    <3>1. (head - head + Capacity) % Capacity = 0
      BY <2>2
    <3> QED BY <3>1 DEF Used
  <2>6. ~(~full /\ head = tail) => Width <= Used
    <3>1. CASE full
      BY <2>2, <3>1, NextPlace, AlignedPlaces, AlignedGap DEF Used
    <3>2. CASE ~full /\ tail < head
      <4>1. tail + Width <= head
        BY <2>1, <3>2, AlignedGap
      <4>2. (head - tail + Capacity) % Capacity = head - tail
        BY <2>2, <3>2
      <4> QED BY <2>2, <3>2, <4>1, <4>2 DEF Used
    <3>3. CASE ~full /\ head < tail
      <4>1. tail + Width <= Capacity
        BY <2>1, NextPlace
      <4>2. (head - tail + Capacity) % Capacity = head - tail + Capacity
        BY <2>2, <3>3
      <4> QED BY <2>2, <3>3, <4>1, <4>2 DEF Used
    <3> QED BY <2>1, <2>2, <3>1, <3>2, <3>3
  <2>7. Used \div Width = 0 <=> (~full /\ head = tail)
    BY <2>2, <2>4, <2>5, <2>6, WholeElements
  <2>8. Contents = << >> <=> Used \div Width = 0
    <3>1. Used \div Width \in Nat
      BY <2>4, WholeElements
    <3>2. DOMAIN Contents = 1 .. Used \div Width
      BY DEF Contents
    <3>3. Used \div Width = 0 => Contents = << >>
      BY <3>1 DEF Contents
    <3>4. Contents = << >> => Used \div Width = 0
      BY <3>1, <3>2
    <3> QED BY <3>3, <3>4
  <2> QED BY <2>3, <2>7, <2>8 DEF SizeTellsEmpty
<1> QED BY <1>1, RingInvariance, PTL

-----------------------------------------------------------------------------
(***************************************************************************)
(* The ring implements the queue: the commit of a push puts the command,   *)
(* the commit of a pop takes one (or forgets all of them), and no other    *)
(* step of the main loop shows.                                            *)
(***************************************************************************)
LEMMA ContentsAreElements ==
  /\ Shape(Buf) => Contents = Elements(Buf)
  /\ Shape(Buf') => Contents' = Elements(Buf')
<1>1. ASSUME Shape(Buf) PROVE Contents = Elements(Buf)
  <2>1. Used = Held(Buf)
    BY BufferFields DEF Used, Held
  <2> QED BY <1>1, <2>1, BufferFields, ElementsInBytes DEF Contents
<1>2. ASSUME Shape(Buf') PROVE Contents' = Elements(Buf')
  <2>1. Buf'.ring = ring' /\ Buf'.head = head' /\ Buf'.tail = tail' /\ Buf'.full = full'
    BY DEF Buf
  <2>2. Used' = Held(Buf')
    BY <2>1 DEF Used, Held
  <2>3. [k \in 1 .. Held(Buf') \div Width |->
           [i \in 0 .. Width - 1 |-> Buf'.ring[(Buf'.tail + (k - 1) * Width + i) % Capacity]]]
           = Elements(Buf')
    BY <1>2, ElementsInBytes
  <2> QED BY <2>1, <2>2, <2>3 DEF Contents
<1> QED BY <1>1, <1>2

\* The second half of a push, of the ring as its first half has left it.
LEMMA PushPuts ==
  ASSUME NEW e \in Element, NEW c, Shape(c), Whole(c), c.full \/ Slot(c, c.head) = e,
         Contents = Elements(c), BufBecomes(CommittedIn(c)), UNCHANGED taken
  PROVE  Queue!Put(e) \/ UNCHANGED Queue!queueVars
<1>1. Shape(CommittedIn(c)) /\ Whole(CommittedIn(c))
  BY CommittedInKeeps
<1>2. Contents' = Elements(CommittedIn(c))
  <2>1. Buf' = CommittedIn(c)
    BY <1>1, RingBecomes
  <2> QED BY <1>1, <2>1, ContentsAreElements
<1>3. CASE c.full
  <2>1. CommittedIn(c) = c
    BY <1>3 DEF CommittedIn
  <2> QED BY <1>2, <2>1 DEF Queue!queueVars
<1>4. CASE ~c.full
  <2>1. /\ Elements(CommittedIn(c)) = Append(Elements(c), e)
        /\ Len(Elements(c)) < Capacity \div Width
    BY <1>4, CommittedInElements
  <2> QED BY <1>2, <2>1 DEF Queue!Put
<1> QED BY <1>3, <1>4

\* The second half of a pop of a ring that is not empty.
LEMMA PopTakes ==
  ASSUME Shape(Buf), Whole(Buf), full \/ head # tail,
         BufBecomes(CommittedOut(Buf)), taken' = CopiedOut(Buf)
  PROVE  Queue!Take \/ Queue!Forget
<1>1. Shape(CommittedOut(Buf)) /\ Whole(CommittedOut(Buf))
  BY CommittedOutKeeps
<1>2. Contents' = Elements(CommittedOut(Buf)) /\ Contents = Elements(Buf)
  <2>1. Buf' = CommittedOut(Buf)
    BY <1>1, RingBecomes
  <2> QED BY <1>1, <2>1, ContentsAreElements
<1>3. CASE full
  BY <1>2, <1>3, BufferFields, ForgottenElements DEF Queue!Forget
<1>4. CASE ~full
  BY <1>2, <1>4, BufferFields, CommittedOutElements DEF Queue!Take
<1> QED BY <1>3, <1>4

\* Before its head moves on, a push does not show.
LEMMA CopyHides ==
  ASSUME Shape(Buf), Whole(Buf), NEW e \in Element
  PROVE  /\ Elements(CopiedIn(Buf, e)) = Contents
         /\ Shape(CopiedIn(Buf, e)) /\ Whole(CopiedIn(Buf, e))
         /\ CopiedIn(Buf, e).full \/ Slot(CopiedIn(Buf, e), CopiedIn(Buf, e).head) = e
<1> DEFINE c == CopiedIn(Buf, e)
<1>1. /\ Shape(c) /\ Whole(c)
      /\ c.head = Buf.head /\ c.tail = Buf.tail /\ c.full = Buf.full
      /\ c.full \/ Slot(c, c.head) = e
      /\ \A p \in Index : Aligned(p) /\ Live(Buf, p) => Slot(c, p) = Slot(Buf, p)
  BY CopiedInKeeps
<1> HIDE DEF c
<1>2. Elements(c) = Elements(Buf)
  BY <1>1, SameElements
<1> QED BY <1>1, <1>2, ContentsAreElements DEF c

LEMMA QueueStep ==
  DepthInv /\ RingInv /\ [Next]_vars => [Queue!Next]_(Queue!queueVars)
<1> SUFFICES ASSUME DepthInv, RingInv, [Next]_vars
             PROVE  Queue!Next \/ UNCHANGED Queue!queueVars
  OBVIOUS
<1>0. Shape(Buf) /\ Whole(Buf) /\ Contents = Elements(Buf)
  BY ContentsAreElements DEF RingInv
<1>1. ASSUME UNCHANGED bufVars PROVE Contents' = Contents
  BY <1>1 DEF bufVars, Contents, Used
<1>2. CASE \/ \E e \in Element : StartPush(e)
           \/ StartExec \/ Look \/ StartPop \/ Leave \/ UNCHANGED vars
  <2>1. UNCHANGED << bufVars, taken >>
    BY <1>2 DEF StartPush, StartExec, Look, StartPop, Leave, vars
  <2> QED BY <1>1, <2>1 DEF Queue!queueVars
<1>3. ASSUME NEW e \in Element, IsrPush(e) PROVE Queue!Next \/ UNCHANGED Queue!queueVars
  <2>1. Queue!Put(e) \/ UNCHANGED Queue!queueVars
    BY <1>0, <1>3, CopyHides, PushPuts DEF IsrPush
  <2> QED BY <2>1 DEF Queue!Next
<1>4. CASE CopyIn
  <2>1. held \in Element /\ BufBecomes(CopiedIn(Buf, held)) /\ taken' = taken
    BY <1>4 DEF RingInv, CopyIn
  <2>2. /\ Elements(CopiedIn(Buf, held)) = Contents
        /\ Shape(CopiedIn(Buf, held)) /\ Whole(CopiedIn(Buf, held))
    BY <1>0, <2>1, CopyHides
  <2>3. Buf' = CopiedIn(Buf, held)
    BY <2>1, <2>2, RingBecomes
  <2>4. Contents' = Contents
    BY <2>2, <2>3, ContentsAreElements
  <2> QED BY <2>1, <2>4 DEF Queue!queueVars
<1>5. CASE CommitIn
  <2>1. /\ held \in Element /\ (full \/ Slot(Buf, head) = held)
        /\ BufBecomes(CommittedIn(Buf)) /\ taken' = taken
    BY <1>5 DEF RingInv, CommitIn
  <2>2. Queue!Put(held) \/ UNCHANGED Queue!queueVars
    BY <1>0, <2>1, BufferFields, PushPuts
  <2> QED BY <2>1, <2>2 DEF Queue!Next
<1>6. CASE CommitOut
  <2>1. /\ full \/ head # tail
        /\ BufBecomes(CommittedOut(Buf)) /\ taken' = CopiedOut(Buf)
    BY <1>6 DEF RingInv, CommitOut
  <2> QED BY <1>0, <2>1, PopTakes DEF Queue!Next
<1>7. CASE IsrPop
  <2>1. BufBecomes(CommittedOut(Buf)) /\ taken' = CopiedOut(Buf) /\ 0 < Size(Buf)
    BY <1>7 DEF IsrPop
  <2>2. full \/ head # tail
    <3>1. ~full /\ head = tail => Size(Buf) = 0
      BY <1>0, BufferFields, RingAssumption DEF Size, Shape, Index
    <3> QED BY <2>1, <3>1
  <2> QED BY <1>0, <2>1, <2>2, PopTakes DEF Queue!Next
<1> QED
  BY <1>2, <1>3, <1>4, <1>5, <1>6, <1>7 DEF Next

\* For every capacity, width and command, and whoever interrupts whom, the ring
\* is a queue of whole commands: none is torn, lost or handed out twice.
THEOREM ImplementsQueue == Spec => QueueSpec
<1>1. Init => Queue!Init
  <2> SUFFICES ASSUME Init PROVE Contents = << >> /\ taken = Nothing
    BY DEF Queue!Init
  <2>1. Shape(Buf) /\ Whole(Buf) /\ Contents = Elements(Buf)
    BY RingStart, ContentsAreElements DEF RingInv
  <2>2. Held(Buf) = 0
    BY <2>1, BufferFields, HeldElements DEF Init
  <2>3. 0 \div Width = 0
    BY RingAssumption, WholeElements
  <2>4. Elements(Buf) \in Seq(Element) /\ Len(Elements(Buf)) = 0
    BY <2>1, <2>2, <2>3, ElementsSeq
  <2> QED BY <2>1, <2>4, EmptySeq DEF Init
<1> QED BY <1>1, RingInvariance, QueueStep, PTL DEF Spec, QueueSpec, Queue!Spec
=============================================================================
