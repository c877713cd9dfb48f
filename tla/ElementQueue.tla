---------------------------- MODULE ElementQueue ----------------------------
(***************************************************************************)
(* What acc.c takes its command buffer for: a bounded queue of whole       *)
(* elements that two contexts fill and empty.  A full queue refuses a new  *)
(* element; taking from a full queue gives nothing and forgets all of it.  *)
(***************************************************************************)
EXTENDS Naturals, Sequences

CONSTANTS Element,   \* what is queued
          Places,    \* how many elements the queue takes
          Nothing    \* the result of a take that copies no element

VARIABLES queue,   \* oldest first
          taken    \* what the last take gave

queueVars == << queue, taken >>

Init == queue = << >> /\ taken = Nothing

Put(e) ==
  /\ Len(queue) < Places
  /\ queue' = Append(queue, e)
  /\ UNCHANGED taken

Take ==
  /\ queue # << >> /\ Len(queue) < Places
  /\ queue' = Tail(queue)
  /\ taken' = Head(queue)

Forget ==
  /\ Len(queue) = Places
  /\ queue' = << >>
  /\ taken' = Nothing

Next == (\E e \in Element : Put(e)) \/ Take \/ Forget

Spec == Init /\ [][Next]_queueVars
=============================================================================
