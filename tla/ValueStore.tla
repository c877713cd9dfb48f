----------------------------- MODULE ValueStore -----------------------------
(***************************************************************************)
(* What storage.c promises to clients that await the end of each write to  *)
(* a key: a write takes place whole, or not at all.  While it takes place  *)
(* the old value and the new one can both be read.  A reset at that moment *)
(* leaves both in a key that is torn from then on: a later write may       *)
(* replace the one version and leave the other.                            *)
(***************************************************************************)
CONSTANTS Key, Value

VARIABLES stored,   \* for each key the values a read may give
          asked,    \* for each key the value of the write under way, if any
          half,     \* the keys of which the old and the new version exist
          torn      \* the keys a reset left so

storeVars == << stored, asked, half, torn >>

Init ==
  /\ stored = [k \in Key |-> {}] /\ asked = [k \in Key |-> {}]
  /\ half = {} /\ torn = {}

Ask(k, v) ==
  /\ asked[k] = {}
  /\ asked' = [asked EXCEPT ![k] = {v}]
  /\ UNCHANGED << stored, half, torn >>

Begin(k) ==
  /\ asked[k] # {} /\ half = {}
  /\ half' = {k}
  /\ stored' = [stored EXCEPT ![k] = @ \cup asked[k]]
  /\ UNCHANGED << asked, torn >>

\* The new value is the only one, unless the key was torn.
Succeed(k) ==
  /\ k \in half /\ half' = {}
  /\ asked' = [asked EXCEPT ![k] = {}]
  /\ \E left \in SUBSET stored[k] :
       /\ asked[k] \subseteq left
       /\ k \notin torn => left = asked[k]
       /\ stored' = [stored EXCEPT ![k] = left]
  /\ UNCHANGED torn

\* Nothing of the new value remains.
Fail(k) ==
  /\ asked[k] # {} /\ k \notin half
  /\ asked' = [asked EXCEPT ![k] = {}]
  /\ UNCHANGED << stored, half, torn >>

\* No value is lost, and no other key is torn.
Crash ==
  /\ asked' = [k \in Key |-> {}] /\ half' = {}
  /\ torn \subseteq torn' /\ torn' \subseteq torn \cup half
  /\ \A k \in Key \ torn' : \A v, w \in stored[k] : v = w
  /\ UNCHANGED stored

Next ==
  \/ \E k \in Key, v \in Value : Ask(k, v)
  \/ \E k \in Key : Begin(k) \/ Succeed(k) \/ Fail(k)
  \/ Crash

Spec == Init /\ [][Next]_storeVars
=============================================================================
