--------------------------- MODULE PriorityQueue ---------------------------
(***************************************************************************)
(* What the engine needs of the queues in which connections wait for a     *)
(* time: each connection is there at most once, and the one that is taken  *)
(* is one of those whose time is the earliest.                             *)
(***************************************************************************)
EXTENDS Integers, Functions

CONSTANTS PQItem, PQTime

VARIABLES
    pending         \* the time of each item in the queue

PQInit == pending = [x \in {} |-> 0]

PQAdd(x, t) ==
    /\ x \notin DOMAIN pending
    /\ pending' = [y \in DOMAIN pending \cup {x} |->
                     IF y = x THEN t ELSE pending[y]]

PQRemove(x) ==
    /\ x \in DOMAIN pending
    /\ pending' = Restrict(pending, DOMAIN pending \ {x})

PQTake(x) ==
    /\ \A y \in DOMAIN pending : pending[x] <= pending[y]
    /\ PQRemove(x)

PQNext ==
    \/ \E x \in PQItem, t \in PQTime : PQAdd(x, t)
    \/ \E x \in PQItem : PQRemove(x)

PQSpec == PQInit /\ [][PQNext]_pending
=============================================================================
