--------------------------- MODULE MCChunkedQueue ---------------------------
(* An instance of the queue for TLC: two tasks more than two chunks of two *)
(* hold, so that chunks are linked, retired and replaced, and both         *)
(* producers, or both consumers, sleep at once and compete once woken.     *)
EXTENDS ChunkedQueueRefinement

CONSTANTS p1, p2, c1, c2

TwoProducers == {p1, p2}
TwoConsumers == {c1, c2}
SixItems == 1 .. 6

(* Tasks are numbered in the order they are offered.  Nothing tells one    *)
(* fresh task from another, so any other choice only renames them.         *)
InOrder ==
  \A t \in Producers :
    task'[t] \in {task[t], NULL, Cardinality(Issued \ {NULL}) + 1}

OrderedSpec == Init /\ [][Next /\ InOrder]_vars /\ Fairness
=============================================================================
