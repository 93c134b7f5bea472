---------------------------- MODULE GrowableArray ----------------------------
(***************************************************************************)
(* What task1/Tank.h promises: a sequence of elements that grows and       *)
(* shrinks at its end.  Capacities and memory are not visible.             *)
(***************************************************************************)
EXTENDS Integers, Sequences, Functions

CONSTANT Values

VARIABLES items,    \* the elements
          result    \* what the last call returned

vars == <<items, result>>

Init == items = <<>> /\ result = 0

Push(x) == items' = Append(items, x) /\ UNCHANGED result

Pop ==
  /\ items # <<>>
  /\ result' = items[Len(items)]
  /\ items' = SubSeq(items, 1, Len(items) - 1)

At(k) == k \in DOMAIN items /\ result' = items[k] /\ UNCHANGED items

Sum == result' = SumFunction(items) /\ UNCHANGED items

Clear == items' = <<>> /\ UNCHANGED result

Next ==
  \/ \E x \in Values : Push(x)
  \/ Pop \/ Sum \/ Clear
  \/ \E k \in DOMAIN items : At(k)

Spec == Init /\ [][Next]_vars
=============================================================================
