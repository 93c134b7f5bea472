------------------------------- MODULE MCTank -------------------------------
(* Enough elements to grow the array from nothing to four slots, then to   *)
(* eight, and back; 3 is a capacity no doubling leads to.                  *)
EXTENDS Tank

TwoValues == {1, 2}
SomeCapacities == {0, 3, 4}
SomeIndices == {-1, 0, 2, 5}
=============================================================================
