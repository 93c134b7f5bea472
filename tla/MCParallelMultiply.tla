------------------------- MODULE MCParallelMultiply -------------------------
(* Two by two matrices cut into chunks of three cells: a chunk crosses the *)
(* end of a row, the last one is shorter, two operations overlap.          *)
EXTENDS ParallelMultiply

(* Asymmetric operands, so that a swapped index changes the product. *)
TwoMatrices ==
  {[c \in 0 .. 3 |-> <<1, -2, 3, 5>>[c + 1]],
   [c \in 0 .. 3 |-> <<-4, 1, 0, 2>>[c + 1]]}
=============================================================================
