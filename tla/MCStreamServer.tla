--------------------------- MODULE MCStreamServer ---------------------------
(* The server with room for fewer clients than there are. *)
EXTENDS StreamServer, TLC

CONSTANTS k1, k2, k3

TwoConns == {k1, k2}
ThreeConns == {k1, k2, k3}
Symmetry == Permutations(ThreeConns)
=============================================================================
