-------------------------------- MODULE MCFds -------------------------------
(* Fds with two process slots, which no operation on fds tells apart.       *)
EXTENDS Fds, TLC
CONSTANTS p1, p2

Slots == {p1, p2}
Symmetry == Permutations(Slots)
=============================================================================
