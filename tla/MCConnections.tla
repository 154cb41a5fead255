--------------------------- MODULE MCConnections ---------------------------
(* Instances of Connections for TLC. *)
EXTENDS Connections, TLC

\* 4 and 5 go to different reactors of two, 4 and 6 to the same.
TwoFds == {4, 5}
OneFd == {4}

Symmetry == Permutations(Conns)
=============================================================================
