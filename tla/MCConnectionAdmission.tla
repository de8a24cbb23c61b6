------------------------- MODULE MCConnectionAdmission -------------------------
(* Constants for the model checker. *)
EXTENDS ConnectionAdmission, TLC

CONSTANTS c1, c2, c3, c4, c5

MCConn      == {c1, c2, c3, c4, c5}
Connections == Permutations(MCConn)
=============================================================================
