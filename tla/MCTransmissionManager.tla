------------------------ MODULE MCTransmissionManager ------------------------
(* Constants for the model checker: two devices, a controller identity of   *)
(* the second one and three connections.                                    *)
EXTENDS TransmissionManager, TLC

CONSTANTS d1, d2, k2, c1, c2, c3, nobody, noconn

MCDevice    == {d1, d2}
MCClone     == {k2}
MCOwner     == k2 :> d2
MCConn      == {c1, c2, c3}
Connections == Permutations(MCConn)
=============================================================================
