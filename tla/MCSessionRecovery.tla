-------------------------- MODULE MCSessionRecovery --------------------------
(* One device and its controller identity, whose session is restarted with  *)
(* and without tickets, over connections that come back after every crash.  *)
EXTENDS SessionRecovery, TLC

CONSTANTS d1, k1, c1, c2, c3, nobody, noconn

MCDevice    == {d1}
MCClone     == {k1}
MCOwner     == k1 :> d1
MCConn      == {c1, c2, c3}
MCPair      == {c1, c2}
Connections == Permutations(MCConn)
=============================================================================
