------------------------ MODULE MCDeviceCredentials ------------------------
(* Constants for the model checker. *)
EXTENDS DeviceCredentials, TLC

CONSTANTS d1, c1, c2, k1, k2, p1, p2, r1, nobody, nokey, norecord

MCSalt == 1..5

TwoConns == {c1, c2}
OneSource == {TwoConns}
TwoKeys == {k1, k2}
TwoPasswords == {p1, p2}
Interchangeable ==
    Permutations(TwoConns) \cup Permutations(TwoKeys) \cup Permutations(TwoPasswords)
=============================================================================
