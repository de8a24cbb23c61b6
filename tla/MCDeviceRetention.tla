------------------------ MODULE MCDeviceRetention ------------------------
(* Constants for the model checker. *)
EXTENDS DeviceRetention, TLC

CONSTANTS d1, k1, w1, c1, c2

CloneOfDevice == k1 :> d1
NoOwner       == [k \in {} |-> d1]
GuestJoins    == {<<d1, w1>>}

TwoConns == {c1, c2}
Interchangeable == Permutations(TwoConns)
=============================================================================
