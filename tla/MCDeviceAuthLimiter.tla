------------------------- MODULE MCDeviceAuthLimiter -------------------------
(* Constants for the model checker, and a history variable: the reservations *)
(* that were under way when an administrator cleared their bucket.           *)
EXTENDS DeviceAuthLimiter, TLC

CONSTANTS s1, t1, t2, t3, a1, a2, a3

MCTarget     == {t1, t2, t3}
MCController == {s1} \X MCTarget     \* one controller, three devices
MCThree      == {a1, a2, a3}
Alike        == Permutations(MCThree) \cup Permutations(MCTarget)

VARIABLE stale

hvars == <<vars, stale>>

HInit == Init /\ stale = {}

HNext ==
    /\ Next
    /\ stale' = {r \in Attempt \X Key : r[2] \in holds'[r[1]] /\
                    (r \in stale \/ \E ks \in ClearSets : r[2] \in ks /\ Clear(ks))}

HSpec == HInit /\ [][HNext]_hvars

(* A failure that was being computed when its bucket was cleared is never    *)
(* counted afterwards and starts no cooldown (the generations of Clear).     *)
ClearedForgotten ==
    [][\A r \in stale : holds'[r[1]] = {} =>
          /\ bucket'[r[2]].count <= bucket[r[2]].count
          /\ bucket'[r[2]].backoff <= bucket[r[2]].backoff]_hvars
=============================================================================
