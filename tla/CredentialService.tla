--------------------------- MODULE CredentialService ---------------------------
(***************************************************************************)
(* What the application worker and the queue of password and key checks    *)
(* promise each other.  The queue starts a request at most once, on a      *)
(* worker it had free, and gives it up only when it is overdue or its      *)
(* connection is closed.  The caller submits one request of a connection   *)
(* at a time, does not come back in the middle of a pump except from the   *)
(* callback of a request this pump expired, and reports each result once.  *)
(*                                                                         *)
(* CredentialQueue implements it and takes the caller's half for granted;  *)
(* MessagePipeline implements it and takes the queue's half for granted.   *)
(* Order, limits, sources, messages and deadlines do not appear here.      *)
(***************************************************************************)
CONSTANTS Request,   \* a connection, which has at most one request
          Worker     \* hashing workers

VARIABLES alive,     \* whether the connection of a request is open
          waiting,   \* the requests in the queue
          slot,      \* what each worker hashes: no request or one
          pump,      \* none, expiring (callbacks run) or starting
          expired    \* expired by this pump, their callback not returned

vars == <<alive, waiting, slot, pump, expired>>

Init ==
    /\ alive = [i \in Request |-> TRUE]
    /\ waiting = {}
    /\ slot = [w \in Worker |-> {}]
    /\ pump = "none"
    /\ expired = {}

(* The network thread may close connections at any moment. *)
Close(closed) ==
    /\ alive' = [i \in Request |-> alive[i] /\ i \notin closed]
    /\ UNCHANGED <<waiting, slot, pump, expired>>

Submit(i) ==
    /\ pump = "none" \/ (pump = "expiring" /\ i \in expired)
    /\ alive[i]
    /\ i \notin waiting
    /\ \A w \in Worker : i \notin slot[w]
    /\ waiting' = waiting \cup {i}
    /\ UNCHANGED <<alive, slot, pump, expired>>

(* A running request is not cancelled. *)
Cancel(i) ==
    /\ pump = "none"
    /\ ~alive[i]
    /\ waiting' = waiting \ {i}
    /\ UNCHANGED <<alive, slot, pump, expired>>

Complete(w) ==
    /\ pump = "none"
    /\ slot[w] # {}
    /\ slot' = [slot EXCEPT ![w] = {}]
    /\ UNCHANGED <<alive, waiting, pump, expired>>

(* Closed connections' requests are dropped without a callback, late ones expire. *)
Prune(late) ==
    /\ pump = "none"
    /\ late \subseteq {i \in waiting : alive[i]}
    /\ waiting' = {i \in waiting : alive[i]} \ late
    /\ pump' = "expiring"
    /\ expired' = late
    /\ UNCHANGED <<alive, slot>>

Returned ==
    /\ pump = "expiring"
    /\ expired' \in SUBSET expired
    /\ UNCHANGED <<alive, waiting, slot, pump>>

(* Free workers get a request each, or none; the pump may go on or end. *)
Start ==
    /\ pump # "none"
    /\ pump' \in {"starting", "none"}
    /\ expired' = {}
    /\ \E start \in [Worker -> {{}} \cup {{i} : i \in waiting}] :
          /\ \A w \in Worker : start[w] # {} => slot[w] = {}
          /\ \A v, w \in Worker : v # w => start[v] \cap start[w] = {}
          /\ slot' = [w \in Worker |-> slot[w] \cup start[w]]
          /\ waiting' = waiting \ UNION {start[w] : w \in Worker}
    /\ UNCHANGED alive

Next ==
    \/ \E closed \in SUBSET Request : Close(closed)
    \/ \E i \in Request : Submit(i) \/ Cancel(i)
    \/ \E w \in Worker : Complete(w)
    \/ \E late \in SUBSET Request : Prune(late)
    \/ Returned
    \/ Start

Spec == Init /\ [][Next]_vars
=============================================================================
