---------------------------- MODULE CredentialQueue ----------------------------
(***************************************************************************)
(* The queue of password and key checks (src/src/credential_queue.h).      *)
(*                                                                         *)
(* It is owned by the application worker, so its functions never run at    *)
(* the same time; but Pump calls back while it runs: an expired request    *)
(* drains its connection's deferred messages, which may enqueue again.  A  *)
(* pump is therefore three kinds of steps: the prune, the requests its     *)
(* expiry callbacks enqueue, and one scan per hashing worker.  The         *)
(* connection of a job may die at any moment, in the network thread.       *)
(*                                                                         *)
(* Time is the value Pump samples once; the source limiter behind admit()  *)
(* answers arbitrarily.  Statistics are left out.                          *)
(***************************************************************************)
EXTENDS Naturals, Sequences, FiniteSets

CONSTANTS
    Job,              \* ids of requests: one per connection
    Sources,          \* number of sources; 1..Sources in the order of the map's keys
    Workers,          \* credential_worker_count_
    Capacity,         \* outstanding requests in all
    SourceCapacity,   \* outstanding requests of one source
    Timeout,          \* credential_timeout_seconds_
    Delay,            \* retry delays admit() may answer
    MaxTime           \* bound on the clock

ASSUME QueueAssumption ==
    /\ Sources \in Nat \ {0}
    /\ Workers \in Nat \ {0}
    /\ Capacity \in Nat \ {0}
    /\ SourceCapacity \in Nat \ {0}
    /\ Timeout \in Nat \ {0}
    /\ Delay \subseteq Nat \ {0}
    /\ MaxTime \in Nat

Source == 1..Sources
Worker == 1..Workers
Idle   == [id |-> {}, source |-> 0]

VARIABLES
    waiting,       \* Source::waiting, a FIFO of requests per source
    outstanding,   \* Source::outstanding; 0 when the source has no entry
    notBefore,     \* Source::not_before
    ids,           \* ids_
    running,       \* running_, one slot per hashing worker
    lastSource,    \* last_source_; 0 is the empty string
    scan,          \* 0, or the next worker of the running Pump (pumping_)
    freed,         \* requests the running Pump expired: their callbacks may enqueue
    alive,         \* ConnectionState::alive of the request's connection
    now

queue == <<waiting, outstanding, notBefore, ids, running, lastSource>>
vars  == <<queue, scan, freed, alive, now>>

Waiting(s)    == {waiting[s][n].id : n \in DOMAIN waiting[s]}
RunningOf(s)  == {w \in Worker : running[w].source = s}
JobRunning(i) == \E w \in Worker : running[w].id = {i}

TypeOK ==
    /\ waiting \in [Source -> Seq([id : Job, deadline : Nat])]
    /\ outstanding \in [Source -> Nat]
    /\ notBefore \in [Source -> Nat]
    /\ ids \subseteq Job
    /\ running \in [Worker -> {Idle} \cup [id : {{i} : i \in Job}, source : Source]]
    /\ lastSource \in 0..Sources
    /\ scan \in 0..Workers
    /\ freed \subseteq Job
    /\ alive \in [Job -> BOOLEAN]
    /\ now \in 0..MaxTime

Init ==
    /\ waiting = [s \in Source |-> <<>>]
    /\ outstanding = [s \in Source |-> 0]
    /\ notBefore = [s \in Source |-> 0]
    /\ ids = {}
    /\ running = [w \in Worker |-> Idle]
    /\ lastSource = 0
    /\ scan = 0
    /\ freed = {}
    /\ alive = [i \in Job |-> TRUE]
    /\ now = 0

-----------------------------------------------------------------------------
(* A source without outstanding requests is erased, its not_before with it. *)
Erased(before, out) == [s \in Source |-> IF out[s] = 0 THEN 0 ELSE before[s]]

(* Mutant: nobody looks whether the connection already has a request. *)
EnqueueTwice(i, s) ==
    /\ scan = 0 \/ (scan = 1 /\ i \in freed)
    /\ alive[i]
    /\ now + Timeout <= MaxTime
    /\ Cardinality(ids) < Capacity
    /\ outstanding[s] < SourceCapacity
    /\ ids' = ids \cup {i}
    /\ outstanding' = [outstanding EXCEPT ![s] = @ + 1]
    /\ waiting' = [waiting EXCEPT ![s] = Append(@, [id |-> i, deadline |-> now + Timeout])]
    /\ UNCHANGED <<notBefore, running, lastSource, scan, freed, alive, now>>

(* Called between two pumps, or from the callback of a request this pump expired. *)
Enqueue(i, s) ==
    /\ scan = 0 \/ (scan = 1 /\ i \in freed)
    /\ alive[i]
    /\ now + Timeout <= MaxTime
    /\ Cardinality(ids) < Capacity
    /\ i \notin ids
    /\ outstanding[s] < SourceCapacity
    /\ ids' = ids \cup {i}
    /\ outstanding' = [outstanding EXCEPT ![s] = @ + 1]
    /\ waiting' = [waiting EXCEPT ![s] = Append(@, [id |-> i, deadline |-> now + Timeout])]
    /\ UNCHANGED <<notBefore, running, lastSource, scan, freed, alive, now>>

(* What is left of a FIFO without the places in gone, in its order. *)
Without(fifo, gone) ==
    LET kept     == DOMAIN fifo \ gone
        Place(n) == Cardinality({m \in kept : m <= n})
    IN  [k \in 1..Cardinality(kept) |-> fifo[CHOOSE n \in kept : Place(n) = k]]

(* Of a closed connection; a running hash finishes normally. *)
Cancel(i) ==
    /\ scan = 0
    /\ ~alive[i]
    /\ \E s \in Source : \E n \in DOMAIN waiting[s] :
        /\ waiting[s][n].id = i
        /\ waiting' = [waiting EXCEPT ![s] = Without(@, {n})]
        /\ outstanding' = [outstanding EXCEPT ![s] = @ - 1]
    /\ ids' = ids \ {i}
    /\ notBefore' = Erased(notBefore, outstanding')
    /\ UNCHANGED <<running, lastSource, scan, freed, alive, now>>

(* Mutant: the source keeps its account of the request. *)
CompleteUnaccounted(w) ==
    /\ scan = 0
    /\ running[w] # Idle
    /\ ids' = ids \ running[w].id
    /\ running' = [running EXCEPT ![w] = Idle]
    /\ UNCHANGED <<waiting, outstanding, notBefore, lastSource, scan, freed, alive, now>>

Complete(w) ==
    /\ scan = 0
    /\ running[w] # Idle
    /\ ids' = ids \ running[w].id
    /\ outstanding' = [outstanding EXCEPT ![running[w].source] = @ - 1]
    /\ notBefore' = Erased(notBefore, outstanding')
    /\ running' = [running EXCEPT ![w] = Idle]
    /\ UNCHANGED <<waiting, lastSource, scan, freed, alive, now>>

(* Mutant: only requests of closed connections are pruned. *)
KeepsAlive(job) == alive[job.id]

(* Requests that stay: the connection is there and the deadline has not passed. *)
Keeps(job) == alive[job.id] /\ now < job.deadline

Gone(s) == {n \in DOMAIN waiting[s] : ~Keeps(waiting[s][n])}
GoneIds == UNION {{waiting[s][n].id : n \in Gone(s)} : s \in Source}

(* The prune also runs when every worker is busy. *)
PumpBegin ==
    /\ scan = 0
    /\ scan' = 1
    /\ waiting' = [s \in Source |-> Without(waiting[s], Gone(s))]
    /\ outstanding' = [s \in Source |-> outstanding[s] - Cardinality(Gone(s))]
    /\ notBefore' = Erased(notBefore, outstanding')
    /\ ids' = ids \ GoneIds
    /\ freed' = {i \in GoneIds : alive[i]}
    /\ UNCHANGED <<running, lastSource, alive, now>>

(* Mutant: every scan starts again from the first source. *)
FromFirst(s) == s

(* How far a source is from the last one served, in the cyclic order of the map. *)
Turn(s) == IF s > lastSource THEN s - lastSource ELSE s + Sources - lastSource

Ready == {s \in Source : waiting[s] # <<>> /\ notBefore[s] <= now}

(* The sources a scan asks before it starts a request of s answer a delay. *)
Before(s)  == {r \in Ready : Turn(r) < Turn(s)}
Pushed(rs, d) == [s \in Source |-> IF s \in rs THEN now + d[s] ELSE notBefore[s]]

Scanned ==
    /\ scan' = IF scan = Workers THEN 0 ELSE scan + 1
    /\ freed' = IF scan = Workers THEN {} ELSE freed
    /\ UNCHANGED <<ids, outstanding, alive, now>>

PumpBusy ==
    /\ scan # 0
    /\ running[scan] # Idle
    /\ Scanned
    /\ UNCHANGED <<waiting, notBefore, running, lastSource>>

PumpStart(s) ==
    /\ scan # 0
    /\ running[scan] = Idle
    /\ s \in Ready
    /\ \E d \in [Before(s) -> Delay] : notBefore' = Pushed(Before(s), d)
    /\ running' = [running EXCEPT ![scan] = [id |-> {Head(waiting[s]).id}, source |-> s]]
    /\ waiting' = [waiting EXCEPT ![s] = Tail(@)]
    /\ lastSource' = s
    /\ Scanned

(* No source is ready, or all of them are to wait. *)
PumpNone ==
    /\ scan # 0
    /\ running[scan] = Idle
    /\ \E d \in [Ready -> Delay] : notBefore' = Pushed(Ready, d)
    /\ Scanned
    /\ UNCHANGED <<waiting, running, lastSource>>

-----------------------------------------------------------------------------
(* Outside the queue. *)
Die(i) ==
    /\ alive[i]
    /\ alive' = [alive EXCEPT ![i] = FALSE]
    /\ UNCHANGED <<queue, scan, freed, now>>

Tick ==
    /\ scan = 0
    /\ now < MaxTime
    /\ now' = now + 1
    /\ UNCHANGED <<queue, scan, freed, alive>>

PumpStep == PumpBusy \/ PumpNone \/ \E s \in Source : PumpStart(s)

Next ==
    \/ \E i \in Job, s \in Source : Enqueue(i, s)
    \/ \E i \in Job : Cancel(i) \/ Die(i)
    \/ \E w \in Worker : Complete(w)
    \/ PumpBegin \/ PumpStep
    \/ Tick

(* The 250 ms timer pumps, a pump ends, a hash ends, and time passes between pumps. *)
Fairness ==
    /\ WF_vars(PumpBegin)
    /\ WF_vars(PumpStep)
    /\ \A w \in Worker : SF_vars(Complete(w))
    /\ SF_vars(Tick)

Spec == Init /\ [][Next]_vars
FairSpec == Spec /\ Fairness

-----------------------------------------------------------------------------
(* The accounts of Enqueue, Cancel, Complete and Pump agree with the queue:  *)
(* every id waits or runs exactly once, and a source's outstanding count is   *)
(* what it has waiting and running, so that an erased source is really idle.  *)
AccountsAgree ==
    /\ \A s \in Source : outstanding[s] = Len(waiting[s]) + Cardinality(RunningOf(s))
    /\ ids = (UNION {Waiting(s) : s \in Source}) \cup UNION {running[w].id : w \in Worker}
    /\ \A s, r \in Source : \A n \in DOMAIN waiting[s], m \in DOMAIN waiting[r] :
          waiting[s][n].id = waiting[r][m].id => s = r /\ n = m
    /\ \A s \in Source : \A i \in Waiting(s) : ~JobRunning(i)
    /\ \A v, w \in Worker : running[v].id = running[w].id /\ running[v] # Idle => v = w

(* Enqueue's limits hold between any two calls, callbacks included: no burst *)
(* of one source takes more than its share of the outstanding requests.       *)
LimitsHold ==
    /\ Cardinality(ids) <= Capacity
    /\ \A s \in Source : Len(waiting[s]) + Cardinality(RunningOf(s)) <= SourceCapacity

(* Exact accounts, and with them the limits, although an expiry callback     *)
(* may complete requests and enqueue others in the middle of Pump's loop.     *)
QueueSound == AccountsAgree /\ LimitsHold

(* The queue as its callers see it: CredentialService, where the requests    *)
(* whose callbacks may still come back are those freed before the scan.       *)
InQueue  == UNION {Waiting(s) : s \in Source}
Slots    == [w \in Worker |-> running[w].id]
Phase    == IF scan = 0 THEN "none" ELSE IF scan = 1 THEN "expiring" ELSE "starting"
Callable == IF scan = 1 THEN freed ELSE {}

Service == INSTANCE CredentialService WITH
    Request <- Job, waiting <- InQueue, slot <- Slots, pump <- Phase, expired <- Callable

(* A request accepted once is started at most once, on a worker that is free, *)
(* and is lost only overdue or with its connection, also when a callback of   *)
(* Pump brings the connection's next request in the middle of it.             *)
ServiceKept == Service!Spec

(* Every accepted request leaves the queue: served, expired or cancelled. *)
EveryRequestEnds == \A i \in Job : i \in ids ~> i \notin ids
=============================================================================
