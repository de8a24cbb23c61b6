---------------------------- MODULE MessagePipeline ----------------------------
(***************************************************************************)
(* How a message travels through the process (src/src/signal_server.cpp):  *)
(* the network thread reads it and queues a job; the application worker    *)
(* takes the jobs in order, defers the messages of a connection whose      *)
(* credential request is outstanding, and drains them when it finishes;    *)
(* one thread per hashing worker computes; callbacks are posted back to    *)
(* the network thread, which keeps the authentication deadline.            *)
(*                                                                         *)
(* The worker's calls are small steps of a call stack, because the network *)
(* thread and the hashing threads run between any two of them, and because *)
(* the calls nest: a drained message may pump the queue, whose expiry      *)
(* callbacks drain other connections.                                      *)
(*                                                                         *)
(* The queue of requests is seen from outside: what waits, which worker    *)
(* runs what.  CredentialQueue has its order and limits; here a request    *)
(* may be refused, a waiting one expire, a scan start any of them.         *)
(* The process is not shutting down: stopping_ is false.                   *)
(***************************************************************************)
EXTENDS Integers, Sequences, FiniteSets, SequencesExt

CONSTANTS
    Conn,            \* connections
    Worker,          \* hashing workers
    MaxPending,      \* pending messages of one connection: 128
    DeferredLimit,   \* deferred messages in all: 1024
    AppCapacity,     \* jobs of the application worker beyond the reserve
    Millis,          \* clock readings, as milliseconds since the epoch
    MaxMessage       \* bound: messages each connection sends

ASSUME PipelineAssumption ==
    /\ IsFiniteSet(Conn)
    /\ MaxPending \in Nat \ {0}
    /\ DeferredLimit \in Nat
    /\ AppCapacity \in Nat \ {0}
    /\ Millis \subseteq Nat \ {0}
    /\ MaxMessage \in [Conn -> Nat]

VARIABLES
    alive,           \* ConnectionState::alive
    authenticated,   \* ConnectionState::authenticated, of the network thread
    received,        \* messages read; their numbers are their order of arrival
    net,             \* callbacks posted to the network thread
    shed,            \* backpressure_connections_
    pumpPosted,      \* credential_pump_pending_
    jobs,            \* jobs of the application worker
    calls,           \* its call stack, innermost call first
    pending,         \* ConnectionState::pending_messages
    credential,      \* ConnectionState::credential_pending
    deferred,        \* ConnectionState::deferred_messages
    deferredCount,   \* deferred_message_count_
    deadline,        \* ConnectionState::credential_deadline_ms
    loggedIn,        \* the connection is bound to an identity
    processed,       \* last message processed
    waiting,         \* connections whose request waits in the queue
    slot,            \* CredentialQueue::running_
    inbox,           \* jobs_ of the executor of a hashing worker
    hashing          \* what its thread computes

network == <<authenticated, received, pumpPosted>>
app     == <<pending, credential, deferred, deferredCount, deadline, loggedIn, processed>>
queue   == <<waiting, slot, inbox>>
vars    == <<network, alive, net, shed, jobs, calls, app, queue, hashing>>

Job  == [kind : {"message"}, conn : Conn, number : Nat]
            \cup [kind : {"cleanup"}, conn : Conn]
            \cup [kind : {"hashed"}, conn : Conn, worker : Worker]
            \cup [kind : {"pump"}]
Call == [call : {"drain", "dispatched"}, conn : Conn]
            \cup [call : {"pump"}, expired : SUBSET Conn]
            \cup [call : {"prune", "pumped"}]
Post == [kind : {"login"}, conn : Conn, hashed : BOOLEAN]
            \cup [kind : {"reset"}, conn : Conn, deadline : Nat]
            \cup [kind : {"shed", "pumped"}]

TypeOK ==
    /\ alive \in [Conn -> BOOLEAN]
    /\ authenticated \in [Conn -> BOOLEAN]
    /\ received \in [Conn -> Nat]
    /\ net \in Seq(Post)
    /\ shed \subseteq Conn
    /\ pumpPosted \in BOOLEAN
    /\ jobs \in Seq(Job)
    /\ calls \in Seq(Call)
    /\ pending \in [Conn -> Nat]
    /\ credential \in [Conn -> BOOLEAN]
    /\ deferred \in [Conn -> Seq(Nat)]
    /\ deferredCount \in Nat
    /\ deadline \in [Conn -> Nat]
    /\ loggedIn \in [Conn -> BOOLEAN]
    /\ processed \in [Conn -> Nat]
    /\ waiting \subseteq Conn
    /\ slot \in [Worker -> SUBSET Conn]
    /\ inbox \in [Worker -> SUBSET Conn]
    /\ hashing \in [Worker -> SUBSET Conn]

Init ==
    /\ alive = [c \in Conn |-> TRUE]
    /\ authenticated = [c \in Conn |-> FALSE]
    /\ received = [c \in Conn |-> 0]
    /\ net = <<>>
    /\ shed = {}
    /\ pumpPosted = FALSE
    /\ jobs = <<>>
    /\ calls = <<>>
    /\ pending = [c \in Conn |-> 0]
    /\ credential = [c \in Conn |-> FALSE]
    /\ deferred = [c \in Conn |-> <<>>]
    /\ deferredCount = 0
    /\ deadline = [c \in Conn |-> 0]
    /\ loggedIn = [c \in Conn |-> FALSE]
    /\ processed = [c \in Conn |-> 0]
    /\ waiting = {}
    /\ slot = [w \in Worker |-> {}]
    /\ inbox = [w \in Worker |-> {}]
    /\ hashing = [w \in Worker |-> {}]

-----------------------------------------------------------------------------
(* The network thread. *)

HasRoom == Len(jobs) < AppCapacity

(* CloseConnection and QueueSessionCleanup of the live connections of cs, in   *)
(* the order of their handles: the cleanup goes to the reserve of the queue.   *)
Closed(cs, queued) ==
    LET ends == {c \in cs : alive[c]}
    IN  /\ alive' = [c \in Conn |-> alive[c] /\ c \notin cs]
        /\ \E order \in SetToSeqs({[kind |-> "cleanup", conn |-> c] : c \in ends}) :
              jobs' = queued \o order

OnMessage(c) ==
    /\ alive[c]
    /\ received[c] < MaxMessage[c]
    /\ received' = [received EXCEPT ![c] = @ + 1]
    /\ LET accepted == pending[c] < MaxPending /\ HasRoom
           job == [kind |-> "message", conn |-> c, number |-> received'[c]]
       IN  IF accepted
           THEN /\ pending' = [pending EXCEPT ![c] = @ + 1]
                /\ jobs' = Append(jobs, job)
                /\ UNCHANGED alive
           ELSE Closed({c}, jobs) /\ UNCHANGED pending
    /\ UNCHANGED <<authenticated, pumpPosted, net, shed, calls, credential, deferred,
                   deferredCount, deadline, loggedIn, processed, queue, hashing>>

(* The peer leaves, a timeout, a full send buffer, an invalid message. *)
CloseConnection(c) ==
    /\ alive[c]
    /\ Closed({c}, jobs)
    /\ UNCHANGED <<network, net, shed, calls, app, queue, hashing>>

PumpTimer ==
    /\ ~pumpPosted
    /\ HasRoom
    /\ pumpPosted' = TRUE
    /\ jobs' = Append(jobs, [kind |-> "pump"])
    /\ UNCHANGED <<authenticated, received, alive, net, shed, calls, app, queue, hashing>>

(* Mutant: the deadline is reset whichever request it belongs to. *)
ResetAny(post) == [deadline EXCEPT ![post.conn] = 0]

(* The compare-exchange posted by FinishCredentialRequest. *)
Reset(post) ==
    [deadline EXCEPT ![post.conn] = IF @ = post.deadline THEN 0 ELSE @]

RunPost ==
    /\ net # <<>>
    /\ net' = Tail(net)
    /\ LET post == Head(net)
       IN  \/ /\ post.kind = "login"
              /\ authenticated' = [authenticated EXCEPT ![post.conn] = @ \/ alive[post.conn]]
              /\ UNCHANGED <<alive, shed, jobs, deadline, pumpPosted>>
           \/ /\ post.kind = "reset"
              /\ deadline' = Reset(post)
              /\ UNCHANGED <<alive, shed, jobs, authenticated, pumpPosted>>
           \/ /\ post.kind = "shed"
              /\ Closed(shed, jobs)
              /\ shed' = {}
              /\ UNCHANGED <<deadline, authenticated, pumpPosted>>
           \/ /\ post.kind = "pumped"
              /\ pumpPosted' = FALSE
              /\ UNCHANGED <<alive, shed, jobs, deadline, authenticated>>
    /\ UNCHANGED <<received, calls, pending, credential, deferred, deferredCount,
                   loggedIn, processed, queue, hashing>>

-----------------------------------------------------------------------------
(* What the application worker posts. *)

(* RequestBackpressureClose: all overload is coalesced into one callback. *)
Shedding(posted) ==
    IF \E n \in 1..Len(posted) : posted[n].kind = "shed" THEN posted
    ELSE Append(posted, [kind |-> "shed"])

(* A successful login is answered, unless SendMsg has too much to send; the *)
(* answer is marked when it is that of a hashed request.                    *)
Answers(c, hashed) ==
    {[net |-> Append(net, [kind |-> "login", conn |-> c, hashed |-> hashed]), shed |-> shed],
     [net |-> Shedding(net), shed |-> shed \cup {c}]}

Login(c) ==
    /\ ~loggedIn[c]
    /\ loggedIn' = [loggedIn EXCEPT ![c] = TRUE]

Inner == Head(calls)
In(call) == calls # <<>> /\ Inner.call = call
Pumping == \E n \in 1..Len(calls) : calls[n].call = "pump"
Drain(c) == [call |-> "drain", conn |-> c]
Dispatched(c) == [call |-> "dispatched", conn |-> c]
Prune == [call |-> "prune"]

-----------------------------------------------------------------------------
(* DispatchMessage of message n of c; rest is the stack it returns to. *)

Dropped(c, n, rest) ==
    /\ ~alive[c]
    /\ pending' = [pending EXCEPT ![c] = @ - 1]
    /\ calls' = rest
    /\ UNCHANGED <<net, shed, credential, deadline, loggedIn, processed, waiting>>

Deferred(c, n, rest) ==
    /\ alive[c]
    /\ credential[c]
    /\ calls' = rest
    /\ \/ /\ deferredCount < DeferredLimit
          /\ deferredCount' = deferredCount + 1
          /\ deferred' = [deferred EXCEPT ![c] = Append(@, n)]
          /\ UNCHANGED <<pending, net, shed>>
       \/ /\ deferredCount >= DeferredLimit
          /\ pending' = [pending EXCEPT ![c] = @ - 1]
          /\ shed' = shed \cup {c}
          /\ net' = Shedding(net)
          /\ UNCHANGED <<deferred, deferredCount>>
    /\ UNCHANGED <<credential, deadline, loggedIn, processed, waiting>>

(* A message without credential work, or whose work is refused. *)
Handled(c, n, rest) ==
    /\ processed' = [processed EXCEPT ![c] = n]
    /\ pending' = [pending EXCEPT ![c] = @ - 1]
    /\ calls' = rest
    /\ \/ UNCHANGED <<loggedIn, net, shed>>
       \/ /\ Login(c)
          /\ \E answer \in Answers(c, FALSE) : net' = answer.net /\ shed' = answer.shed
    /\ UNCHANGED <<credential, deadline, waiting>>

(* Mutant: successive requests of one millisecond share their deadline. *)
SameDeadline(c, ms) == IF ms > deadline[c] THEN ms ELSE deadline[c]

(* The deadline a new request of c publishes. *)
NextDeadline(c, ms) == IF ms > deadline[c] THEN ms ELSE deadline[c] + 1

(* Mutant: a Pump inside the callback of another begins all over. *)
SubmittedNested(c, n, rest) ==
    /\ processed' = [processed EXCEPT ![c] = n]
    /\ waiting' = waiting \cup {c}
    /\ credential' = [credential EXCEPT ![c] = TRUE]
    /\ \E ms \in Millis : deadline' = [deadline EXCEPT ![c] = NextDeadline(c, ms)]
    /\ calls' = <<Prune, Dispatched(c)>> \o rest
    /\ UNCHANGED <<pending, loggedIn, net, shed>>

(* SubmitCredentialWork; a Pump in the callback of another returns at once, *)
(* but that of a message drained by a completion runs: pumping_ is not set.  *)
Submitted(c, n, rest) ==
    /\ processed' = [processed EXCEPT ![c] = n]
    /\ waiting' = waiting \cup {c}
    /\ credential' = [credential EXCEPT ![c] = TRUE]
    /\ \E ms \in Millis : deadline' = [deadline EXCEPT ![c] = NextDeadline(c, ms)]
    /\ IF Pumping
       THEN /\ pending' = [pending EXCEPT ![c] = @ - 1]
            /\ calls' = rest
       ELSE /\ calls' = <<Prune, Dispatched(c)>> \o rest
            /\ UNCHANGED pending
    /\ UNCHANGED <<loggedIn, net, shed>>

(* Mutant: nobody looks whether a request is pending. *)
ProcessAtOnce(c, n, rest) ==
    /\ alive[c]
    /\ Handled(c, n, rest) \/ Submitted(c, n, rest)

ProcessMessage(c, n, rest) ==
    /\ alive[c]
    /\ ~credential[c]
    /\ Handled(c, n, rest) \/ Submitted(c, n, rest)

DispatchMessage(c, n, rest) ==
    \/ Deferred(c, n, rest)
    \/ /\ Dropped(c, n, rest) \/ ProcessMessage(c, n, rest)
       /\ UNCHANGED <<deferred, deferredCount>>

-----------------------------------------------------------------------------
(* The jobs of the application worker. *)

Takes(kind) ==
    /\ calls = <<>>
    /\ jobs # <<>>
    /\ Head(jobs).kind = kind
    /\ jobs' = Tail(jobs)

TakeMessage ==
    /\ Takes("message")
    /\ DispatchMessage(Head(jobs).conn, Head(jobs).number, <<>>)
    /\ UNCHANGED <<network, alive, slot, inbox, hashing>>

(* Mutants: the waiting request stays; a running one gives its worker away. *)
KeepWaiting(c) == UNCHANGED <<waiting, slot>>
FreeWorker(c) ==
    /\ waiting' = waiting \ {c}
    /\ slot' = [w \in Worker |-> slot[w] \ {c}]

Cancel(c) ==
    /\ waiting' = waiting \ {c}
    /\ UNCHANGED slot

(* Mutant: the deferred messages go, their count stays. *)
CleanupUncounted ==
    /\ Takes("cleanup")
    /\ LET c == Head(jobs).conn
       IN  /\ Cancel(c)
           /\ pending' = [pending EXCEPT ![c] = @ - Len(deferred[c])]
           /\ deferred' = [deferred EXCEPT ![c] = <<>>]
           /\ loggedIn' = [loggedIn EXCEPT ![c] = FALSE]
    /\ UNCHANGED <<network, alive, net, shed, calls, deferredCount, credential, deadline,
                   processed, inbox, hashing>>

Cleanup ==
    /\ Takes("cleanup")
    /\ LET c == Head(jobs).conn
       IN  /\ Cancel(c)
           /\ pending' = [pending EXCEPT ![c] = @ - Len(deferred[c])]
           /\ deferredCount' = deferredCount - Len(deferred[c])
           /\ deferred' = [deferred EXCEPT ![c] = <<>>]
           /\ loggedIn' = [loggedIn EXCEPT ![c] = FALSE]
    /\ UNCHANGED <<network, alive, net, shed, calls, credential, deadline,
                   processed, inbox, hashing>>

(* Mutant: what was deferred is left for the next message. *)
FinishWithoutDrain(c, posted, rest) ==
    /\ credential' = [credential EXCEPT ![c] = FALSE]
    /\ net' = Append(posted, [kind |-> "reset", conn |-> c, deadline |-> deadline[c]])
    /\ calls' = rest

(* FinishCredentialRequest, up to its loop. *)
Finish(c, posted, rest) ==
    /\ credential' = [credential EXCEPT ![c] = FALSE]
    /\ net' = Append(posted, [kind |-> "reset", conn |-> c, deadline |-> deadline[c]])
    /\ calls' = <<Drain(c)>> \o rest

(* The completion of a hash: its continuation may log the connection in. *)
TakeHashed ==
    /\ Takes("hashed")
    /\ slot' = [slot EXCEPT ![Head(jobs).worker] = {}]
    /\ LET c == Head(jobs).conn
       IN  \/ /\ Finish(c, net, <<Prune>>)
              /\ UNCHANGED <<loggedIn, shed>>
           \/ /\ alive[c]
              /\ Login(c)
              /\ \E answer \in Answers(c, TRUE) :
                    Finish(c, answer.net, <<Prune>>) /\ shed' = answer.shed
    /\ UNCHANGED <<network, alive, pending, deferred, deferredCount, deadline, processed,
                   waiting, inbox, hashing>>

TakePump ==
    /\ Takes("pump")
    /\ calls' = <<Prune, [call |-> "pumped"]>>
    /\ UNCHANGED <<network, alive, net, shed, app, queue, hashing>>

-----------------------------------------------------------------------------
(* The calls within a job. *)

DrainNext ==
    /\ In("drain")
    /\ LET c == Inner.conn
       IN  /\ ~credential[c]
           /\ deferred[c] # <<>>
           /\ deferred' = [deferred EXCEPT ![c] = Tail(@)]
           /\ deferredCount' = deferredCount - 1
           /\ \/ Dropped(c, Head(deferred[c]), calls)
              \/ ProcessMessage(c, Head(deferred[c]), calls)
    /\ UNCHANGED <<network, alive, jobs, slot, inbox, hashing>>

DrainEnd ==
    /\ In("drain")
    /\ credential[Inner.conn] \/ deferred[Inner.conn] = <<>>
    /\ calls' = Tail(calls)
    /\ UNCHANGED <<network, alive, net, shed, jobs, app, queue, hashing>>

Return ==
    /\ In("dispatched")
    /\ pending' = [pending EXCEPT ![Inner.conn] = @ - 1]
    /\ calls' = Tail(calls)
    /\ UNCHANGED <<network, alive, net, shed, jobs, credential, deferred, deferredCount,
                   deadline, loggedIn, processed, queue, hashing>>

(* Pump drops the requests of closed connections and the expired ones. *)
PumpPrune(expired) ==
    /\ In("prune")
    /\ expired \subseteq {c \in waiting : alive[c]}
    /\ waiting' = {c \in waiting : alive[c]} \ expired
    /\ calls' = <<[call |-> "pump", expired |-> expired]>> \o Tail(calls)
    /\ UNCHANGED <<network, alive, net, shed, jobs, app, slot, inbox, hashing>>

PumpExpire(c) ==
    /\ In("pump")
    /\ c \in Inner.expired
    /\ Finish(c, net, <<[Inner EXCEPT !.expired = @ \ {c}]>> \o Tail(calls))
    /\ UNCHANGED <<network, alive, shed, jobs, pending, deferred, deferredCount, deadline,
                   loggedIn, processed, queue, hashing>>

(* Every idle hashing worker gets a waiting request, or none is admitted. *)
PumpScan ==
    LET idle == {w \in Worker : slot[w] = {}}
        One  == {{}} \cup {{c} : c \in waiting}
    IN  /\ In("pump")
        /\ Inner.expired = {}
        /\ \E start \in [idle -> One] :
              /\ \A v, w \in idle : v # w => start[v] \cap start[w] = {}
              /\ slot' = [w \in Worker |-> IF w \in idle THEN start[w] ELSE slot[w]]
              /\ inbox' = [w \in Worker |-> IF w \in idle THEN inbox[w] \cup start[w] ELSE inbox[w]]
              /\ waiting' = waiting \ UNION {start[w] : w \in idle}
        /\ calls' = Tail(calls)
        /\ UNCHANGED <<network, alive, net, shed, jobs, app, hashing>>

(* The timer's job ends. *)
Pumped ==
    /\ In("pumped")
    /\ calls' = Tail(calls)
    /\ net' = Append(net, [kind |-> "pumped"])
    /\ UNCHANGED <<network, alive, shed, jobs, app, queue, hashing>>

-----------------------------------------------------------------------------
(* A hashing worker: its thread takes the job, and posts the completion. *)

HashTake(w) ==
    /\ hashing[w] = {}
    /\ \E c \in inbox[w] :
          /\ hashing' = [hashing EXCEPT ![w] = {c}]
          /\ inbox' = [inbox EXCEPT ![w] = @ \ {c}]
    /\ UNCHANGED <<network, alive, net, shed, jobs, calls, app, waiting, slot>>

HashPost(w) ==
    /\ \E c \in hashing[w] : jobs' = Append(jobs, [kind |-> "hashed", conn |-> c, worker |-> w])
    /\ hashing' = [hashing EXCEPT ![w] = {}]
    /\ UNCHANGED <<network, alive, net, shed, calls, app, queue>>

-----------------------------------------------------------------------------
TakeJob  == TakeMessage \/ Cleanup \/ TakeHashed \/ TakePump
CallStep == DrainNext \/ DrainEnd \/ Return \/ PumpScan \/ Pumped
                \/ (\E expired \in SUBSET Conn : PumpPrune(expired))
                \/ (\E c \in Conn : PumpExpire(c))
HashStep(w) == HashTake(w) \/ HashPost(w)

Next ==
    \/ \E c \in Conn : OnMessage(c) \/ CloseConnection(c)
    \/ PumpTimer \/ RunPost
    \/ TakeJob \/ CallStep
    \/ \E w \in Worker : HashStep(w)

(* Threads run, the 250 ms timer fires, and a request that waits long enough *)
(* is expired by some pump.                                                  *)
Fairness ==
    /\ WF_vars(RunPost)
    /\ WF_vars(PumpTimer)
    /\ WF_vars(TakeJob \/ CallStep)
    /\ \A w \in Worker : WF_vars(HashStep(w))
    /\ SF_vars(\E expired \in SUBSET Conn : expired # {} /\ PumpPrune(expired))

Spec == Init /\ [][Next]_vars
FairSpec == Spec /\ Fairness

-----------------------------------------------------------------------------
Count(seq, S) == Cardinality({n \in DOMAIN seq : seq[n] \in S})
MessageJob(c) == [kind : {"message"}, conn : {c}, number : Nat]
DeferredPlaces == UNION {{c} \X DOMAIN deferred[c] : c \in Conn}
Cleaned(c) == ~alive[c] /\ [kind |-> "cleanup", conn |-> c] \notin Range(jobs)

(* The two counters that bound memory are exact at any moment, whichever way *)
(* a message went: processed, deferred, drained, refused or thrown away by   *)
(* the cleanup.                                                              *)
CountsExact ==
    /\ \A c \in Conn :
          /\ pending[c] = Len(deferred[c]) + Count(jobs, MessageJob(c))
                            + Count(calls, {Dispatched(c)})
          /\ pending[c] <= MaxPending
    /\ deferredCount = Cardinality(DeferredPlaces)
    /\ deferredCount <= DeferredLimit

(* The messages of a connection are processed in the order of their arrival, *)
(* never while its credential request is in the queue or hashed; one is      *)
(* skipped only on a connection that is about to be closed for its backlog.  *)
InOrder ==
    [][\A c \in Conn : processed'[c] # processed[c] =>
          /\ processed'[c] > processed[c]
          /\ processed'[c] = processed[c] + 1 \/ c \in shed
          /\ c \notin waiting
          /\ \A w \in Worker : c \notin slot[w]]_vars

(* The authentication timeout spares a connection until its deadline has     *)
(* passed.  A connection whose request is pending, or whose successful login *)
(* answer is still under way, has one: the reset posted for an earlier       *)
(* request does not take the deadline of the next one.                       *)
DeadlineCovers ==
    \A c \in Conn : alive[c] /\ deadline[c] = 0 =>
        ~credential[c] /\ [kind |-> "login", conn |-> c, hashed |-> TRUE] \notin Range(net)

(* "Reserved credential worker unavailable" is never thrown: the worker the  *)
(* queue believes idle has room in its inbox, although its completion is     *)
(* posted from inside its last job and closed connections leave at any time. *)
WorkerReady ==
    \A w \in Worker :
        /\ slot[w] = {} => inbox[w] = {}
        /\ Cardinality(inbox[w]) <= 1

(* After its cleanup nothing of a connection is retained or still waits for  *)
(* a hashing worker.                                                         *)
NothingRetained ==
    \A c \in Conn : Cleaned(c) => deferred[c] = <<>> /\ c \notin waiting /\ ~loggedIn[c]

(* The pump whose callbacks run, and the connections they are called for: one *)
(* still to be called, and the one whose messages are drained above the pump. *)
PumpPlaces == {n \in DOMAIN calls : calls[n].call = "pump"}
CalledBack ==
    {c \in Conn : \E n \in PumpPlaces :
        c \in calls[n].expired \/ \E m \in 1..(n - 1) : calls[m] = Drain(c)}

Phase == IF PumpPlaces = {} THEN "none" ELSE "expiring"

Service == INSTANCE CredentialService WITH
    Request <- Conn, pump <- Phase, expired <- CalledBack

(* The caller's half of CredentialService: however drains, pumps and expiry   *)
(* callbacks nest, no connection submits a second request, nobody cancels or  *)
(* completes one inside a pump, no pump runs inside another, and only the     *)
(* connections a pump expired submit again before it goes on.                 *)
ServiceKept == Service!Spec

(* Every message accepted is processed, or its connection closed. *)
EveryMessageEnds == \A c \in Conn : pending[c] > 0 ~> pending[c] = 0
=============================================================================
