-------------------------- MODULE ConnectionAdmission --------------------------
(***************************************************************************)
(* Which connections the network thread lets in (AcceptNext, RetryAccept,  *)
(* FinishConnection, QueueSessionCleanup, Stop in signal_server.cpp), and   *)
(* why the jobs that must never be lost always find room in the queue of   *)
(* the application worker (BoundedExecutor::Submit).                       *)
(*                                                                         *)
(* The queue is seen as what is in it: the order of the jobs plays no role *)
(* here.  Whether the file descriptors suffice is the system's choice.     *)
(* Errors on which the process gives up are left out.                      *)
(***************************************************************************)
EXTENDS Integers, FiniteSets

CONSTANTS
    Conn,            \* connections; a name is used again when nothing of it is left
    Configured,      \* CROSSDESK_MAX_CONNECTIONS, which sizes the reserve
    MaxConn,         \* max_connections_, after the limit on descriptors
    MaxHandshakes,   \* max_handshakes_
    Workers,         \* hashing workers
    AppCapacity      \* capacity of the application worker

ASSUME AdmissionAssumption ==
    /\ Configured \in Nat \ {0}
    /\ MaxConn \in 1..Configured
    /\ MaxHandshakes \in Nat \ {0}
    /\ Workers \in Nat \ {0}
    /\ AppCapacity \in Nat \ {0}

Reserve == Configured + Workers + 4

VARIABLES
    conns,           \* connections_
    alive,           \* those whose session is not closed
    opened,          \* those whose WebSocket handshake is over
    pendingCleanup,  \* pending_cleanup_
    acceptPending,   \* accept_pending_
    retryPending,    \* accept_retry_pending_
    stop,            \* Stop(): not asked, its callback posted, or done
    cleanups,        \* cleanup jobs queued
    posted,          \* cleanups done, their callback posted
    hashed,          \* completions of hashing workers queued
    prune,           \* the prune of recovered sessions: due, queued or done
    farewell,        \* the last heartbeat job queued
    plain            \* all other jobs queued

accepting == <<acceptPending, retryPending>>
others    == <<hashed, prune, farewell, plain>>
vars      == <<conns, alive, opened, pendingCleanup, accepting, stop, cleanups, posted, others>>

TypeOK ==
    /\ conns \in SUBSET Conn /\ IsFiniteSet(conns)
    /\ alive \subseteq conns
    /\ opened \subseteq conns
    /\ pendingCleanup \in Nat
    /\ acceptPending \in BOOLEAN
    /\ retryPending \in BOOLEAN
    /\ stop \in {"no", "asked", "done"}
    /\ cleanups \in SUBSET Conn /\ IsFiniteSet(cleanups)
    /\ posted \in SUBSET Conn /\ IsFiniteSet(posted)
    /\ hashed \in 0..Workers
    /\ prune \in {"due", "queued", "done"}
    /\ farewell \in BOOLEAN
    /\ plain \in 0..AppCapacity

(* The first AcceptNext of Run finds everything free. *)
Init ==
    /\ conns = {}
    /\ alive = {}
    /\ opened = {}
    /\ pendingCleanup = 0
    /\ acceptPending = TRUE
    /\ retryPending = FALSE
    /\ stop = "no"
    /\ cleanups = {}
    /\ posted = {}
    /\ hashed = 0
    /\ prune = "due"
    /\ farewell = FALSE
    /\ plain = 0

-----------------------------------------------------------------------------
One(condition) == IF condition THEN 1 ELSE 0

Jobs == plain + Cardinality(cleanups) + hashed + One(prune = "queued") + One(farewell)

(* BoundedExecutor::Submit with lifecycle set: its failure ends the process. *)
Submits == Jobs < AppCapacity + Reserve

(* Mutants: cleanups are not counted; one handshake too many. *)
LimitedByLive(cs, os) ==
    \/ Cardinality(cs) >= MaxConn
    \/ Cardinality(cs \ os) >= MaxHandshakes
LimitedLate(cs, os) ==
    \/ Cardinality(cs) + pendingCleanup >= MaxConn
    \/ Cardinality(cs \ os) > MaxHandshakes

Limited(cs, os) ==
    \/ Cardinality(cs) + pendingCleanup >= MaxConn
    \/ Cardinality(cs \ os) >= MaxHandshakes

RetryAccept ==
    /\ acceptPending' = FALSE
    /\ retryPending' = TRUE

(* AcceptNext with connections cs, os of them opened and no accept pending. *)
AcceptNext(cs, os) ==
    \/ /\ ~Limited(cs, os)
       /\ acceptPending' = TRUE
       /\ retryPending' = FALSE
    \/ RetryAccept

Unused == Conn \ (conns \cup cleanups \cup posted)

Accepted(c) ==
    /\ acceptPending
    /\ stop = "no"
    /\ c \in Unused
    /\ conns' = conns \cup {c}
    /\ alive' = alive \cup {c}
    /\ AcceptNext(conns', opened)
    /\ UNCHANGED <<opened, pendingCleanup, stop, cleanups, posted, others>>

(* Mutant: the error is logged and nothing is scheduled. *)
AcceptFailedSilently ==
    /\ acceptPending
    /\ stop = "no"
    /\ acceptPending' = FALSE
    /\ UNCHANGED <<conns, alive, opened, pendingCleanup, retryPending, stop, cleanups,
                   posted, others>>

(* The accept fails, or the connection cannot be initialised: it may already *)
(* be registered, then its termination handler removes it.                   *)
AcceptFailed ==
    /\ acceptPending
    /\ stop = "no"
    /\ RetryAccept
    /\ \/ UNCHANGED <<conns, alive>>
       \/ \E c \in Unused : conns' = conns \cup {c} /\ alive' = alive \cup {c}
    /\ UNCHANGED <<opened, pendingCleanup, stop, cleanups, posted, others>>

(* The acceptor is closed, or it delivers a last socket, which is dropped. *)
AcceptStopped ==
    /\ acceptPending
    /\ stop # "no"
    /\ acceptPending' = FALSE
    /\ UNCHANGED <<conns, alive, opened, pendingCleanup, retryPending, stop, cleanups,
                   posted, others>>

RetryTimer ==
    /\ retryPending
    /\ IF stop # "no" \/ acceptPending
       THEN retryPending' = FALSE /\ UNCHANGED acceptPending
       ELSE AcceptNext(conns, opened)
    /\ UNCHANGED <<conns, alive, opened, pendingCleanup, stop, cleanups, posted, others>>

OnOpen(c) ==
    /\ c \in conns \ opened
    /\ opened' = opened \cup {c}
    /\ UNCHANGED <<conns, alive, pendingCleanup, accepting, stop, cleanups, posted, others>>

-----------------------------------------------------------------------------
(* Mutant: a session closed before is queued for cleanup again. *)
QueueEvery(cs) ==
    LET ends == cs \cap opened
    IN  /\ alive' = alive \ cs
        /\ pendingCleanup' = pendingCleanup + Cardinality(ends)
        /\ cleanups' = cleanups \cup ends

(* QueueSessionCleanup of each of cs. *)
QueueSessionCleanup(cs) ==
    LET ends == cs \cap alive \cap opened
    IN  /\ alive' = alive \ cs
        /\ pendingCleanup' = pendingCleanup + Cardinality(ends)
        /\ cleanups' = cleanups \cup ends

CloseConnection(c) ==
    /\ c \in alive
    /\ Submits
    /\ QueueSessionCleanup({c})
    /\ UNCHANGED <<conns, opened, accepting, stop, posted, others>>

FinishConnection(c) ==
    /\ c \in conns
    /\ Submits
    /\ QueueSessionCleanup({c})
    /\ conns' = conns \ {c}
    /\ opened' = opened \ {c}
    /\ UNCHANGED <<accepting, stop, posted, others>>

(* The job of the cleanup, and the callback it posts. *)
Cleanup(c) ==
    /\ c \in cleanups
    /\ cleanups' = cleanups \ {c}
    /\ posted' = posted \cup {c}
    /\ UNCHANGED <<conns, alive, opened, pendingCleanup, accepting, stop, others>>

CleanupPosted(c) ==
    /\ c \in posted
    /\ posted' = posted \ {c}
    /\ pendingCleanup' = pendingCleanup - 1
    /\ UNCHANGED <<conns, alive, opened, accepting, stop, cleanups, others>>

-----------------------------------------------------------------------------
(* Stop is asked in any thread; its callback closes every connection. *)
Stop ==
    /\ stop = "no"
    /\ stop' = "asked"
    /\ UNCHANGED <<conns, alive, opened, pendingCleanup, accepting, cleanups, posted, others>>

StopPosted ==
    /\ stop = "asked"
    /\ Submits
    /\ stop' = "done"
    /\ farewell' = TRUE
    /\ QueueSessionCleanup(conns)
    /\ UNCHANGED <<conns, opened, accepting, posted, hashed, prune, plain>>

(* The other jobs, from their Submit to their end. *)
SubmitPlain ==
    /\ Jobs < AppCapacity
    /\ plain' = plain + 1
    /\ UNCHANGED <<hashed, prune, farewell>>
RunPlain ==
    /\ plain > 0
    /\ plain' = plain - 1
    /\ UNCHANGED <<hashed, prune, farewell>>
SubmitHashed ==
    /\ hashed < Workers
    /\ Submits
    /\ hashed' = hashed + 1
    /\ UNCHANGED <<prune, farewell, plain>>
RunHashed ==
    /\ hashed > 0
    /\ hashed' = hashed - 1
    /\ UNCHANGED <<prune, farewell, plain>>
SubmitPrune ==
    /\ prune = "due"
    /\ stop = "no"
    /\ Submits
    /\ prune' = "queued"
    /\ UNCHANGED <<hashed, farewell, plain>>
RunPrune ==
    /\ prune = "queued"
    /\ prune' = "done"
    /\ UNCHANGED <<hashed, farewell, plain>>
RunFarewell ==
    /\ farewell
    /\ farewell' = FALSE
    /\ UNCHANGED <<hashed, prune, plain>>

OtherJob ==
    /\ SubmitPlain \/ RunPlain \/ SubmitHashed \/ RunHashed
         \/ SubmitPrune \/ RunPrune \/ RunFarewell
    /\ UNCHANGED <<conns, alive, opened, pendingCleanup, accepting, stop, cleanups, posted>>

Next ==
    \/ \E c \in Conn :
          \/ Accepted(c) \/ OnOpen(c) \/ CloseConnection(c)
          \/ FinishConnection(c) \/ Cleanup(c) \/ CleanupPosted(c)
    \/ AcceptFailed \/ AcceptStopped \/ RetryTimer
    \/ Stop \/ StopPosted \/ OtherJob

Spec == Init /\ [][Next]_vars

-----------------------------------------------------------------------------
Owners == conns \cup cleanups \cup posted

(* "Lifecycle queue reserve exhausted" is never thrown: whatever floods the  *)
(* worker, one more cleanup, completion, prune or farewell job finds room,   *)
(* and at Stop, which closes all at once, a cleanup of every connection.     *)
ReserveSuffices ==
    Jobs + Cardinality(alive \cap opened) + One(stop # "done") < AppCapacity + Reserve

(* Connections and sessions still to be cleaned up share one limit, and so   *)
(* does the accept under way, although AcceptNext looked before it started.  *)
OwnersBounded ==
    Cardinality(Owners) + One(acceptPending) <= MaxConn

(* No more TLS and WebSocket handshakes than allowed, the next one included. *)
HandshakesBounded ==
    Cardinality(conns \ opened) + One(acceptPending) <= MaxHandshakes

(* Both limits at once, whatever order accepts, closes and cleanups take.   *)
ConnectionsBounded == OwnersBounded /\ HandshakesBounded

(* pending_cleanup_ counts each closed session once, from the close to the   *)
(* callback, although teardowns converge on QueueSessionCleanup repeatedly.  *)
CleanupsCounted ==
    /\ pendingCleanup = Cardinality(cleanups) + Cardinality(posted)
    /\ cleanups \cap posted = {}
    /\ (cleanups \cup posted) \cap alive = {}

(* Until Stop there is an accept or a retry timer, and never both: no error  *)
(* and no limit makes the server deaf.                                       *)
AcceptorLives == stop = "no" => acceptPending # retryPending
=============================================================================
