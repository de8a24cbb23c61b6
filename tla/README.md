# A verification project for crossdesk-server

TLA+ models of the CrossDesk signaling server, TLC configurations that check
them on small instances, and TLAPS proofs of the results that matter most for
every instance. All definitions are translated from the C++ sources
(`src/src/...` below); `PROJECT.json` maps each one to its lines.

## 1. The system

The server is one process with one network thread (asio, WebSocket over TLS),
one *application worker* that executes every state change in the order it was
queued, one thread per *hashing worker* for Argon2id and key checks, a reader
for the administration pages and a maintenance worker. SQLite holds what
survives a restart. Clients log in as a device, as a controller identity of a
device (`C-...`) or as a temporary controller (`web-...`, `cli-...`), enter the
room of a device with its password, and exchange WebRTC signals in it.

| Component | State | Operations | What makes it correct |
|---|---|---|---|
| Rooms and connections (`transmission_manager.*`) | six maps between identities, connections and rooms | bind, grant, release, prune | the maps agree with each other and with the session table; signals stay between a device and the guests it admitted; an old connection's end takes nothing from a newer one |
| Signal negotiation (`signal_negotiation.*`, `device_login.cpp`) | continuations of credential work, password-change cache, challenges | the message handlers | the identity checked before the hash is still the one the continuation acts for |
| Session recovery (`session_recovery.*`) | tickets in memory and in SQLite, legacy candidates | `Login`, `Issue`, `Report`, `Expire`, startup | no ended session returns; access is granted only by a join or by the reports of both sides; every restored session is settled |
| Signal server (`signal_server.*`, `bounded_executor.h`) | connections, counters, timers, worker queues | accept, open, message, close, cleanup, stop | limits hold, counters are exact, the acceptor survives, no lifecycle job is refused |
| Credential queue (`credential_queue.h`) | waiting requests per source, running slots | `Enqueue`, `Cancel`, `Complete`, `Pump` | accounts and limits exact, round robin, every request ends |
| Failure limiter (`device_auth_limiter.*`) | failure and reservation counts per source and per pair | `Verify`, `Clear`, `Admit` | parallel guesses never exceed the budget |
| Device database (`device_db_manager/*`) | devices, passwords, keys, presence, sessions, rules | transactions | compare-and-set of password records; retention spares what is in use |
| Presence (`presence_manager.*`) | online sets, watch associations | login, logout, query | a device is online exactly while it is logged in |
| Administration (`admin/*`) | admin sessions | listings, `HandleDisconnect`, data removal | never contradicts a session that is being recovered |
| Notifications (`notification/*`) | published documents, their revisions | publish, withdraw, send at login | |
| ICE/TURN (`ice_server_config_issuer.*`, `turn_credentials.*`) | configuration | issue credentials | pure computation |
| Resource monitor, log, `main` | | | input and output |

How they interact. The network thread owns `connections_`; it hands messages
and closed sessions to the application worker through a bounded queue with a
reserve for lifecycle jobs. The application worker calls the rooms, recovery,
presence and the database, submits credential work to the queue, and posts
answers back to the network thread. A hashing worker hands its result to the
application worker as another job. Rooms report every guest that enters or
leaves to the session table by a callback.

What is hard: a connection closes, and even its handle expires, long before
its cleanup job runs, while the same identity is already back on a new
connection; messages are deferred behind a credential request that may be
answered, expired or cancelled, in nested calls; deadlines are cleared by
callbacks posted before the next request sets its own; a restart may tear a
join in two; limits are checked when an accept starts and used when it ends.
`PROJECT.json` lists the hazards with their lines and the properties for them.

## 2. Modules

```
TransmissionRegistry      operators: the tables and member functions
  TransmissionManager     the rooms during one lifetime of the process
    SessionRecovery       the same with tickets, restarts and crashes
RoomAccess                abstract access rules, implemented by TransmissionManager
CredentialQueue           the queue of password and key checks
MessagePipeline           messages, deferral, hashing, deadlines, threads
CredentialService         abstract contract of those two, implemented by both
ConnectionAdmission       acceptor, limits, lifecycle reserve, Stop
DeviceAuthLimiter         budgets of failed checks, cooldowns, clears
DeviceCredentials         password records, login keys, reconnect tokens, change_password
IdentityStore             abstract store of identities, implemented by DeviceCredentials
DeviceRetention           presence, retention, removal, shutdown and restart
...Proofs                 theorems about the module they extend
MC...                     constants, symmetry and history variables for TLC
```

### TransmissionRegistry, TransmissionManager, RoomAccess

`reg` is a record with one field per map of `TransmissionManager` plus the
table `remote_control_sessions` (`ledger`). Absent entries are the sentinels
`NoUser` and `NoConn`. Each member function is an operator from the tables to
the tables; a handler composes them in one step, because all handlers run on
one worker. `phase` is the connection's way from accept to cleanup: the
network thread's `Close` and `Expire` are separate steps, so that everything
on the worker can happen between a close and its `Cleanup`. `Login`, `Join`,
`Leave`, `DisconnectPeer`, `AdminDisconnect` and `Prune` are the handlers; the
relay of offers, answers and candidates changes nothing and is the set
`Relay`. `Init` admits every session table a previous process can have left.

Whether a password or key is right is a nondeterministic choice: any attempt
may succeed at any moment, also long after it was made.
`ExpireInactiveSessions` is left out because the server builds its
`TransmissionManager` without that thread (`signal_server.cpp:171`).

A room is owned by the device of the same name. After the host's `leave`, or
after an administrator disconnected the room, the device stays logged in and
has no room until it logs in on a new connection; this is what the code does
and the model keeps it.

`RoomAccess` states the promise without the tables: who is logged in where,
and which connection may signal in which room. `TransmissionManager` implements
it (`AccessRules`), with access read off the grants.

### SessionRecovery

Extends the rooms with `tickets_`, `legacy_`, `capable_` and the table
`session_recovery` with its trigger. `Crash` replaces memory by what the
constructor rebuilds from the tables, at any point between two jobs and,
through `TornRows`, between two statements of a join or of the end of a room.
`late` is the recovery deadline. A report is `ReportAlive` or `ReportDead`;
messages that fail the checks of `Report` change nothing and are not steps.

### CredentialQueue

The queue as the application worker sees it. `Pump` is split where it calls
out: `PumpBegin` prunes, expiry callbacks may `Enqueue` while `scan = 1`, then
one step per hashing worker looks for the next ready source after
`lastSource`. `admit()` answers any delay of `Delay`. Sources are numbered in
the order of the map's keys. `Without(fifo, gone)` is the FIFO without some of
its places, which is what erasing in the middle of a deque does. The history
variable `passed` of the MC module is whom each ready source has let pass since
its last turn.

### MessagePipeline

The application worker is a call stack (`calls`), because the other threads
run between its calls and because the calls nest: draining a deferred message
may submit a request, which pumps the queue, whose expiry callbacks drain other
connections. `Pumping` is `pumping_`: a `prune` on the stack is a call of `Pump`
still to come, so that a message drained by a completion pumps in the middle of
that completion, while one drained by an expiry callback does not. `net` is the FIFO of callbacks posted to the network thread. The
credential queue is seen from outside (a waiting request may expire or be
started at any pump); its order and limits are in `CredentialQueue`. Shutdown
is not modelled here (`stopping_` is false).

### CredentialService

What the queue and the application worker promise each other, without order,
limits, sources, messages or deadlines: which connections have a request in the
queue, what each hashing worker runs, and whether a pump is expiring, starting
or not under way. The queue starts a request at most once and on a free worker,
and gives it up only when it is overdue or its connection closed. The caller has
one request per connection, reports each result once, cancels only for closed
connections and between pumps, and submits in the middle of a pump only for the
connections that this pump called back. Each side takes the other's half for
granted: `CredentialQueue` lets any caller within the contract call it, and in
`MessagePipeline` the queue does anything within it. `ServiceKept` of both modules
is the contract, under these mappings:

| `CredentialService` | `CredentialQueue` | `MessagePipeline` |
|---|---|---|
| `waiting` | `InQueue`, the ids in the FIFOs of all sources | `waiting` |
| `slot` | `Slots`, the ids of `running_` | `slot` |
| `pump` | `Phase`, from `scan` | `Phase`, whether a `pump` is on the stack |
| `expired` | `Callable`, the freed requests before the scan | `CalledBack`, the connections still to be called or being drained above the pump |

### ConnectionAdmission

The acceptor with its retry timer, the handshake and connection limits, the
cleanup jobs with their posted callback, and every kind of job that may fill
the application worker's queue. Whether descriptors suffice is the system's
choice, so `AcceptNext` may always retry. `Submits` guards the lifecycle jobs;
`ReserveSuffices` says that the guard never fails where the code would throw.

### DeviceAuthLimiter

`sources_` and `targets_` are one function `bucket` over both kinds of keys
with the set `entries` of those present. `Verify` is `Refuse`, or `Reserve` and
later `Finish`: between these two the mutex is free, and other checks, `Tick`
and `Clear` happen. A hash that throws is a failure that is then rethrown, so
that it is `Finish` with a false result. `seen` is the generation a check read
when it reserved. The constants cover both instances of the class: exponential
cooldowns for devices, fixed ones for the administrator. The history variable
`stale` of the MC module remembers the checks that were overtaken by a clear.

### DeviceCredentials

What proves an identity. `db` is the part of SQLite that matters: per device the
password record, the login key and the reconnect token, with the triggers that
revoke a token. Every password check is two jobs of the application worker with
a hash between them: the first reads the record (`LoginPassword`, `JoinRoom`,
`AnswerUnbound`, `ChangePassword`), the second (`FinishLogin`, `FinishJoin`,
`FinishChange`, `FinishRegister`) compares it again, commits and answers, and
between the two everything else may happen: another connection's login, change
or key binding, the removal of the device, a rule of the administrator, the
close of the connection. The second job of a login or registration writes before
it locks the connection's handle; `freed` is the case that the network thread has
freed it in between: what was committed, a first key included, stays without a
login or an answer. A record is a password with a salt and a format; a
login migrates a record of the old format, which the model keeps because the
migration is also a compare-and-set. A token is the record under which it was
issued. `Refuse` stands for every way to give up a request without a trace.
`outcome` holds what the last step decided, because a join and an answer to
`change_password` leave no other trace on the server. `Crash` may fall between
the two statements of a login that binds a key. The cache of
password-change results, which the code keeps in the order of insertion to trim
it, is a set of results with the relation `older`: `<<r, s>>` in it says that `r`
was added before `s`.

### IdentityStore

The same as one atomic store, with a password in place of a record and no work
under way: `password`, `key`, `tokens`, `blocked` sources, `applied` changes, who
is logged in on a connection and what the last step answered. Each login, join,
registration and change is one action whose guard is what the device demands at
that moment. A token may be lost in any step (a migration is a new record) and is
gained only with a password and without a key; `Change` applies a request that was
not applied before, `Repeat` and `Reject` answer for it; `Remove` takes a device
with everything it had, the results kept for it included, so that nothing of it
answers for a later device of that id. A first key is bound with the password and
without a login in two cases: `BindLost`, when the connection is freed before the
login completes, and `Restart`, which logs everyone out as well. `StoreKept` of `DeviceCredentials`
maps `Secrets` to `password`, `Tokens` to `tokens`, `cache.results` to `applied` and
`outcome` to `answer`; hashing, challenges, salts, formats and the order of the
cache have no counterpart.

### DeviceRetention

How long an identity is remembered. A timestamp is kept as an age in units of
the recovery window, which stops growing at `Horizon`; the runtime heartbeat is
far more frequent than the unit, so `last_seen_at` (`seen`) only ages while the
process is down. Presence (`LogIn`, `Release`), the retention job with both its
transactions, the removal of a temporary controller at its logout, the
administrator's previewed removal, session rows with the prune and the expiry of
recovery, the administrator's disconnect of a room (`AdminDisconnect`), `Stop`,
`CloseConnections` (what it posts to the network thread), `Exit` (a clean end or a
crash, which may tear a job: `Torn`, `TornEnds`) and `Start` are its actions. A job
is one step, placed where it looks at `stopping_`; an administrator's request looks
only at its own connection, so `admin` says whether `CloseConnections` is still
ahead. Rooms are reduced to the guest's connection of each session, or how it was
restored. Database statements succeed
except where the code has a rollback: the start of a session and the second
transaction of the retention job. `idle` is a history variable, the time since a
device was used, counted over restarts and independent of the timestamps the
code keeps; `checkpoint` remembers the sessions of open guests at `Stop`.

## 3. Runs

Bounds are in the `.cfg` files. `CHECK_DEADLOCK FALSE` stands where the
environment may stop: all connections used up and closed, all messages sent, or
the clock at its bound. The runs of `DeviceCredentials` and `DeviceRetention`
never stop and check for deadlock.

| Run | Instance | Shows |
|---|---|---|
| `transmission_safety` | 2 devices, a controller identity, 3 connections, any restored table; 160 thousand states | tables agree, signals confined and answerable, no room abandoned, cleanup touches only its own connection, refinement of `RoomAccess` |
| `recovery_safety` | device and controller, 3 connections per process, 2 tickets, 1 crash; 374 thousand states | rooms, rows, tickets and tokens are one account, no resurrection, grants proved by both sides |
| `recovery_liveness` | 2 connections, 2 tickets, 2 crashes; 88 thousand states | every restored session is settled |
| `queue_safety` | 4 requests, 3 sources, 2 workers, 3 places, 2 per source; 738 thousand states | accounts, limits, round robin, refinement of `CredentialService` |
| `queue_liveness` | 3 requests, 2 sources, 1 worker; 42 thousand states | every request ends |
| `pipeline_safety` | 2 connections with 3 and 1 messages, 1 hashing worker, 1 deferred place; 2.7 million states | exact counters, order, deadline, idle worker, nothing retained, refinement of `CredentialService` |
| `pipeline_liveness` | the same with 2 and 1 messages, worker queue of one; 392 thousand states | every message ends |
| `admission_safety` | 5 connections for 3 places, 2 handshakes, 1 ordinary job; 11 thousand states | reserve, limits, counters, acceptor |
| `limiter_safety` | 3 threads of one controller against 3 devices for 2 entries, exponential policy, clears; 159 thousand states | reservations, budgets, cooldowns, escalation, clears |
| `device_credentials` | a device, 2 connections of one source, 2 keys, 2 passwords, 1 request id; 969 thousand states | access proved, tokens current, credentials owned, retries agree, refinement of `IdentityStore` |
| `device_retention` | a device, its controller, a temporary controller in its room, 2 connections; 543 thousand states | presence exact, retention spares what is used, shutdown keeps the rows |
| `shutdown_checkpoint` | the same without the controller | violation, see below |

Why the bounds are enough. Three connections allow an old and a new connection
of one identity next to its peer, which is what every table entry relates; a
second device brings a room that is not involved. Temporary controllers are not
in the instance of the rooms, where they only differ in never hosting and in
being used once; the proofs cover them, and `device_retention` has one. Two
tickets give a stale one and its successor; `ProvedKey` is `{nobody}` in the
recovery runs because recovery does not read the key a login proved. One crash
separates the two lives of a session; the liveness run has a second crash during
the recovery of the first. Two sources of which one is served, and a third, make
overtaking visible. Three messages of one connection let a request be answered,
the next be submitted before the posted reset runs, and one more be deferred or
refused above the limit, while the other connection competes for the places.
Five names for three places let connections be reused and refused. Three threads
against budgets of three and two let parallel checks overrun either budget if one
were counted wrongly; three devices for two entries fill the table; five ticks
pass a window, two cooldowns of different length and a recovery time.

For credentials, two connections are the two parties of every race around a
hash; two keys and two passwords make a replacement visible; both connections
share a source, so that one rule blocks or releases both. The salts are more
than can be in use at once, so that `HasSalt` never fails. With one request id
the cache never evicts a result. For retention, `Retention = 1`, `Window = 0`
and `Horizon = 2` tell apart within the window, beyond it, and beyond the
retention time; the batch of one makes a second job necessary; `Subject` bounds
whom the administrator asks about to the temporary controller, `Session` the
sessions to the one between it and the device. Connections, requests, threads,
keys, passwords and targets are symmetric where no fairness is involved;
liveness runs use no symmetry.

Fairness. The application worker's steps: `BoundedExecutor::Run` executes every
queued job. `PumpTimer` and `ExpireTickets`: timers that reschedule themselves.
`Deadline` and `Tick`: time passes; `Tick` needs strong fairness in the model
because it is only enabled between pumps. `Complete`: a hash ends; strong because
a pump may be running whenever it does.
The strong fairness of a pump that expires something stands for
the deadline of a request, which the model abstracts to "some pump". Nothing
is assumed about clients.

That no room is abandoned is stated without fairness: `NoAbandonedRoom` says that
the job which ends such a room is still ahead, and the worker runs every job.

### What the checks found

`shutdown_checkpoint` expects a violation. The comment at `signal_server.cpp:533`
calls the session table the checkpoint of a shutdown, and the cleanup jobs of
closed connections therefore do nothing once `stopping_` is set. The timer of
`ScheduleRecoveredSessionCleanup` also looks at `stopping_`, but the job it has
already submitted does not: running after the shutdown has closed and freed a
guest's connection, it releases that guest and deletes its row, and the session
is not recovered by the next process. It needs a shutdown between the timer, once
per process, and its job. `ShutdownKeepsSessions` states what holds: after `Stop` a
row goes only by this prune, by the expiry of its recovery, by an administrator
who disconnects its room before the connections are closed, or when the restart is
too late. An administrator's disconnect does not contradict the comment: it ends
the session on purpose.

### Mutants

Each property has at least one mutant in `PROJECT.json`: a definition of the
model with a plausible mistake (a counter not decremented, a reset without
comparison, one side's report taken for both, a cleanup skipped for an expired
handle) for which TLC reports that property violated. They are the definitions
commented `Mutant` and appear in no specification.

## 4. Proofs

All theorems hold for arbitrary constants under the named assumptions, without
the bounds of section 3.

`TransmissionManagerProofs`, from `IdentityAssumption`: the kinds of identities
are disjoint, the sentinels are no identities or connections, and every
controller identity has an owner. Its first half are lemmas about the operators
of `TransmissionRegistry`, which the recovery proofs use as well. The inductive
invariant is

    IInv == TypeOK /\ ClosedForgotten /\ TablesInv(reg) /\ LedgerCurrent(reg)

`TablesInv` collects the agreement of routes, grants, rooms and keys. No part
is inductive alone: that a cleanup leaves no grant behind needs that grants
belong to connections logged in as that guest; that the table loses exactly
the right rows needs that rooms carry the name of their host. From `IInv`
follow `TypeCorrect`, `Forgotten`, `Agreement` (`TablesAgree`), `Confinement`
(`SignalsStayInRoom`), `Answerable` (`SignalsAnswerable`), `CleanupLocal`
(`CleanupTouchesOnlyItself`), `Settlement` (`RestoredSettled`, with its own step
lemma on top of `IInv`), `RoomsEnd` (`NoAbandonedRoom`, from both) and
`Refinement` (the specification implies `AccessRules`: the initial state maps to
an initial state and each action to a step of `RoomAccess` or to a stutter).

`SessionRecoveryProofs`, from the same assumption:

    RecInv == RecoveryTypeOK /\ TablesInv(reg) /\ \A t, g : OneAccount(t, g)

where `OneAccount` relates tickets and tokens to rooms and rows. Two facts carry
it. While a session is being recovered its guest is not in the room, so the steps
that end the sessions of a room's guests spare its ticket; and a
row names a room that a restart gives a host, so what the constructor rebuilds,
also from a torn job, is an account of the same sessions again. `RecoveryAgrees`
(`RecoveryConsistent`), `NeverResurrected`, `GrantsAreProved` and, for rooms that
can be resumed, `RecoveredConfinement` follow.

`ConnectionAdmissionProofs`, from `AdmissionAssumption` (limits positive, the
working connection limit at most the configured one that sizes the reserve):

    IInv == TypeOK /\ CleanupsCounted /\ OwnersBounded /\ HandshakesBounded
              /\ AcceptorLives /\ FarewellLast

`OwnersBounded` counts the accept under way, which is what makes a limit
checked before the accept hold after it; `CleanupsCounted` ties the counter
that `AcceptNext` reads to the jobs themselves; `FarewellLast` says that the
shutdown job is queued at most once, after `Stop`. Together they bound the
jobs, so that `ReserveNeverExhausted` follows by counting. `LimitsKept` states
`ConnectionsBounded`: both limits, an accept under way included.
`CleanupCountExact` and `AcceptLoopLives` are two of the parts themselves.

`DeviceAuthLimiterProofs`, from `LimiterAssumption` (finitely many threads,
positive limits and times, the first backoff at most the longest):

    IInv == TypeOK /\ ReservationsExact /\ \A k \in Key : BucketInv(bucket[k], k)

`BucketInv` joins the budget with the cooldown of one bucket, because neither
is inductive alone: a cooldown starts with nobody checking only because the
budget had one place left, and the budget survives it only because a blocked
key is not reserved; that a cooldown outlives prunes needs that it never ends
after the bucket expires. Each transformation of a bucket (reset, reserve,
release, record, clear) keeps `BucketInv` by a lemma of its own; the counting
of reservations is over the set of attempts that hold a key. It follows that
`TypeOK`, `ReservationsExact`, `BudgetKept`, `CooldownQuiet` always hold, and
with the same invariant that every step satisfies `CooldownKept`.
`EscalationStable` (`EscalationKept`) needs `EscInv` besides: a bucket with an
escalation is full and expires exactly at the end of its recovery time, so that
neither the window nor a prune can forget it earlier; `Remembers` is the relation that
each transformation keeps and that composes. `ClearsHold` (`ClearedForgotten`)
needs `StaleInv`: no check has read a later generation than its bucket's, and
one overtaken by a clear an earlier one. Both policies are covered: with
`Exponential` false the constants are those of the administrator's limiter,
which no run instantiates.

`DeviceCredentialsProofs`, from the assumption on the constants of that module:

    CredInv == RequestsTypeOK /\ Sound(db) /\ OnePerRequest(cache) /\ AnswerOK

`Sound(db)` is a predicate of the database alone (a token belongs to the record
in force and to a device without key), so that each transaction, and each of the
two statements a crash may separate, keeps it by one lemma. `AnswerOK` speaks of
the answer just given; it is in the invariant because a retry is answered from
the cache, where `OnePerRequest` makes the result found the result applied.
`TokensStayCurrent`, `AccessAlwaysProved`, `AnswersAgree` and `OwnersDecide`
follow; the last two are what the compare-and-set of a password record and the
uniqueness of a cached request are for.

`StoreServes` (`StoreKept`) maps the two jobs of every request to one step of
`IdentityStore`: the first to `Quiet` (or the answer from the cache to a retry), the
second to the login, join, registration or change itself. It needs `KeysInv` beside `CredInv`: a password login was begun
without a key, a binding and a challenge of a device with one. `PassesSeen` is the
heart of it. After the compare-and-set the password read before the hash is the
one in force, and what the two statements write shows in the store as a lost token
and a first key at most, which is also all that is left when the connection is freed
before `CompleteLogin` (`BindLost`) or the process dies between them.
`HashFresh` is why a change to the same password ends the token as well: the new
record has a salt no stored record has.

`DeviceRetentionProofs`:

    RetInv == RetentionTypeOK /\ OnlineExact /\ BoundWhileOpen /\ RoomsHeld
                /\ AgesTold /\ SeenKept

`AgesTold` and `SeenKept` compare the ages the code keeps with the history
variable `idle`, which is what a device's removal by age has to be measured
against; `BoundWhileOpen` and `RoomsHeld` tie presence and session guests to open
connections. `PresenceExact`, `RetentionSafe` and `ShutdownSafe` follow; the last
has a case for each job that does not look at `stopping_`, and for the part of one
that a crash leaves (`TornEnds`).

`MessagePipelineProofs`:

    PipeInv  == TypeOK /\ CountsExact /\ OneRequest /\ (\A w : WorkerHolds(w))
                  /\ DeadlinesOrdered /\ NothingRetained
    OrderInv == PipeInv /\ (\A c : LineKept(c) /\ DrainDue(c)) /\ CleanupOfClosed

`OneRequest` and `WorkerHolds` say where a request is: waiting, in an expiring
pump, or in the inbox, the thread or the completion of one worker, and never in
two of these; a counter is then the cardinality of a set of places, which each
step changes by one. `DeadlinesOrdered` is about the callbacks still posted to
the network thread: each that resets a connection's deadline names a deadline no
later than the present one, an earlier one while a request is pending, and they
are in increasing order; a successful hashed login has a reset behind it. `OrderInv` is about the line of a connection, its
deferred messages followed by the queued ones: increasing, without gaps unless
the connection is shed, and with nothing deferred except behind a request or a
drain that is due. `CountersExact`, `DeadlinesCover`, `WorkersReady`,
`NothingKept` and `OrderKept` (`InOrder`) follow.

`PipelineServes` (`ServiceKept`) is the caller's half of `CredentialService`. The
part of `OneRequest` it rests on is `OnePump`: on the call stack a pump under way
is above every pump still to be called, so that it is the only one, and a prune
on top of the stack finds none below it. A drain that submits while a pump is
under way is above it, hence of a connection in `CalledBack`
(`DrainCalledBack`); an expiry callback moves its connection from the pump's list
to a drain above the pump, which `CalledBack` does not tell apart
(`ServiceExpires`); a return takes at most the callback away (`ServiceReturns`).
`WorkerHolds` says that the slot a completion frees is taken, and
`CleanupOfClosed` that a cancelled connection is closed.

`CredentialQueueProofs`, from `QueueAssumption`:

    QueueInv == TypeOK /\ AccountsAgree /\ LimitsHold /\ IsFiniteSet(ids)
    RoundInv == \A r : \A s \in passed[r] : r \in Ready /\ Turn(r) < Turn(s)

The three ways a request leaves a FIFO (`Cancel`, the prune, the start) are one
lemma about places: `Thinned` says that there is an injection from the places of
the new FIFO to the kept places of the old one, and `ThinnedIds` that then
exactly the requests at the other places are gone, and still nothing is queued
twice. `QueueTypes` and `AccountsExact` (`QueueSound`) follow. For `FairTurns`
(`RoundRobin`), a source that waits comes before everyone it let pass: serving
`s` moves it to the end of the cyclic order and those after it up by the same
amount (`TurnsMove`), and whoever could have been taken before `s` was told to
wait (`ServedBefore`).

`QueueServes` (`ServiceKept`) is the queue's half of `CredentialService`. The
FIFOs disappear in one lemma: because accounts are exact, what waits is what is
listed and does not run (`InQueueIs`), so that each action is read off what it
does to `ids_` and `running_`. A start moves one request from the former to the
latter, a prune takes away the overdue ones and those of closed connections.

Only model-checked: the liveness properties `RecoveryEnds`, `EveryRequestEnds`
and `EveryMessageEnds`. They need fairness and `ENABLED`, about which this prover
has no rules. Induction over data is out of its reach as well; the operators the
proofs are about are therefore written without recursion, over places and
cardinalities (`Without` for an erasure in the middle of a deque), and the
theorems of the library about sequences and finite sets do the rest.

## 5. Not modelled

- Presence watches and the notifications sent along them, daily controller
  activity, the legacy table `user_devices`, audit rows and log cleanup: no
  modelled state depends on them.
- Admin sessions, CSRF tokens, reauthentication, the listings and their cache.
- Notifications: drafts with optimistic revisions, published pages and their
  catalog revision, broadcast.
- `CredentialWorkLimiter`: its answer to `admit()` is an arbitrary delay.
- HTTP, TLS reload, diagnostics, schema migrations, `client_info`.
- ICE/TURN credentials, logging and resource sampling: computation and
  input/output without shared state.

Where the modelled parts meet these they are an arbitrary choice: an admission
may be delayed, descriptors may be short. In the room, recovery and pipeline
models whether a credential verifies is an arbitrary choice too; what may verify
is the subject of `DeviceCredentials`. Shutdown is modelled for admission and for
the database, not for the message pipeline.

## 6. Plan

Done: rooms, recovery, credential queue, message pipeline, admission, failure
limiter, credentials, presence, retention, device data removal, risk rules,
shutdown against the session table; for each of these modules its types, and every
safety and action property the runs check, as theorems.

`CredentialService` joins the queue and the pipeline as theorems of both, and
`DeviceCredentials` implements `IdentityStore`. What is left:

1. Notifications: an administrator's edit never overwrites a newer revision, and
   pages read under one catalog revision are one published list.
2. `CredentialWorkLimiter`, the one-minute windows of `Admit`.
3. What admission and retention promise as abstract specifications, as `RoomAccess`
   is for the rooms, `CredentialService` for the queue and `IdentityStore` for the
   credentials.
