--------------------------- MODULE DeviceRetention ---------------------------
(***************************************************************************)
(* How long the server remembers an identity: presence, the retention of   *)
(* offline devices, temporary controllers, the administrator's removal of  *)
(* device data, and what of all this a shutdown or a crash leaves.         *)
(*                                                                         *)
(* Every step but Close, Expire, PruneTimer, Stop and CloseConnections is  *)
(* one job of the application worker, placed where the job looks at        *)
(* stopping_ or at its connection.  The network thread closes a connection *)
(* and may free it before its cleanup job runs.                            *)
(*                                                                         *)
(* Time advances in units of the recovery window.  A row's timestamp is    *)
(* kept as its age, which stops growing at Horizon.  The runtime heartbeat *)
(* is far more frequent than the unit, so last_seen_at only ages while the *)
(* process is down.  Statements succeed, except where the code has a       *)
(* rollback: the start of a session and the retention job.                 *)
(***************************************************************************)
EXTENDS Naturals, FiniteSets

CONSTANTS
    Device,     \* native device ids
    Clone,      \* "C-" identities
    Owner,      \* the device of a clone
    Temporary,  \* "web-" and "cli-" identities
    Conn,
    Subject,    \* bound on the accounts an administrator asks about
    Session,    \* bound on the sessions that may exist, as <<host, guest>>
    Retention,  \* CROSSDESK_OFFLINE_RETENTION_DAYS
    Window,     \* kRemoteControlRecoveryWindowSeconds
    Horizon,    \* ages beyond this are not told apart
    Batch,      \* devices removed per retention job, 200 in the code
    NoUser, NoConn,
    Missing,    \* no row
    Online,     \* the row of an online identity
    Routed,     \* a restored session that has re-entered its room
    Ticketed    \* a restored session waiting for both clients to report

VARIABLES
    up, stopping,
    admin,      \* the administrators' connections are not closed by a shutdown yet
    phase,      \* of a connection: open, closing, expired (freed), gone
    bound,      \* ws_hdl_user_id_list_
    route,      \* user_id_ws_hdl_list_
    room,       \* the guest's connection in a session, or how it was restored
    online,     \* online_devices_, online_web_clients_, online_cli_clients_
    db,         \* devices, device_presence, remote_control_sessions, server_runtime
    prune,      \* the cleanup of restored rooms: armed, queued, done
    preview,    \* the revision an administrator was shown
    idle,       \* history variable: time since a device was in use or renewed
    checkpoint  \* history variable: sessions of open guests when the shutdown
                \* began, without those an administrator ended after that

vars == <<up, stopping, admin, phase, bound, route, room, online, db, prune, preview, idle,
          checkpoint>>
memory == <<phase, bound, route, room, online>>
process == <<up, stopping, admin, checkpoint>>

Account  == Device \cup Temporary
Identity == Account \cup Clone
Age      == 0..Horizon

ASSUME RetentionAssumption ==
    /\ Device \cap Clone = {} /\ Temporary \cap (Device \cup Clone) = {}
    /\ Owner \in [Clone -> Device]
    /\ Subject \subseteq Account
    /\ Session \subseteq (Device \cup Clone) \X Identity
    /\ \A s \in Session : s[1] # s[2]
    /\ Retention \in Nat /\ Window \in Nat /\ Horizon \in Nat /\ Batch \in Nat \ {0}
    /\ Horizon > Retention /\ Horizon > Window
    /\ NoUser \notin Identity
    /\ {NoConn, Routed, Ticketed} \cap Conn = {}
    /\ NoConn # Routed /\ NoConn # Ticketed /\ Routed # Ticketed
    /\ {Missing, Online} \cap Age = {} /\ Missing # Online

Base(u)     == IF u \in Clone THEN Owner[u] ELSE u
Family(d)   == {u \in Identity : Base(u) = d}
Names(s, d) == d \in {Base(s[1]), Base(s[2])}
Live        == {c \in Conn : phase[c] \in {"open", "closing"}}
Holders(u)  == {c \in Conn : bound[c] = u}
InRoom(s)   == room[s] \in Conn \cup {Routed}
Older(age)  == IF age \in 0..(Horizon - 1) THEN age + 1 ELSE age

NoPreview == [device |-> NoUser]

-----------------------------------------------------------------------------
(* The database. *)

(* SetDeviceOnline; an offline row is dated now. *)
SetOnline(s, u)  == [s EXCEPT !.presence[u] = Online]
SetOffline(s, u) == [s EXCEPT !.presence[u] = 0]

(* INSERT ... ON CONFLICT DO NOTHING of an offline row. *)
EnsurePresence(s, users) ==
    [s EXCEPT !.presence = [u \in Identity |->
        IF u \in users /\ @[u] = Missing THEN 0 ELSE @[u]]]

AddSession(s, w) ==
    [EnsurePresence(s, {Base(w[1]), Base(w[2])}) EXCEPT !.sessions = @ \cup {w}]

EndSessions(s, gone) == [s EXCEPT !.sessions = @ \ gone]

(* Presence and credentials of the devices and of their clones. *)
Remove(s, devices) ==
    [s EXCEPT !.presence = [u \in Identity |-> IF Base(u) \in devices THEN Missing ELSE @[u]],
              !.account  = [u \in Account |-> IF u \in devices THEN Missing ELSE @[u]]]

(* Mutant: the session table is not consulted. *)
InUseOnline(s, d) == \E u \in Family(d) : s.presence[u] = Online

(* Neither the identity nor its clone may be online, nor named by a session. *)
InUse(s, d) ==
    \/ \E u \in Family(d) : s.presence[u] = Online
    \/ \E w \in s.sessions : Names(w, d)

-----------------------------------------------------------------------------
Init ==
    /\ up = TRUE /\ stopping = FALSE /\ admin = TRUE
    /\ phase = [c \in Conn |-> "gone"]
    /\ bound = [c \in Conn |-> NoUser]
    /\ route = [u \in Identity |-> NoConn]
    /\ room = [s \in Session |-> NoConn]
    /\ online = {}
    /\ db = [account  |-> [u \in Account |-> Missing],
             presence |-> [u \in Identity |-> Missing],
             sessions |-> {},
             seen     |-> 0]
    /\ prune = "armed"
    /\ preview = NoPreview
    /\ idle = [d \in Device |-> 0]
    /\ checkpoint = {}

-----------------------------------------------------------------------------
(* The network thread. *)

SetPhase(c, from, to) ==
    /\ up
    /\ phase[c] = from
    /\ phase' = [phase EXCEPT ![c] = to]
    /\ UNCHANGED <<process, bound, route, room, online, db, prune, preview, idle>>

Close(c)  == SetPhase(c, "open", "closing")
Expire(c) == SetPhase(c, "closing", "expired")

-----------------------------------------------------------------------------
(* Logins. *)

(* A message is handled while the process serves and its connection was alive. *)
Serving(c) == up /\ ~stopping /\ c \in Live

(* A connection matters here from its login on. *)
LoggedOut(c) == up /\ ~stopping /\ phase[c] = "gone"

Renewed(devices) == idle' = [d \in Device |-> IF d \in devices THEN 0 ELSE idle[d]]

(* CompleteLogin, then PresenceManager::OnLogin.  The first of several clone *)
(* connections keeps the route; any other login takes it.                    *)
LogIn(s, c, u) ==
    /\ phase' = [phase EXCEPT ![c] = "open"]
    /\ bound' = [bound EXCEPT ![c] = u]
    /\ route' = [route EXCEPT ![u] = IF u \in Clone /\ @ # NoConn THEN @ ELSE c]
    /\ online' = online \cup ({u} \ Clone)
    /\ db' = SetOnline(EnsurePresence(s, {u} \cap Device), u)
    /\ Renewed({Base(u)})
    /\ UNCHANGED <<process, room, prune, preview>>

NewAccount(u) == [db EXCEPT !.account[u] = 0]

(* A connection freed before CompleteLogin leaves a row that nobody knows. *)
Register(c, u, freed) ==
    /\ LoggedOut(c)
    /\ db.account[u] = Missing
    /\ IF freed
       THEN db' = NewAccount(u) /\ UNCHANGED <<process, memory, prune, preview, idle>>
       ELSE LogIn(NewAccount(u), c, u)

(* A clone needs no account. *)
Login(c, u) ==
    /\ LoggedOut(c)
    /\ u \in Account => db.account[u] # Missing
    /\ LogIn(db, c, u)

-----------------------------------------------------------------------------
(* Sessions. *)

(* A join, a rejoin or a resumed session.  The guest is granted the room     *)
(* first; written is whether its row then could be.                          *)
SessionStart(c, s, written) ==
    /\ Serving(c) /\ bound[c] = s[2]
    /\ Holders(s[1]) \cap Live # {}
    /\ room' = [room EXCEPT ![s] = c]
    /\ db' = IF written THEN AddSession(db, s) ELSE db
    /\ UNCHANGED <<process, phase, bound, route, online, prune, preview, idle>>

(* Left, disconnected by the host, or reported dead. *)
SessionEnd(s) ==
    /\ up /\ ~stopping
    /\ room[s] # NoConn
    /\ room' = [room EXCEPT ![s] = NoConn]
    /\ db' = EndSessions(db, {s})
    /\ UNCHANGED <<process, phase, bound, route, online, prune, preview, idle>>

RoomOf(h) == {s \in Session : s[1] = h}

(* A session restored to its room is confirmed once both its clients are back. *)
Recovering(s) ==
    \/ room[s] = Ticketed
    \/ room[s] = Routed /\ \E u \in {s[1], s[2]} : Holders(u) = {}

(* An administrator's request only needs its own connection: stopping_ is    *)
(* not looked at.  It is refused while a session of the room is recovering.  *)
MayDisconnect(h) ==
    /\ up /\ admin
    /\ \A s \in RoomOf(h) \cap db.sessions : ~Recovering(s)

(* The administrator ends a room with all its rows. *)
AdminDisconnect(h) ==
    /\ MayDisconnect(h)
    /\ room' = [s \in Session |-> IF s \in RoomOf(h) THEN NoConn ELSE room[s]]
    /\ db' = EndSessions(db, RoomOf(h))
    /\ checkpoint' = checkpoint \ RoomOf(h)
    /\ UNCHANGED <<up, stopping, admin, phase, bound, route, online, prune, preview, idle>>

(* SessionRecovery::Expire, in the job of the runtime heartbeat. *)
RecoveryExpires(s) ==
    /\ up
    /\ room[s] \in {Routed, Ticketed}
    /\ room' = [room EXCEPT ![s] = NoConn]
    /\ db' = EndSessions(db, {s})
    /\ UNCHANGED <<process, phase, bound, route, online, prune, preview, idle>>

PruneTimer ==
    /\ up /\ ~stopping
    /\ prune = "armed"
    /\ prune' = "queued"
    /\ UNCHANGED <<process, memory, db, preview, idle>>

(* PruneDisconnectedTransmissions: rooms without their host, and guests whose *)
(* connection is freed or logged out.                                         *)
Disconnected(s) ==
    /\ InRoom(s)
    /\ \/ Holders(s[1]) = {}
       \/ room[s] = Routed /\ Holders(s[2]) = {}
       \/ room[s] \in Conn /\ (room[s] \notin Live \/ bound[room[s]] # s[2])

PruneJob ==
    LET gone == {s \in Session : Disconnected(s)} IN
    /\ up
    /\ prune = "queued"
    /\ prune' = "done"
    /\ room' = [s \in Session |-> IF s \in gone THEN NoConn ELSE room[s]]
    /\ db' = EndSessions(db, gone)
    /\ UNCHANGED <<process, phase, bound, route, online, preview, idle>>

-----------------------------------------------------------------------------
(* The cleanup job of a closed connection. *)

(* CleanupTemporaryControllers for one identity. *)
RemoveTemporary(s, u) ==
    IF u \in Temporary /\ ~InUse(s, u) THEN Remove(s, {u}) ELSE s

(* ReleaseUserSession: what a connection was granted, and with the last      *)
(* connection of an identity everything it hosts or joined.                  *)
Released(c) ==
    LET u == bound[c]
        last == Holders(u) = {c}
    IN  {s \in Session :
            \/ room[s] = c /\ s[2] = u
            \/ last /\ InRoom(s) /\ u \in {s[1], s[2]}}

(* Release of an old handle logs nobody out who has a newer one. *)
Release(c) ==
    LET u    == bound[c]
        last == Holders(u) = {c}
        left == EndSessions(db, Released(c))
    IN
    /\ bound' = [bound EXCEPT ![c] = NoUser]
    /\ room' = [s \in Session |-> IF s \in Released(c) THEN NoConn ELSE room[s]]
    /\ IF last
       THEN /\ route' = [route EXCEPT ![u] = NoConn]
            /\ online' = online \ {u}
            /\ db' = RemoveTemporary(SetOffline(left, u), u)
       ELSE /\ \E o \in Holders(u) \ {c} :
                  route' = [route EXCEPT ![u] = IF @ = c THEN o ELSE @]
            /\ db' = left
            /\ UNCHANGED online

(* Mutant: every released handle is a logout. *)
CleanupAlways(c) ==
    /\ up /\ ~stopping
    /\ phase[c] \in {"closing", "expired"}
    /\ phase' = [phase EXCEPT ![c] = "gone"]
    /\ bound' = [bound EXCEPT ![c] = NoUser]
    /\ db' = SetOffline(db, bound[c])
    /\ UNCHANGED <<process, route, room, online, prune, preview, idle>>

(* Mutant: the connections closed by a shutdown are released like any other. *)
CleanupStopping(c) ==
    /\ up
    /\ phase[c] \in {"closing", "expired"}
    /\ phase' = [phase EXCEPT ![c] = "gone"]
    /\ Release(c)
    /\ UNCHANGED <<process, prune, preview, idle>>

(* In a shutdown the job does nothing: the session table is the checkpoint. *)
Cleanup(c) ==
    /\ up /\ ~stopping
    /\ phase[c] \in {"closing", "expired"}
    /\ phase' = [phase EXCEPT ![c] = "gone"]
    /\ Release(c)
    /\ UNCHANGED <<process, prune, preview, idle>>

-----------------------------------------------------------------------------
(* The retention job. *)

(* Offline temporary rows, and registrations that never logged in. *)
TemporaryCandidates(s) ==
    {u \in Temporary :
        /\ s.presence[u] # Missing \/ s.account[u] # Missing
        /\ ~InUse(s, u)}

Aged(age) == age \in Age /\ age > Retention

(* Mutant: each row is judged alone, not with the identity's other row. *)
ExpiredAlone(s, d) ==
    /\ \/ \E u \in Family(d) : Aged(s.presence[u])
       \/ s.presence[d] = Missing /\ Aged(s.account[d])
    /\ ~InUse(s, d)

(* Every row of the family that tells its age is beyond the cutoff.  An      *)
(* account without presence is as old as retention_started_at.               *)
Expired(s, d) ==
    /\ \/ \E u \in Family(d) : Aged(s.presence[u])
       \/ s.presence[d] = Missing /\ Aged(s.account[d])
    /\ \A u \in Family(d) : s.presence[u] # Missing => Aged(s.presence[u])
    /\ s.presence[d] = Missing /\ s.account[d] # Missing => Aged(s.account[d])
    /\ ~InUse(s, d)

(* ORDER BY MIN(expired_at), as an age. *)
ExpiredAge(s, d) ==
    LET ages == {s.presence[u] : u \in Family(d)}
                  \cup (IF s.presence[d] = Missing THEN {s.account[d]} ELSE {})
    IN  CHOOSE a \in ages \cap Age : \A b \in ages \cap Age : a >= b

IsBatch(chosen, all) ==
    /\ chosen \subseteq all
    /\ Cardinality(chosen) = Batch \/ (chosen = all /\ Cardinality(all) < Batch)

(* Two transactions: the second may roll back and is retried by the next job. *)
RetentionJob(temporary, devices) ==
    LET first == Remove(db, temporary)
        all   == {d \in Account : Expired(first, d)}
    IN
    /\ up
    /\ IsBatch(temporary, TemporaryCandidates(db))
    /\ \/ devices = {}
       \/ /\ IsBatch(devices, all)
          /\ \A d \in devices, o \in all \ devices : ExpiredAge(first, d) >= ExpiredAge(first, o)
    /\ db' = Remove(first, devices)
    /\ UNCHANGED <<process, phase, bound, route, room, online, prune, preview, idle>>

-----------------------------------------------------------------------------
(* The administrator removes a device's data, as it was shown. *)

(* The rows of a device that a removal is confirmed against. *)
Revision(d) ==
    [device   |-> d,
     account  |-> db.account[d] # Missing,
     presence |-> [u \in Family(d) |-> db.presence[u]]]

Known(d) == db.account[d] # Missing \/ \E u \in Family(d) : db.presence[u] # Missing

(* Only a revision under which the removal is allowed is worth keeping. *)
AdminQuery(d) ==
    /\ up /\ admin
    /\ Known(d) /\ ~InUse(db, d)
    /\ preview' = Revision(d)
    /\ UNCHANGED <<process, memory, db, prune, idle>>

(* HandleDeviceData, then AdminDeviceData. *)
AdminAllowed(d) ==
    /\ \A u \in Family(d) : route[u] \notin Live
    /\ Known(d) /\ ~InUse(db, d)
    /\ preview = Revision(d)

(* The history alone, or the identity with it. *)
AdminCleanup(d, scope) ==
    /\ up /\ admin
    /\ AdminAllowed(d)
    /\ db' = IF scope = "identity" THEN Remove(db, {d})
             ELSE [Remove(db, {d}) EXCEPT
                     !.account[d] = IF db.account[d] = Missing THEN Missing ELSE 0]
    /\ IF scope = "history" THEN Renewed({d}) ELSE UNCHANGED idle
    /\ UNCHANGED <<process, phase, bound, route, room, online, prune, preview>>

-----------------------------------------------------------------------------
(* Time, and the life of the process. *)

(* RecordRuntimeHeartbeat keeps last_seen_at current while the process is up. *)
(* retention_started_at is only read of an account without presence, and what *)
(* removes the presence of a kept account sets it: it need not age before.    *)
Tick ==
    /\ db' = [db EXCEPT !.account  = [u \in Account |->
                            IF db.presence[u] = Missing THEN Older(@[u]) ELSE @[u]],
                        !.presence = [u \in Identity |-> Older(@[u])],
                        !.seen     = IF up THEN 0 ELSE Older(@)]
    /\ preview' = IF preview = NoPreview THEN NoPreview
                  ELSE [preview EXCEPT !.presence = [u \in DOMAIN @ |-> Older(@[u])]]
    /\ idle' = [d \in Device |->
          IF up /\ \E c \in Conn : bound[c] \in Family(d) THEN 0 ELSE Older(idle[d])]
    /\ UNCHANGED <<process, memory, prune>>

Stop ==
    /\ up /\ ~stopping
    /\ stopping' = TRUE
    /\ checkpoint' = {s \in db.sessions : room[s] \in Conn /\ phase[room[s]] = "open"}
    /\ UNCHANGED <<up, admin, memory, db, prune, preview, idle>>

(* Stop posts to the network thread what closes every connection. *)
CloseConnections ==
    /\ up /\ stopping /\ admin
    /\ admin' = FALSE
    /\ phase' = [c \in Conn |-> IF phase[c] = "open" THEN "closing" ELSE phase[c]]
    /\ UNCHANGED <<up, stopping, checkpoint, bound, route, room, online, db, prune,
                   preview, idle>>

(* Rows of sessions are deleted one by one. *)
PartlyEnded(gone) == {EndSessions(db, some) : some \in SUBSET gone}

(* What a crash may leave of the jobs that a shutdown does not stop. *)
TornEnds ==
    (IF prune = "queued" THEN PartlyEnded({s \in Session : Disconnected(s)}) ELSE {})
    \cup UNION {PartlyEnded(RoomOf(h)) : h \in {u \in Device \cup Clone : MayDisconnect(u)}}

(* And of the others: some of its sessions ended, a logout without the       *)
(* removal of a temporary identity, an account without presence.             *)
Torn ==
    (UNION {LET left == EndSessions(db, Released(c)) IN
            PartlyEnded(Released(c))
              \cup (IF Holders(bound[c]) = {c} THEN {SetOffline(left, bound[c])} ELSE {})
            : c \in {o \in Conn : phase[o] \in {"closing", "expired"}}})
    \cup {EnsurePresence(NewAccount(u), some) :
            u \in {v \in Device : db.account[v] = Missing}, some \in SUBSET Device}

(* The process exits after Stop, or dies; memory is lost. *)
Exit ==
    /\ up
    /\ up' = FALSE /\ stopping' = FALSE /\ admin' = TRUE /\ checkpoint' = {}
    /\ phase' = [c \in Conn |-> "gone"]
    /\ bound' = [c \in Conn |-> NoUser]
    /\ route' = [u \in Identity |-> NoConn]
    /\ room' = [s \in Session |-> NoConn]
    /\ online' = {}
    /\ prune' = "armed"
    /\ db' \in {db} \cup TornEnds \cup (IF stopping THEN {} ELSE Torn)
    /\ UNCHANGED <<preview, idle>>

Recoverable(s) == s.seen <= Window

(* InitDB: sessions are recovered within the window; whoever was online when *)
(* the process ended has been offline since its last heartbeat.              *)
Start(routed) ==
    LET kept == IF Recoverable(db) THEN db.sessions ELSE {} IN
    /\ ~up
    /\ up' = TRUE
    /\ routed \subseteq kept
    /\ room' = [s \in Session |-> IF s \in routed THEN Routed
                                  ELSE IF s \in kept THEN Ticketed ELSE NoConn]
    /\ db' = [db EXCEPT !.sessions = kept,
                        !.presence = [u \in Identity |-> IF @[u] = Online THEN db.seen ELSE @[u]],
                        !.seen = 0]
    /\ UNCHANGED <<stopping, admin, phase, bound, route, online, prune, preview, idle,
                   checkpoint>>

-----------------------------------------------------------------------------
Next ==
    \/ \E c \in Conn :
         \/ Close(c) \/ Expire(c) \/ Cleanup(c)
         \/ \E u \in Account, freed \in BOOLEAN : Register(c, u, freed)
         \/ \E u \in Identity : Login(c, u)
         \/ \E s \in Session, written \in BOOLEAN : SessionStart(c, s, written)
    \/ \E s \in Session : SessionEnd(s) \/ RecoveryExpires(s)
    \/ \E h \in Device \cup Clone : AdminDisconnect(h)
    \/ PruneTimer \/ PruneJob
    \/ \E temporary \in SUBSET Temporary, devices \in SUBSET Account :
         RetentionJob(temporary, devices)
    \/ \E d \in Subject : AdminQuery(d)
    \/ \E d \in Subject, scope \in {"history", "identity"} : AdminCleanup(d, scope)
    \/ Tick \/ Stop \/ CloseConnections \/ Exit
    \/ \E routed \in SUBSET Session : Start(routed)

Spec == Init /\ [][Next]_vars

-----------------------------------------------------------------------------
(* Properties *)

RetentionTypeOK ==
    /\ up \in BOOLEAN /\ stopping \in BOOLEAN /\ admin \in BOOLEAN
    /\ phase \in [Conn -> {"open", "closing", "expired", "gone"}]
    /\ bound \in [Conn -> Identity \cup {NoUser}]
    /\ route \in [Identity -> Conn \cup {NoConn}]
    /\ room \in [Session -> Conn \cup {NoConn, Routed, Ticketed}]
    /\ online \subseteq Account
    /\ db \in [account  : [Account -> Age \cup {Missing}],
               presence : [Identity -> Age \cup {Missing, Online}],
               sessions : SUBSET Session,
               seen     : Age]
    /\ prune \in {"armed", "queued", "done"}
    /\ idle \in [Device -> Age]
    /\ checkpoint \subseteq Session

(* While the process runs, presence in the database, the online sets in      *)
(* memory and the logged-in connections say the same of every identity:      *)
(* whatever order logins, closes and cleanups of its connections come in,    *)
(* and after any crash.                                                      *)
OnlineExact == up =>
    /\ \A u \in Identity : db.presence[u] = Online <=> Holders(u) # {}
    /\ online = {u \in Account : Holders(u) # {}}

(* An account disappears only when nobody is logged in as it or as its       *)
(* clone and no session, written down or not, has it; a device only after    *)
(* more than Retention without use, counted over restarts, or by name by the *)
(* administrator.                                                            *)
RetentionSpares ==
    [][\A d \in Account : db.account[d] # Missing /\ db'.account[d] = Missing =>
          /\ \A c \in Conn : bound'[c] \notin Family(d)
          /\ \A s \in Session : Names(s, d) => room'[s] = NoConn /\ s \notin db'.sessions
          /\ d \in Device => idle[d] > Retention \/ AdminCleanup(d, "identity")]_vars

(* A session row goes only while the server serves, or after a restart too   *)
(* late to recover it; a shutdown keeps every row, though it closes every    *)
(* connection.  Jobs queued before it still run, and three may end sessions: *)
(* the expiry of the recovery, the one prune (see CheckpointKept), and, until *)
(* the connections are closed, an administrator who disconnects a room of    *)
(* which nothing is recovering.  A crash may leave a part of the last two.   *)
ShutdownKeepsSessions ==
    [][\A s \in db.sessions \ db'.sessions :
          \/ up /\ ~stopping
          \/ RecoveryExpires(s)
          \/ prune = "queued" /\ Disconnected(s) /\ (PruneJob \/ Exit)
          \/ MayDisconnect(s[1]) /\ (AdminDisconnect(s[1]) \/ Exit)
          \/ ~up /\ db.seen > Window]_vars

(* "On process shutdown the durable session ledger is the checkpoint": the   *)
(* row of a guest that was connected when the shutdown began outlives it,    *)
(* unless an administrator ends the session.                                 *)
CheckpointKept == checkpoint \subseteq db.sessions
=============================================================================
