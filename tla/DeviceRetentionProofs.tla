------------------------ MODULE DeviceRetentionProofs ------------------------
(***************************************************************************)
(* Presence, retention and shutdown of DeviceRetention, proved for any     *)
(* identities, connections, sessions, retention time, recovery window,     *)
(* horizon and batch size.                                                 *)
(***************************************************************************)
EXTENDS DeviceRetention, TLAPS

-----------------------------------------------------------------------------
(* The inductive invariant. *)

(* A connection is logged in from its login to its cleanup; while the process *)
(* is down nobody is.                                                        *)
BoundWhileOpen ==
    /\ \A c \in Conn : phase[c] = "gone" <=> bound[c] = NoUser
    /\ ~up => online = {} /\ \A c \in Conn : bound[c] = NoUser

(* A room without a row is held by its guest's connection and has its host. *)
RoomsHeld ==
    \A s \in Session :
        /\ room[s] \in Conn => bound[room[s]] = s[2] /\ Holders(s[1]) # {}
        /\ room[s] \in {Routed, Ticketed} => s \in db.sessions

(* In the database s some row of the family of d tells that d was in use at  *)
(* most i ago.                                                               *)
Told(s, i, d) ==
    \/ \E u \in Family(d) : s.presence[u] = Online \/ s.presence[u] \in 0..i
    \/ s.presence[d] = Missing /\ s.account[d] \in 0..i

Remembered(s, d) ==
    s.account[d] # Missing \/ \E u \in Family(d) : s.presence[u] # Missing

(* The rows of a device are never all older than its last use. *)
AgesTold == \A d \in Device : Remembered(db, d) => Told(db, idle[d], d)

(* While the process is down, who was online is as old as the last heartbeat. *)
SeenKept ==
    IF up THEN db.seen = 0
    ELSE \A d \in Device : (\E u \in Family(d) : db.presence[u] = Online) => db.seen <= idle[d]

RetInv ==
    /\ RetentionTypeOK
    /\ OnlineExact
    /\ BoundWhileOpen
    /\ RoomsHeld
    /\ AgesTold
    /\ SeenKept

(* What RetentionSpares and ShutdownKeepsSessions say of one step. *)
Spares ==
    \A d \in Account : db.account[d] # Missing /\ db'.account[d] = Missing =>
        /\ \A c \in Conn : bound'[c] \notin Family(d)
        /\ \A s \in Session : Names(s, d) => room'[s] = NoConn /\ s \notin db'.sessions
        /\ d \in Device => idle[d] > Retention \/ AdminCleanup(d, "identity")

RowsKept ==
    \A s \in db.sessions \ db'.sessions :
        \/ up /\ ~stopping
        \/ RecoveryExpires(s)
        \/ prune = "queued" /\ Disconnected(s) /\ (PruneJob \/ Exit)
        \/ MayDisconnect(s[1]) /\ (AdminDisconnect(s[1]) \/ Exit)
        \/ ~up /\ db.seen > Window

Step == RetInv' /\ Spares /\ RowsKept

Rows == [account  : [Account -> Age \cup {Missing}],
         presence : [Identity -> Age \cup {Missing, Online}],
         sessions : SUBSET Session,
         seen     : Age]

-----------------------------------------------------------------------------
(* Identities and ages. *)

LEMMA Families ==
    /\ \A u \in Identity : Base(u) \in Account /\ u \in Family(Base(u))
    /\ \A u \in Account : Base(u) = u /\ u \in Family(u)
    /\ \A u \in Clone : Base(u) \in Device
    /\ \A u \in Identity, t \in Temporary : Base(u) = t <=> u = t
    /\ \A u \in Identity : \A d : u \in Family(d) <=> Base(u) = d
<1>1. \A u \in Clone : Base(u) = Owner[u] /\ Base(u) \in Device
    BY RetentionAssumption DEF Base
<1>2. \A u \in Account : u \notin Clone /\ Base(u) = u
    BY RetentionAssumption DEF Base, Account
<1>3. \A u \in Identity : Base(u) \in Account
    BY <1>1, <1>2 DEF Account, Identity
<1>4. \A u \in Identity, t \in Temporary : Base(u) = t <=> u = t
    BY <1>1, <1>2, RetentionAssumption DEF Account, Identity
<1> QED
    BY <1>1, <1>2, <1>3, <1>4 DEF Family, Identity

LEMMA SessionEnds ==
    ASSUME NEW s \in Session
    PROVE  s[1] \in Identity /\ s[2] \in Identity /\ s[1] # s[2]
BY RetentionAssumption DEF Identity, Account

LEMMA AgeFacts ==
    /\ Horizon \in Nat /\ Age \subseteq Nat /\ 0 \in Age
    /\ Missing \notin Age /\ Online \notin Age /\ Missing # Online
    /\ Retention \in Nat /\ Window \in Nat
<1>1. Horizon \in Nat
    BY RetentionAssumption
<1>2. Age \subseteq Nat /\ 0 \in Age
    BY <1>1, SMT DEF Age
<1> QED
    BY <1>1, <1>2, RetentionAssumption

(* Ages grow together and stop together, and the sentinels do not age. *)
LEMMA OlderFacts ==
    /\ \A a \in Age : Older(a) \in Age
    /\ \A a, b \in Age : a <= b => Older(a) <= Older(b)
    /\ Older(Missing) = Missing /\ Older(Online) = Online
    /\ \A a \in Age \cup {Missing, Online} :
          /\ Older(a) = Missing <=> a = Missing
          /\ Older(a) = Online <=> a = Online
<1>1. Horizon \in Nat
    BY RetentionAssumption
<1>2. \A a \in Age : Older(a) \in Age
    BY <1>1, SMT DEF Age, Older
<1>3. \A a, b \in Age : a <= b => Older(a) <= Older(b)
    BY <1>1, SMT DEF Age, Older
<1>4. 0..(Horizon - 1) \subseteq Age
    BY <1>1, SMT DEF Age
<1>5. Older(Missing) = Missing /\ Older(Online) = Online
    BY <1>4, AgeFacts DEF Older
<1> QED
    BY <1>2, <1>3, <1>5, AgeFacts

-----------------------------------------------------------------------------
(* The database statements. *)

LEMMA SetPresence ==
    ASSUME NEW s \in Rows, NEW u \in Identity
    PROVE  /\ SetOnline(s, u) \in Rows /\ SetOffline(s, u) \in Rows
           /\ SetOnline(s, u).presence = [s.presence EXCEPT ![u] = Online]
           /\ SetOffline(s, u).presence = [s.presence EXCEPT ![u] = 0]
           /\ SetOnline(s, u).account = s.account /\ SetOffline(s, u).account = s.account
           /\ SetOnline(s, u).sessions = s.sessions /\ SetOffline(s, u).sessions = s.sessions
           /\ SetOnline(s, u).seen = s.seen /\ SetOffline(s, u).seen = s.seen
BY AgeFacts, Zenon DEF Rows, SetOnline, SetOffline

LEMMA EnsureFacts ==
    ASSUME NEW s \in Rows, NEW users
    PROVE  /\ EnsurePresence(s, users) \in Rows
           /\ \A u \in Identity : EnsurePresence(s, users).presence[u] =
                 IF u \in users /\ s.presence[u] = Missing THEN 0 ELSE s.presence[u]
           /\ EnsurePresence(s, users).account = s.account
           /\ EnsurePresence(s, users).sessions = s.sessions
           /\ EnsurePresence(s, users).seen = s.seen
<1> DEFINE f == [u \in Identity |-> IF u \in users /\ s.presence[u] = Missing THEN 0
                                    ELSE s.presence[u]]
<1>1. EnsurePresence(s, users) = [s EXCEPT !.presence = f]
    BY DEF EnsurePresence
<1>2. f \in [Identity -> Age \cup {Missing, Online}]
    BY AgeFacts DEF Rows
<1> HIDE DEF f
<1>3. /\ [s EXCEPT !.presence = f] \in Rows
      /\ [s EXCEPT !.presence = f].presence = f
      /\ [s EXCEPT !.presence = f].account = s.account
      /\ [s EXCEPT !.presence = f].sessions = s.sessions
      /\ [s EXCEPT !.presence = f].seen = s.seen
    BY <1>2, Zenon DEF Rows
<1> QED
    BY <1>1, <1>3 DEF f

LEMMA SessionFacts ==
    ASSUME NEW s \in Rows, NEW some \in SUBSET Session
    PROVE  /\ EndSessions(s, some) \in Rows
           /\ EndSessions(s, some).sessions = s.sessions \ some
           /\ EndSessions(s, some).presence = s.presence
           /\ EndSessions(s, some).account = s.account
           /\ EndSessions(s, some).seen = s.seen
<1>1. s.sessions \ some \in SUBSET Session
    BY DEF Rows
<1> QED
    BY <1>1, Zenon DEF Rows, EndSessions

LEMMA AddFacts ==
    ASSUME NEW s \in Rows, NEW w \in Session
    PROVE  /\ AddSession(s, w) \in Rows
           /\ AddSession(s, w).sessions = s.sessions \cup {w}
           /\ AddSession(s, w).presence = EnsurePresence(s, {Base(w[1]), Base(w[2])}).presence
           /\ AddSession(s, w).account = s.account
           /\ AddSession(s, w).seen = s.seen
<1> DEFINE e == EnsurePresence(s, {Base(w[1]), Base(w[2])})
<1>1. e \in Rows /\ e.account = s.account /\ e.sessions = s.sessions /\ e.seen = s.seen
    BY EnsureFacts
<1>2. AddSession(s, w) = [e EXCEPT !.sessions = e.sessions \cup {w}]
    BY DEF AddSession
<1> HIDE DEF e
<1>3. e.sessions \cup {w} \in SUBSET Session
    BY <1>1 DEF Rows
<1>4. /\ AddSession(s, w) \in Rows
      /\ AddSession(s, w).sessions = e.sessions \cup {w}
      /\ AddSession(s, w).presence = e.presence
      /\ AddSession(s, w).account = e.account
      /\ AddSession(s, w).seen = e.seen
    BY <1>1, <1>2, <1>3, Zenon DEF Rows
<1> QED
    BY <1>1, <1>4 DEF e

LEMMA AccountFacts ==
    ASSUME db \in Rows, NEW u \in Account
    PROVE  /\ NewAccount(u) \in Rows
           /\ NewAccount(u).account = [db.account EXCEPT ![u] = 0]
           /\ NewAccount(u).presence = db.presence
           /\ NewAccount(u).sessions = db.sessions
           /\ NewAccount(u).seen = db.seen
BY AgeFacts, Zenon DEF Rows, NewAccount

LEMMA RemoveFacts ==
    ASSUME NEW s \in Rows, NEW devices
    PROVE  /\ Remove(s, devices) \in Rows
           /\ \A u \in Identity : Remove(s, devices).presence[u] =
                 IF Base(u) \in devices THEN Missing ELSE s.presence[u]
           /\ \A u \in Account : Remove(s, devices).account[u] =
                 IF u \in devices THEN Missing ELSE s.account[u]
           /\ Remove(s, devices).sessions = s.sessions
           /\ Remove(s, devices).seen = s.seen
<1> DEFINE f == [u \in Identity |-> IF Base(u) \in devices THEN Missing ELSE s.presence[u]]
           g == [u \in Account |-> IF u \in devices THEN Missing ELSE s.account[u]]
           t == [s EXCEPT !.presence = f, !.account = g]
<1>1. Remove(s, devices) = t
    BY DEF Remove
<1>2. /\ f \in [Identity -> Age \cup {Missing, Online}]
      /\ g \in [Account -> Age \cup {Missing}]
    BY DEF Rows
<1> HIDE DEF f, g
<1>3. t \in Rows /\ t.presence = f /\ t.account = g /\ t.sessions = s.sessions /\ t.seen = s.seen
    BY <1>2, Zenon DEF Rows
<1> QED
    BY <1>1, <1>3 DEF f, g

-----------------------------------------------------------------------------
(* Steps that log nobody in or out and remove nothing. *)

(* From s to t missing presence may be filled in, as offline now. *)
Fills(s, t) ==
    /\ t \in Rows /\ t.account = s.account /\ t.seen = s.seen
    /\ \A u \in Identity :
          \/ t.presence[u] = s.presence[u]
          \/ s.presence[u] = Missing /\ t.presence[u] = 0

LEMMA FillTold ==
    ASSUME NEW s \in Rows, NEW t, Fills(s, t), NEW d \in Device, NEW i \in Age,
           Remembered(s, d) => Told(s, i, d)
    PROVE  Remembered(t, d) => Told(t, i, d)
<1>1. 0 \in 0..i
    BY AgeFacts, SMT
<1>2. d \in Identity /\ d \in Family(d) /\ Family(d) \subseteq Identity
    BY Families DEF Account, Identity, Family
<1>3. CASE \E u \in Family(d) : s.presence[u] = Missing /\ t.presence[u] = 0
    BY <1>1, <1>3 DEF Told
<1>4. CASE \A u \in Family(d) : t.presence[u] = s.presence[u]
    <2>1. t.account[d] = s.account[d]
        BY DEF Fills
    <2> QED
        BY <1>2, <1>4, <2>1 DEF Told, Remembered
<1> QED
    BY <1>2, <1>3, <1>4 DEF Fills

LEMMA FillsSame == \A s \in Rows : Fills(s, s)
BY DEF Fills

LEMMA DbTyped == RetentionTypeOK => db \in Rows
BY DEF RetentionTypeOK, Rows

LEMMA Calm ==
    ASSUME RetInv, RetentionTypeOK', BoundWhileOpen', RoomsHeld', RowsKept,
           Fills(db, db'), UNCHANGED <<up, bound, online, idle>>
    PROVE  Step
<1>1. db \in Rows /\ db' \in Rows
    BY DbTyped DEF RetInv, Fills
<1>2. \A u \in Identity : db'.presence[u] = Online <=> db.presence[u] = Online
    BY AgeFacts DEF Fills
<1>3. OnlineExact'
    BY <1>2 DEF RetInv, OnlineExact, Holders
<1>4. AgesTold'
    <2> SUFFICES ASSUME NEW d \in Device PROVE Remembered(db', d) => Told(db', idle[d], d)
        BY DEF AgesTold
    <2>1. idle[d] \in Age /\ (Remembered(db, d) => Told(db, idle[d], d))
        BY DEF RetInv, RetentionTypeOK, AgesTold
    <2> QED
        BY <1>1, <2>1, FillTold
<1>5. SeenKept'
    BY <1>2 DEF RetInv, SeenKept, Fills, Family
<1>6. Spares
    BY DEF Spares, Fills
<1> QED
    BY <1>3, <1>4, <1>5, <1>6 DEF Step, RetInv

(* A step that leaves the database alone. *)
LEMMA Still ==
    ASSUME RetInv, RetentionTypeOK', BoundWhileOpen', RoomsHeld',
           UNCHANGED <<up, bound, online, idle, db>>
    PROVE  Step
<1>1. Fills(db, db')
    BY DbTyped, FillsSame DEF RetInv
<1>2. RowsKept
    BY DEF RowsKept
<1> QED
    BY <1>1, <1>2, Calm

LEMMA PhaseStep == ASSUME RetInv, NEW c \in Conn, Close(c) \/ Expire(c) PROVE Step
<1>1. UNCHANGED <<up, stopping, admin, checkpoint, bound, route, room, online, db, prune, idle>>
    BY DEF Close, Expire, SetPhase, process
<1>2. \/ phase[c] = "open" /\ phase' = [phase EXCEPT ![c] = "closing"]
      \/ phase[c] = "closing" /\ phase' = [phase EXCEPT ![c] = "expired"]
    BY DEF Close, Expire, SetPhase
<1>3. phase \in [Conn -> {"open", "closing", "expired", "gone"}]
    BY DEF RetInv, RetentionTypeOK
<1>4. RetentionTypeOK'
    BY <1>1, <1>2 DEF RetInv, RetentionTypeOK
<1>5. BoundWhileOpen'
    BY <1>1, <1>2, <1>3 DEF RetInv, BoundWhileOpen
<1>6. RoomsHeld'
    BY <1>1 DEF RetInv, RoomsHeld, Holders
<1> QED
    BY <1>1, <1>4, <1>5, <1>6, Still

LEMMA PruneTimerStep == ASSUME RetInv, PruneTimer PROVE Step
<1>1. UNCHANGED <<up, stopping, admin, checkpoint, phase, bound, route, room, online, db, idle>>
    BY DEF PruneTimer, process, memory
<1>2. RetentionTypeOK'
    BY <1>1 DEF PruneTimer, RetInv, RetentionTypeOK
<1>3. BoundWhileOpen' /\ RoomsHeld'
    BY <1>1 DEF RetInv, BoundWhileOpen, RoomsHeld, Holders
<1> QED
    BY <1>1, <1>2, <1>3, Still

LEMMA AdminQueryStep == ASSUME RetInv, NEW d, AdminQuery(d) PROVE Step
<1>1. UNCHANGED <<up, stopping, admin, checkpoint, phase, bound, route, room, online, db, prune, idle>>
    BY DEF AdminQuery, process, memory
<1>2. RetentionTypeOK' /\ BoundWhileOpen' /\ RoomsHeld'
    BY <1>1 DEF RetInv, RetentionTypeOK, BoundWhileOpen, RoomsHeld, Holders
<1> QED
    BY <1>1, <1>2, Still

LEMMA StopStep == ASSUME RetInv, Stop PROVE Step
<1>1. UNCHANGED <<up, admin, phase, bound, route, room, online, db, prune, idle>> /\ stopping' = TRUE
    BY DEF Stop, memory
<1>2. checkpoint' \subseteq Session
    BY DEF Stop, RetInv, RetentionTypeOK
<1>3. RetentionTypeOK' /\ BoundWhileOpen' /\ RoomsHeld'
    BY <1>1, <1>2 DEF RetInv, RetentionTypeOK, BoundWhileOpen, RoomsHeld, Holders
<1> QED
    BY <1>1, <1>3, Still

LEMMA CloseConnectionsStep == ASSUME RetInv, CloseConnections PROVE Step
<1>1. /\ UNCHANGED <<up, stopping, checkpoint, bound, route, room, online, db, prune, idle>>
      /\ admin' = FALSE
      /\ phase' = [c \in Conn |-> IF phase[c] = "open" THEN "closing" ELSE phase[c]]
    BY DEF CloseConnections
<1>2. phase \in [Conn -> {"open", "closing", "expired", "gone"}]
    BY DEF RetInv, RetentionTypeOK
<1>3. phase' \in [Conn -> {"open", "closing", "expired", "gone"}]
    BY <1>1, <1>2
<1>4. RetentionTypeOK'
    BY <1>1, <1>3 DEF RetInv, RetentionTypeOK
<1>5. \A c \in Conn : phase'[c] = "gone" <=> phase[c] = "gone"
    BY <1>1
<1>6. BoundWhileOpen' /\ RoomsHeld'
    BY <1>1, <1>5 DEF RetInv, BoundWhileOpen, RoomsHeld, Holders
<1> QED
    BY <1>1, <1>4, <1>6, Still

(* Sessions that end leave their rooms and their rows in one step. *)
LEMMA Ends ==
    ASSUME RetInv, NEW gone \in SUBSET Session, db' = EndSessions(db, gone), RowsKept,
           room' = [s \in Session |-> IF s \in gone THEN NoConn ELSE room[s]],
           prune' \in {"armed", "queued", "done"}, checkpoint' \subseteq Session,
           UNCHANGED <<up, stopping, admin, phase, bound, route, online, idle>>
    PROVE  Step
<1>1. db \in Rows
    BY DbTyped DEF RetInv
<1>2. /\ db' \in Rows /\ db'.sessions = db.sessions \ gone
      /\ db'.presence = db.presence /\ db'.account = db.account /\ db'.seen = db.seen
    BY <1>1, SessionFacts
<1>3. Fills(db, db')
    BY <1>2 DEF Fills
<1>4. RetentionTypeOK'
    BY <1>2 DEF RetInv, RetentionTypeOK, Rows
<1>5. RoomsHeld'
    BY <1>2, RetentionAssumption DEF RetInv, RoomsHeld, Holders
<1>6. BoundWhileOpen'
    BY DEF RetInv, BoundWhileOpen
<1> QED
    BY <1>3, <1>4, <1>5, <1>6, Calm

LEMMA EndsOne ==
    ASSUME RetInv, NEW s \in Session, db' = EndSessions(db, {s}), RowsKept,
           room' = [room EXCEPT ![s] = NoConn],
           UNCHANGED <<up, stopping, admin, checkpoint, phase, bound, route, online, prune, idle>>
    PROVE  Step
<1>1. room' = [r \in Session |-> IF r \in {s} THEN NoConn ELSE room[r]]
    BY DEF RetInv, RetentionTypeOK
<1>2. prune' \in {"armed", "queued", "done"} /\ checkpoint' \subseteq Session
    BY DEF RetInv, RetentionTypeOK
<1> QED
    BY <1>1, <1>2, Ends

LEMMA SessionEndStep == ASSUME RetInv, NEW s \in Session, SessionEnd(s) PROVE Step
<1>1. RowsKept
    BY DEF SessionEnd, RowsKept
<1> QED
    BY <1>1, EndsOne DEF SessionEnd, process

LEMMA RecoveryExpiresStep == ASSUME RetInv, NEW s \in Session, RecoveryExpires(s) PROVE Step
<1>1. db'.sessions = db.sessions \ {s} /\ up
    BY DbTyped, SessionFacts DEF RecoveryExpires, RetInv
<1>2. RowsKept
    BY <1>1 DEF RowsKept
<1> QED
    BY <1>2, EndsOne DEF RecoveryExpires, process

LEMMA AdminDisconnectStep == ASSUME RetInv, NEW h, AdminDisconnect(h) PROVE Step
<1>1. /\ MayDisconnect(h)
      /\ room' = [s \in Session |-> IF s \in RoomOf(h) THEN NoConn ELSE room[s]]
      /\ db' = EndSessions(db, RoomOf(h)) /\ checkpoint' = checkpoint \ RoomOf(h)
      /\ UNCHANGED <<up, stopping, admin, phase, bound, route, online, prune, idle>>
    BY DEF AdminDisconnect
<1>2. RoomOf(h) \in SUBSET Session /\ \A s \in RoomOf(h) : s[1] = h
    BY DEF RoomOf
<1>3. db'.sessions = db.sessions \ RoomOf(h)
    BY <1>1, <1>2, DbTyped, SessionFacts DEF RetInv
<1>4. RowsKept
    BY <1>1, <1>2, <1>3 DEF RowsKept
<1>5. prune' \in {"armed", "queued", "done"} /\ checkpoint' \subseteq Session
    BY <1>1 DEF RetInv, RetentionTypeOK
<1> QED
    BY <1>1, <1>2, <1>4, <1>5, Ends

LEMMA PruneJobStep == ASSUME RetInv, PruneJob PROVE Step
<1> DEFINE gone == {s \in Session : Disconnected(s)}
<1>1. /\ up /\ prune = "queued" /\ prune' = "done"
      /\ room' = [s \in Session |-> IF s \in gone THEN NoConn ELSE room[s]]
      /\ db' = EndSessions(db, gone)
      /\ UNCHANGED <<up, stopping, admin, checkpoint, phase, bound, route, online, idle>>
    BY DEF PruneJob, process
<1>2. gone \in SUBSET Session
    OBVIOUS
<1>3. db'.sessions = db.sessions \ gone
    BY <1>1, <1>2, DbTyped, SessionFacts DEF RetInv
<1>4. RowsKept
    BY <1>1, <1>3 DEF RowsKept
<1>5. checkpoint' \subseteq Session
    BY <1>1 DEF RetInv, RetentionTypeOK
<1> QED
    BY <1>1, <1>2, <1>4, <1>5, Ends

LEMMA SessionStartStep ==
    ASSUME RetInv, NEW c \in Conn, NEW s \in Session, NEW written \in BOOLEAN,
           SessionStart(c, s, written)
    PROVE  Step
<1>1. /\ bound[c] = s[2] /\ Holders(s[1]) # {}
      /\ room' = [room EXCEPT ![s] = c]
      /\ db' = IF written THEN AddSession(db, s) ELSE db
      /\ UNCHANGED <<up, stopping, admin, checkpoint, phase, bound, route, online, prune, idle>>
    BY DEF SessionStart, process
<1>2. db \in Rows
    BY DbTyped DEF RetInv
<1>3. Fills(db, db') /\ db.sessions \subseteq db'.sessions
    <2>1. CASE ~written
        BY <1>1, <1>2, <2>1, FillsSame
    <2>2. CASE written
        <3> DEFINE e == EnsurePresence(db, {Base(s[1]), Base(s[2])})
        <3>1. \A u \in Identity : \/ e.presence[u] = db.presence[u]
                                  \/ db.presence[u] = Missing /\ e.presence[u] = 0
            <4>1. \A u \in Identity : e.presence[u] =
                    IF u \in {Base(s[1]), Base(s[2])} /\ db.presence[u] = Missing THEN 0
                    ELSE db.presence[u]
                BY <1>2, EnsureFacts
            <4> HIDE DEF e
            <4> QED
                BY <4>1
        <3>2. /\ db' \in Rows /\ db'.sessions = db.sessions \cup {s}
              /\ db'.presence = e.presence
              /\ db'.account = db.account /\ db'.seen = db.seen
            BY <1>1, <1>2, <2>2, AddFacts
        <3> QED
            BY <3>1, <3>2 DEF Fills
    <2> QED
        BY <2>1, <2>2
<1>4. RetentionTypeOK'
    BY <1>1, <1>3 DEF RetInv, RetentionTypeOK, Fills, Rows
<1>5. RoomsHeld'
    <2> SUFFICES ASSUME NEW r \in Session
                 PROVE  /\ room'[r] \in Conn => bound[room'[r]] = r[2] /\ Holders(r[1]) # {}
                        /\ room'[r] \in {Routed, Ticketed} => r \in db'.sessions
        BY <1>1 DEF RoomsHeld, Holders
    <2>1. room \in [Session -> Conn \cup {NoConn, Routed, Ticketed}]
        BY DEF RetInv, RetentionTypeOK
    <2>2. CASE r = s
        BY <1>1, <2>1, <2>2, RetentionAssumption
    <2>3. CASE r # s
        BY <1>1, <1>3, <2>1, <2>3 DEF RetInv, RoomsHeld
    <2> QED
        BY <2>2, <2>3
<1>6. BoundWhileOpen'
    BY <1>1 DEF RetInv, BoundWhileOpen
<1>7. RowsKept
    BY <1>3 DEF RowsKept
<1> QED
    BY <1>1, <1>3, <1>4, <1>5, <1>6, <1>7, Calm

-----------------------------------------------------------------------------
(* Logins. *)

(* A new account is young, unless older rows of its family already tell. *)
LEMMA NewTold ==
    ASSUME db \in Rows, AgesTold, idle \in [Device -> Age],
           NEW u \in Account, NEW d \in Device
    PROVE  Remembered(NewAccount(u), d) => Told(NewAccount(u), idle[d], d)
<1>1. /\ NewAccount(u).account = [db.account EXCEPT ![u] = 0]
      /\ NewAccount(u).presence = db.presence
    BY AccountFacts
<1>2. d \in Account /\ d \in Family(d)
    BY Families DEF Account
<1>3. 0 \in 0..idle[d]
    <2>1. idle[d] \in Nat
        BY AgeFacts
    <2> QED
        BY <2>1, SMT
<1>4. NewAccount(u).account[d] = IF d = u THEN 0 ELSE db.account[d]
    BY <1>1, <1>2 DEF Rows
<1>5. CASE d = u /\ db.presence[d] = Missing
    BY <1>1, <1>3, <1>4, <1>5 DEF Told
<1>6. CASE d = u /\ db.presence[d] # Missing
    <2>1. Told(db, idle[d], d)
        BY <1>2, <1>6 DEF AgesTold, Remembered
    <2> QED
        BY <1>1, <1>6, <2>1 DEF Told
<1>7. CASE d # u
    BY <1>1, <1>4, <1>7 DEF AgesTold, Told, Remembered
<1> QED
    BY <1>5, <1>6, <1>7

LEMMA RegisterFreed ==
    ASSUME RetInv, NEW u \in Account, db' = NewAccount(u), up,
           UNCHANGED <<up, stopping, admin, checkpoint, phase, bound, route, room, online, prune, idle>>
    PROVE  Step
<1>1. db \in Rows
    BY DbTyped DEF RetInv
<1>2. /\ db' \in Rows /\ db'.account = [db.account EXCEPT ![u] = 0]
      /\ db'.presence = db.presence /\ db'.sessions = db.sessions /\ db'.seen = db.seen
    BY <1>1, AccountFacts
<1>3. RetentionTypeOK'
    BY <1>2 DEF RetInv, RetentionTypeOK, Rows
<1>4. OnlineExact' /\ BoundWhileOpen' /\ RoomsHeld' /\ SeenKept'
    BY <1>2 DEF RetInv, OnlineExact, BoundWhileOpen, RoomsHeld, SeenKept, Holders
<1>5. AgesTold'
    BY <1>1, NewTold DEF RetInv, RetentionTypeOK, AgesTold
<1>6. Spares /\ RowsKept
    BY <1>1, <1>2, AgeFacts DEF Spares, RowsKept, Rows
<1> QED
    BY <1>3, <1>4, <1>5, <1>6 DEF Step, RetInv

(* The connection was nobody's before, so that no room and no other identity *)
(* loses it.                                                                 *)
LEMMA LogInStep ==
    ASSUME RetInv, NEW c \in Conn, NEW u \in Identity, NEW s \in Rows,
           s.presence = db.presence, s.sessions = db.sessions, s.seen = db.seen,
           \A a \in Account : s.account[a] = db.account[a] \/ (a = u /\ s.account[a] # Missing),
           LoggedOut(c), LogIn(s, c, u)
    PROVE  Step
<1> DEFINE e == EnsurePresence(s, {u} \cap Device)
<1>1. /\ up /\ phase[c] = "gone" /\ phase' = [phase EXCEPT ![c] = "open"]
      /\ bound' = [bound EXCEPT ![c] = u]
      /\ route' = [route EXCEPT ![u] = IF u \in Clone /\ @ # NoConn THEN @ ELSE c]
      /\ online' = online \cup ({u} \ Clone)
      /\ db' = SetOnline(e, u)
      /\ idle' = [d \in Device |-> IF d \in {Base(u)} THEN 0 ELSE idle[d]]
      /\ UNCHANGED <<up, stopping, admin, checkpoint, room, prune>>
    BY DEF LoggedOut, LogIn, Renewed, process
<1>2. /\ e \in Rows /\ e.account = s.account /\ e.sessions = s.sessions /\ e.seen = s.seen
      /\ \A v \in Identity : e.presence[v] =
            IF v \in {u} \cap Device /\ s.presence[v] = Missing THEN 0 ELSE s.presence[v]
    BY EnsureFacts
<1> HIDE DEF e
<1>3. /\ db' \in Rows /\ db'.presence = [e.presence EXCEPT ![u] = Online]
      /\ db'.account = s.account /\ db'.sessions = db.sessions /\ db'.seen = db.seen
    BY <1>1, <1>2, SetPresence
<1>4. \A v \in Identity : db'.presence[v] = IF v = u THEN Online ELSE db.presence[v]
    BY <1>2, <1>3 DEF Rows
<1>5. /\ phase \in [Conn -> {"open", "closing", "expired", "gone"}]
      /\ bound \in [Conn -> Identity \cup {NoUser}] /\ bound[c] = NoUser
      /\ route \in [Identity -> Conn \cup {NoConn}]
      /\ idle \in [Device -> Age] /\ NoUser \notin Identity
    BY <1>1, RetentionAssumption DEF RetInv, RetentionTypeOK, BoundWhileOpen
<1>6. RetentionTypeOK'
    <2>1. {u} \ Clone \subseteq Account
        BY DEF Identity
    <2>2. /\ phase' \in [Conn -> {"open", "closing", "expired", "gone"}]
          /\ bound' \in [Conn -> Identity \cup {NoUser}]
          /\ route' \in [Identity -> Conn \cup {NoConn}]
          /\ idle' \in [Device -> Age]
        BY <1>1, <1>5, AgeFacts
    <2> QED
        BY <1>1, <1>3, <2>1, <2>2 DEF RetInv, RetentionTypeOK, Rows
<1>7. \A v \in Identity : Holders(v)' = IF v = u THEN Holders(v) \cup {c} ELSE Holders(v)
    BY <1>1, <1>5 DEF Holders
<1>8. OnlineExact'
    <2>1. \A v \in Identity : db'.presence[v] = Online <=> Holders(v)' # {}
        BY <1>1, <1>4, <1>7 DEF RetInv, OnlineExact
    <2>2. u \in Clone => u \notin Account
        BY RetentionAssumption DEF Account
    <2>3. online' = {v \in Account : Holders(v)' # {}}
        BY <1>1, <1>7, <2>2 DEF RetInv, OnlineExact, Identity
    <2> QED
        BY <2>1, <2>3 DEF OnlineExact
<1>9. BoundWhileOpen'
    BY <1>1, <1>5 DEF RetInv, BoundWhileOpen
<1>10. RoomsHeld'
    <2> SUFFICES ASSUME NEW w \in Session
                 PROVE  /\ room[w] \in Conn => bound'[room[w]] = w[2] /\ Holders(w[1])' # {}
                        /\ room[w] \in {Routed, Ticketed} => w \in db.sessions
        BY <1>1, <1>3 DEF RoomsHeld
    <2>1. w[1] \in Identity /\ w[2] \in Identity
        BY SessionEnds
    <2>2. /\ room[w] \in Conn => bound[room[w]] = w[2] /\ Holders(w[1]) # {}
          /\ room[w] \in {Routed, Ticketed} => w \in db.sessions
        BY DEF RetInv, RoomsHeld
    <2>3. room[w] \in Conn => room[w] # c
        BY <1>5, <2>1, <2>2
    <2> QED
        BY <1>1, <1>5, <1>7, <2>1, <2>2, <2>3
<1>11. AgesTold'
    <2> SUFFICES ASSUME NEW d \in Device PROVE Remembered(db', d) => Told(db', idle'[d], d)
        BY DEF AgesTold
    <2>1. CASE Base(u) = d
        BY <1>4, <2>1, Families DEF Told
    <2>2. CASE Base(u) # d
        <3>1. /\ d \in Account /\ d \in Identity /\ d # u
              /\ u \notin Family(d) /\ Family(d) \subseteq Identity
            BY <2>2, Families DEF Account, Identity, Family
        <3>2. /\ db'.account[d] = db.account[d] /\ idle'[d] = idle[d]
              /\ \A v \in Family(d) : db'.presence[v] = db.presence[v]
              /\ db'.presence[d] = db.presence[d]
            BY <1>1, <1>3, <1>4, <2>2, <3>1
        <3> QED
            BY <3>2 DEF RetInv, AgesTold, Told, Remembered
    <2> QED
        BY <2>1, <2>2
<1>12. SeenKept' /\ Spares /\ RowsKept
    BY <1>1, <1>3 DEF RetInv, SeenKept, Spares, RowsKept
<1> QED
    BY <1>6, <1>8, <1>9, <1>10, <1>11, <1>12 DEF Step, RetInv

LEMMA RegisterStep ==
    ASSUME RetInv, NEW c \in Conn, NEW u \in Account, NEW freed \in BOOLEAN,
           Register(c, u, freed)
    PROVE  Step
<1>1. LoggedOut(c) /\ up
    BY DEF Register, LoggedOut
<1>2. CASE freed
    BY <1>1, <1>2, RegisterFreed DEF Register, process, memory
<1>3. CASE ~freed
    <2>1. LogIn(NewAccount(u), c, u) /\ u \in Identity /\ db \in Rows
        BY <1>3, DbTyped DEF Register, Identity, RetInv
    <2>2. \A a \in Account : \/ NewAccount(u).account[a] = db.account[a]
                             \/ a = u /\ NewAccount(u).account[a] # Missing
        BY <2>1, AccountFacts, AgeFacts DEF Rows
    <2> QED
        BY <1>1, <2>1, <2>2, AccountFacts, LogInStep
<1> QED
    BY <1>2, <1>3

LEMMA LoginStep ==
    ASSUME RetInv, NEW c \in Conn, NEW u \in Identity, Login(c, u)
    PROVE  Step
<1>1. LoggedOut(c) /\ LogIn(db, c, u) /\ db \in Rows
    BY DbTyped DEF Login, RetInv
<1> QED
    BY <1>1, LogInStep

-----------------------------------------------------------------------------
(* Removals. *)

(* Whoever is not in use has no connection and no session, written or not. *)
LEMMA NotInUse ==
    ASSUME RetInv, up, NEW d \in Account, ~InUse(db, d)
    PROVE  /\ \A c \in Conn : bound[c] \notin Family(d)
           /\ \A s \in Session : Names(s, d) => room[s] = NoConn /\ s \notin db.sessions
<1>1. \A u \in Family(d) : u \in Identity /\ Holders(u) = {}
    BY DEF RetInv, OnlineExact, InUse, Family
<1>2. \A c \in Conn : bound[c] \notin Family(d)
    BY <1>1 DEF Holders
<1>3. ASSUME NEW s \in Session, Names(s, d)
      PROVE  room[s] = NoConn /\ s \notin db.sessions
    <2>1. s \notin db.sessions
        BY <1>3 DEF InUse
    <2>2. s[1] \in Identity /\ s[2] \in Identity
        BY SessionEnds
    <2>3. s[1] \in Family(d) \/ s[2] \in Family(d)
        BY <1>3, <2>2 DEF Names, Family
    <2>4. room[s] \notin Conn
        BY <1>1, <2>3 DEF RetInv, RoomsHeld, Holders
    <2>5. room[s] \in Conn \cup {NoConn, Routed, Ticketed}
        BY DEF RetInv, RetentionTypeOK
    <2> QED
        BY <2>1, <2>4, <2>5 DEF RetInv, RoomsHeld
<1> QED
    BY <1>2, <1>3

(* Rows of what is not in use are removed; an account may stay, renewed. *)
LEMMA Removal ==
    ASSUME RetInv, up, NEW gone \in SUBSET Account, \A g \in gone : ~InUse(db, g),
           db' \in Rows, db'.sessions = db.sessions, db'.seen = db.seen,
           \A v \in Identity : db'.presence[v] =
              IF Base(v) \in gone THEN Missing ELSE db.presence[v],
           \A a \in Account : IF a \in gone THEN db'.account[a] \in {Missing, 0}
                              ELSE db'.account[a] = db.account[a],
           idle' \in [Device -> Age], \A d \in Device \ gone : idle'[d] = idle[d],
           \A d \in gone \cap Device : db.account[d] # Missing /\ db'.account[d] = Missing =>
              idle[d] > Retention \/ AdminCleanup(d, "identity"),
           UNCHANGED <<up, stopping, admin, checkpoint, phase, bound, route, room, online, prune>>
    PROVE  Step
<1>1. RetentionTypeOK'
    BY DEF RetInv, RetentionTypeOK, Rows
<1>2. BoundWhileOpen' /\ RoomsHeld' /\ SeenKept' /\ RowsKept
    BY DEF RetInv, BoundWhileOpen, RoomsHeld, SeenKept, RowsKept, Holders
<1>3. \A v \in Identity : db'.presence[v] = Online <=> db.presence[v] = Online
    BY Families, AgeFacts DEF InUse
<1>4. OnlineExact'
    BY <1>3 DEF RetInv, OnlineExact, Holders
<1>5. AgesTold'
    <2> SUFFICES ASSUME NEW d \in Device PROVE Remembered(db', d) => Told(db', idle'[d], d)
        BY DEF AgesTold
    <2>1. d \in Account /\ d \in Identity /\ Base(d) = d
        BY Families DEF Account, Identity
    <2>2. \A u \in Family(d) : u \in Identity /\ Base(u) = d
        BY DEF Family
    <2>3. CASE d \in gone
        <3>1. idle'[d] \in Nat
            BY AgeFacts
        <3>2. 0 \in 0..idle'[d]
            BY <3>1, SMT
        <3>3. db'.presence[d] = Missing /\ \A u \in Family(d) : db'.presence[u] = Missing
            BY <2>1, <2>2, <2>3
        <3> QED
            BY <2>1, <2>3, <3>2, <3>3 DEF Told, Remembered
    <2>4. CASE d \notin gone
        <3>1. /\ db'.account[d] = db.account[d] /\ idle'[d] = idle[d]
              /\ db'.presence[d] = db.presence[d]
              /\ \A u \in Family(d) : db'.presence[u] = db.presence[u]
            BY <2>1, <2>2, <2>4
        <3> QED
            BY <3>1 DEF RetInv, AgesTold, Told, Remembered
    <2> QED
        BY <2>3, <2>4
<1>6. Spares
    <2> SUFFICES ASSUME NEW d \in Account, db.account[d] # Missing, db'.account[d] = Missing
                 PROVE  /\ \A c \in Conn : bound'[c] \notin Family(d)
                        /\ \A s \in Session :
                              Names(s, d) => room'[s] = NoConn /\ s \notin db'.sessions
                        /\ d \in Device => idle[d] > Retention \/ AdminCleanup(d, "identity")
        BY DEF Spares
    <2>1. d \in gone
        OBVIOUS
    <2>2. /\ \A c \in Conn : bound[c] \notin Family(d)
          /\ \A s \in Session : Names(s, d) => room[s] = NoConn /\ s \notin db.sessions
        BY <2>1, NotInUse
    <2> QED
        BY <2>1, <2>2
<1> QED
    BY <1>1, <1>2, <1>4, <1>5, <1>6 DEF Step, RetInv

(* Every row of an expired family is older than Retention, one of them is    *)
(* no older than the last use.                                               *)
LEMMA ExpiredUnused ==
    ASSUME RetInv, NEW d \in Device, NEW s, db.account[d] # Missing,
           \A u \in Family(d) : s.presence[u] = db.presence[u],
           s.account[d] = db.account[d], Expired(s, d)
    PROVE  idle[d] > Retention
<1>1. d \in Family(d) /\ d \in Account
    BY Families DEF Account
<1>2. Told(db, idle[d], d)
    BY DEF RetInv, AgesTold, Remembered
<1>3. /\ \A u \in Family(d) : db.presence[u] # Missing => Aged(db.presence[u])
      /\ db.presence[d] = Missing => Aged(db.account[d])
    BY <1>1 DEF Expired
<1>4. idle[d] \in Nat /\ Retention \in Nat
    BY AgeFacts DEF RetInv, RetentionTypeOK
<1>5. ASSUME NEW a \in 0..idle[d], Aged(a)
      PROVE  idle[d] > Retention
    BY <1>4, <1>5, SMT DEF Aged
<1>6. \A u \in Family(d) : db.presence[u] # Online
    BY <1>3, AgeFacts DEF Aged
<1>7. \A a \in 0..idle[d] : a # Missing
    <2>1. idle[d] \in 0..Horizon
        BY DEF RetInv, RetentionTypeOK, Age
    <2>2. 0..idle[d] \subseteq 0..Horizon
        BY <2>1, RetentionAssumption, SMT
    <2> QED
        BY <2>2, AgeFacts DEF Age
<1> QED
    BY <1>2, <1>3, <1>5, <1>6, <1>7 DEF Told

LEMMA RetentionJobStep ==
    ASSUME RetInv, NEW temporary \in SUBSET Temporary, NEW devices \in SUBSET Account,
           RetentionJob(temporary, devices)
    PROVE  Step
<1> DEFINE first == Remove(db, temporary)  gone == temporary \cup devices
<1>1. /\ up /\ temporary \subseteq TemporaryCandidates(db)
      /\ \A d \in devices : Expired(first, d)
      /\ db' = Remove(first, devices)
      /\ UNCHANGED <<up, stopping, admin, checkpoint, phase, bound, route, room, online, prune, idle>>
    BY DEF RetentionJob, IsBatch, process
<1>2. /\ first \in Rows /\ first.sessions = db.sessions /\ first.seen = db.seen
      /\ \A v \in Identity : first.presence[v] =
            IF Base(v) \in temporary THEN Missing ELSE db.presence[v]
      /\ \A a \in Account : first.account[a] =
            IF a \in temporary THEN Missing ELSE db.account[a]
    BY DbTyped, RemoveFacts DEF RetInv
<1> HIDE DEF first
<1>3. /\ db' \in Rows /\ db'.sessions = db.sessions /\ db'.seen = db.seen
      /\ \A v \in Identity : db'.presence[v] =
            IF Base(v) \in devices THEN Missing ELSE first.presence[v]
      /\ \A a \in Account : db'.account[a] =
            IF a \in devices THEN Missing ELSE first.account[a]
    BY <1>1, <1>2, RemoveFacts
<1>4. \A g \in gone : ~InUse(db, g)
    <2>1. \A g \in temporary : ~InUse(db, g)
        BY <1>1 DEF TemporaryCandidates
    <2>2. ASSUME NEW g \in devices, g \notin temporary
          PROVE  ~InUse(db, g)
        <3>1. ~InUse(first, g)
            BY <1>1 DEF Expired
        <3>2. \A u \in Family(g) : first.presence[u] = db.presence[u]
            BY <1>2, <2>2 DEF Family
        <3> QED
            BY <1>2, <3>1, <3>2 DEF InUse
    <2> QED
        BY <2>1, <2>2
<1>5. ASSUME NEW d \in gone \cap Device, db.account[d] # Missing
      PROVE  idle[d] > Retention
    <2>1. d \notin temporary /\ d \in devices /\ d \in Account
        BY RetentionAssumption DEF Account
    <2>2. \A u \in Family(d) : first.presence[u] = db.presence[u]
        BY <1>2, <2>1 DEF Family
    <2>3. first.account[d] = db.account[d]
        BY <1>2, <2>1
    <2> QED
        BY <1>1, <1>5, <2>1, <2>2, <2>3, ExpiredUnused
<1>6. /\ \A v \in Identity : db'.presence[v] =
            IF Base(v) \in gone THEN Missing ELSE db.presence[v]
      /\ \A a \in Account : IF a \in gone THEN db'.account[a] \in {Missing, 0}
                            ELSE db'.account[a] = db.account[a]
    BY <1>2, <1>3
<1>7. gone \in SUBSET Account /\ idle' \in [Device -> Age] /\ \A d \in Device \ gone : idle'[d] = idle[d]
    BY <1>1 DEF Account, RetInv, RetentionTypeOK
<1> HIDE DEF gone
<1> QED
    BY <1>1, <1>3, <1>4, <1>5, <1>6, <1>7, Removal

LEMMA AdminCleanupStep ==
    ASSUME RetInv, NEW d \in Subject, NEW scope \in {"history", "identity"},
           AdminCleanup(d, scope)
    PROVE  Step
<1> DEFINE r == Remove(db, {d})
<1>1. /\ up /\ ~InUse(db, d) /\ d \in Account
      /\ UNCHANGED <<up, stopping, admin, checkpoint, phase, bound, route, room, online, prune>>
    BY RetentionAssumption DEF AdminCleanup, AdminAllowed, process
<1>2. /\ r \in Rows /\ r.sessions = db.sessions /\ r.seen = db.seen
      /\ \A v \in Identity : r.presence[v] = IF Base(v) \in {d} THEN Missing ELSE db.presence[v]
      /\ \A a \in Account : r.account[a] = IF a \in {d} THEN Missing ELSE db.account[a]
    BY DbTyped, RemoveFacts DEF RetInv
<1> HIDE DEF r
<1>3. {d} \in SUBSET Account /\ \A g \in {d} : ~InUse(db, g)
    BY <1>1
<1>4. idle \in [Device -> Age]
    BY DEF RetInv, RetentionTypeOK
<1>5. CASE scope = "identity"
    <2>1. db' = r /\ idle' = idle
        BY <1>5 DEF AdminCleanup, r
    <2>2. \A a \in Account : IF a \in {d} THEN db'.account[a] \in {Missing, 0}
                             ELSE db'.account[a] = db.account[a]
        BY <1>2, <2>1
    <2>3. \A e \in {d} \cap Device : AdminCleanup(e, "identity")
        BY <1>5
    <2> QED
        BY <1>1, <1>2, <1>3, <1>4, <2>1, <2>2, <2>3, Removal
<1>6. CASE scope = "history"
    <2> DEFINE x == IF db.account[d] = Missing THEN Missing ELSE 0
    <2>1. db' = [r EXCEPT !.account[d] = x]
        BY <1>6 DEF AdminCleanup, r
    <2>2. x \in Age \cup {Missing} /\ x \in {Missing, 0}
        BY AgeFacts
    <2>3. db.account[d] # Missing => x # Missing
        BY AgeFacts
    <2> HIDE DEF x
    <2>4. /\ db' \in Rows /\ db'.sessions = r.sessions /\ db'.seen = r.seen
          /\ db'.presence = r.presence
          /\ db'.account = [r.account EXCEPT ![d] = x]
        BY <1>2, <2>1, <2>2, Zenon DEF Rows
    <2>5. \A a \in Account : IF a \in {d} THEN db'.account[a] = x
                             ELSE db'.account[a] = db.account[a]
        BY <1>2, <2>4 DEF Rows
    <2>6. /\ idle' \in [Device -> Age]
          /\ \A e \in Device \ {d} : idle'[e] = idle[e]
        BY <1>4, <1>6, AgeFacts DEF AdminCleanup, Renewed
    <2>7. \A a \in Account : IF a \in {d} THEN db'.account[a] \in {Missing, 0}
                             ELSE db'.account[a] = db.account[a]
        BY <2>2, <2>5
    <2>8. ~(db.account[d] # Missing /\ db'.account[d] = Missing)
        BY <1>1, <2>3, <2>5
    <2>9. /\ db' \in Rows /\ db'.sessions = db.sessions /\ db'.seen = db.seen
          /\ \A v \in Identity : db'.presence[v] =
                IF Base(v) \in {d} THEN Missing ELSE db.presence[v]
        BY <1>2, <2>4
    <2>10. \A e \in {d} \cap Device : db.account[e] # Missing /\ db'.account[e] = Missing =>
              idle[e] > Retention \/ AdminCleanup(e, "identity")
        BY <2>8
    <2> QED
        BY <1>1, <1>3, <2>6, <2>7, <2>9, <2>10, Removal
<1> QED
    BY <1>5, <1>6

-----------------------------------------------------------------------------
(* The cleanup of a connection. *)

(* What the database becomes when the last connection of u is released. *)
LEMMA LogoutFacts ==
    ASSUME NEW left \in Rows, NEW u \in Identity
    PROVE  LET t == RemoveTemporary(SetOffline(left, u), u) IN
           /\ t \in Rows /\ t.sessions = left.sessions /\ t.seen = left.seen
           /\ \A v \in Identity : v # u => t.presence[v] = left.presence[v]
           /\ t.presence[u] = 0 \/ (u \in Temporary /\ t.presence[u] = Missing)
           /\ \A a \in Account : t.account[a] = left.account[a]
                 \/ (a = u /\ u \in Temporary /\ t.account[a] = Missing
                      /\ \A w \in left.sessions : ~Names(w, u))
<1>1. PICK s \in Rows :
         /\ s = SetOffline(left, u) /\ s.presence = [left.presence EXCEPT ![u] = 0]
         /\ s.account = left.account /\ s.sessions = left.sessions /\ s.seen = left.seen
    BY SetPresence
<1>2. \A v \in Identity : s.presence[v] = IF v = u THEN 0 ELSE left.presence[v]
    BY <1>1 DEF Rows
<1> DEFINE t == RemoveTemporary(SetOffline(left, u), u)
<1>3. CASE u \in Temporary /\ ~InUse(s, u)
    <2> DEFINE r == Remove(s, {u})
    <2>1. t = r
        BY <1>1, <1>3 DEF RemoveTemporary
    <2>2. /\ r \in Rows /\ r.sessions = s.sessions /\ r.seen = s.seen
          /\ \A v \in Identity : r.presence[v] =
                IF Base(v) \in {u} THEN Missing ELSE s.presence[v]
          /\ \A a \in Account : r.account[a] = IF a \in {u} THEN Missing ELSE s.account[a]
        BY RemoveFacts
    <2> HIDE DEF r, t
    <2>3. \A v \in Identity : Base(v) = u <=> v = u
        BY <1>3, Families
    <2>4. \A w \in left.sessions : ~Names(w, u)
        BY <1>1, <1>3 DEF InUse
    <2> QED
        BY <1>1, <1>2, <1>3, <2>1, <2>2, <2>3, <2>4 DEF t
<1>4. CASE ~(u \in Temporary /\ ~InUse(s, u))
    <2>1. t = s
        BY <1>1, <1>4 DEF RemoveTemporary
    <2> QED
        BY <1>1, <1>2, <2>1
<1> QED
    BY <1>3, <1>4

LEMMA CleanupStep == ASSUME RetInv, NEW c \in Conn, Cleanup(c) PROVE Step
<1> DEFINE last == Holders(bound[c]) = {c}  gone == Released(c)
           left == EndSessions(db, Released(c))
<1>1. /\ up /\ ~stopping /\ phase[c] \in {"closing", "expired"}
      /\ phase' = [phase EXCEPT ![c] = "gone"]
      /\ bound' = [bound EXCEPT ![c] = NoUser]
      /\ room' = [s \in Session |-> IF s \in gone THEN NoConn ELSE room[s]]
      /\ UNCHANGED <<up, stopping, admin, checkpoint, prune, idle>>
    BY DEF Cleanup, Release, process
<1>2. /\ phase \in [Conn -> {"open", "closing", "expired", "gone"}]
      /\ bound \in [Conn -> Identity \cup {NoUser}]
      /\ route \in [Identity -> Conn \cup {NoConn}]
      /\ room \in [Session -> Conn \cup {NoConn, Routed, Ticketed}]
      /\ online \subseteq Account /\ db \in Rows
    BY DbTyped DEF RetInv, RetentionTypeOK
<1>3. PICK u \in Identity : u = bound[c] /\ u # NoUser /\ c \in Holders(u)
    BY <1>1, <1>2, RetentionAssumption DEF RetInv, BoundWhileOpen, Holders
<1>4. gone \in SUBSET Session
    BY DEF Released
<1>5. /\ left \in Rows /\ left.sessions = db.sessions \ gone
      /\ left.presence = db.presence /\ left.account = db.account /\ left.seen = db.seen
    BY <1>2, <1>4, SessionFacts
<1>6. \A v \in Identity : Holders(v)' = IF v = u THEN Holders(v) \ {c} ELSE Holders(v)
    BY <1>1, <1>2, <1>3, RetentionAssumption DEF Holders
<1>7. /\ \A s \in Session : room[s] = c => s \in gone
      /\ last => \A s \in Session : InRoom(s) /\ u \in {s[1], s[2]} => s \in gone
    BY <1>3 DEF RetInv, RoomsHeld, Released
<1>8. (* what the two cases make of presence and accounts *)
      /\ db' \in Rows /\ db'.sessions = db.sessions \ gone /\ db'.seen = db.seen
      /\ \A v \in Identity : ~(v = u /\ last) => db'.presence[v] = db.presence[v]
      /\ last => \/ db'.presence[u] = 0
                 \/ u \in Temporary /\ db'.presence[u] = Missing
      /\ \A a \in Account : \/ db'.account[a] = db.account[a]
                            \/ /\ last /\ a = u /\ u \in Temporary
                               /\ \A w \in db'.sessions : ~Names(w, u)
      /\ route' \in [Identity -> Conn \cup {NoConn}]
      /\ online' = IF last THEN online \ {u} ELSE online
    <2>1. CASE last
        <3>1. /\ route' = [route EXCEPT ![u] = NoConn]
              /\ online' = online \ {u}
              /\ db' = RemoveTemporary(SetOffline(left, u), u)
            BY <1>3, <2>1 DEF Cleanup, Release
        <3>2. route' \in [Identity -> Conn \cup {NoConn}]
            BY <1>2, <3>1
        <3> HIDE DEF left
        <3>3. /\ db' \in Rows /\ db'.sessions = left.sessions /\ db'.seen = left.seen
              /\ \A v \in Identity : v # u => db'.presence[v] = left.presence[v]
              /\ db'.presence[u] = 0 \/ (u \in Temporary /\ db'.presence[u] = Missing)
              /\ \A a \in Account : db'.account[a] = left.account[a]
                    \/ (a = u /\ u \in Temporary /\ db'.account[a] = Missing
                         /\ \A w \in left.sessions : ~Names(w, u))
            BY <1>3, <1>5, <3>1, LogoutFacts
        <3> HIDE DEF gone, last
        <3> QED
            BY <1>5, <2>1, <3>1, <3>2, <3>3
    <2>2. CASE ~last
        <3>1. /\ \E o \in Holders(u) \ {c} :
                    route' = [route EXCEPT ![u] = IF @ = c THEN o ELSE @]
              /\ db' = left /\ online' = online
            BY <1>3, <2>2 DEF Cleanup, Release
        <3>2. route' \in [Identity -> Conn \cup {NoConn}]
            BY <1>2, <3>1 DEF Holders
        <3> HIDE DEF left, gone, last
        <3> QED
            BY <1>5, <2>2, <3>1, <3>2
    <2> QED
        BY <2>1, <2>2
<1> HIDE DEF left
<1>9. RetentionTypeOK'
    <2>1. phase' \in [Conn -> {"open", "closing", "expired", "gone"}]
        BY <1>1, <1>2
    <2>2. bound' \in [Conn -> Identity \cup {NoUser}]
        BY <1>1, <1>2
    <2>3. room' \in [Session -> Conn \cup {NoConn, Routed, Ticketed}]
        BY <1>1, <1>2
    <2>4. online' \subseteq Account
        BY <1>2, <1>8
    <2> QED
        BY <1>1, <1>8, <2>1, <2>2, <2>3, <2>4 DEF RetInv, RetentionTypeOK, Rows
<1>10. OnlineExact'
    <2>1. \A v \in Identity : db'.presence[v] = Online <=> Holders(v)' # {}
        <3> SUFFICES ASSUME NEW v \in Identity
                     PROVE  db'.presence[v] = Online <=> Holders(v)' # {}
            OBVIOUS
        <3>1. db.presence[v] = Online <=> Holders(v) # {}
            BY <1>1 DEF RetInv, OnlineExact
        <3>2. CASE v # u
            BY <1>6, <1>8, <3>1, <3>2
        <3>3. CASE v = u /\ last
            BY <1>3, <1>6, <1>8, <3>3, AgeFacts
        <3>4. CASE v = u /\ ~last
            BY <1>3, <1>6, <1>8, <3>1, <3>4
        <3> QED
            BY <3>2, <3>3, <3>4
    <2>2. online = {v \in Account : Holders(v) # {}} /\ Account \subseteq Identity
        BY <1>1 DEF RetInv, OnlineExact, Identity
    <2>3. last => Holders(u)' = {}
        BY <1>3, <1>6
    <2>4. ~last => Holders(u)' # {} /\ Holders(u) # {}
        BY <1>3, <1>6
    <2> HIDE DEF last
    <2>5. online' = {v \in Account : Holders(v)' # {}}
        BY <1>6, <1>8, <2>2, <2>3, <2>4
    <2> QED
        BY <2>1, <2>5 DEF OnlineExact
<1>11. BoundWhileOpen'
    BY <1>1, <1>2 DEF RetInv, BoundWhileOpen
<1>12. RoomsHeld'
    <2> SUFFICES ASSUME NEW s \in Session, s \notin gone
                 PROVE  /\ room[s] \in Conn => bound'[room[s]] = s[2] /\ Holders(s[1])' # {}
                        /\ room[s] \in {Routed, Ticketed} => s \in db'.sessions
        BY <1>1, RetentionAssumption DEF RoomsHeld
    <2>1. s[1] \in Identity
        BY SessionEnds
    <2>2. /\ room[s] \in Conn => bound[room[s]] = s[2] /\ Holders(s[1]) # {}
          /\ room[s] \in {Routed, Ticketed} => s \in db.sessions
        BY DEF RetInv, RoomsHeld
    <2>3. room[s] # c
        BY <1>7
    <2>4. ASSUME room[s] \in Conn
          PROVE  Holders(s[1])' # {}
        <3>1. CASE s[1] # u
            BY <1>6, <2>1, <2>2, <2>4, <3>1
        <3>2. CASE s[1] = u
            <4>1. ~last
                BY <1>7, <2>4, <3>2 DEF InRoom
            <4> QED
                BY <1>3, <1>6, <3>2, <4>1
        <3> QED
            BY <3>1, <3>2
    <2> QED
        BY <1>1, <1>2, <1>8, <2>2, <2>3, <2>4
<1>13. AgesTold'
    <2> SUFFICES ASSUME NEW d \in Device PROVE Remembered(db', d) => Told(db', idle[d], d)
        BY <1>1 DEF AgesTold
    <2>1. d \in Account /\ d \in Family(d) /\ Family(d) \subseteq Identity /\ d \notin Temporary
        BY Families, RetentionAssumption DEF Account, Family
    <2>2. db'.account[d] = db.account[d]
        BY <1>8, <2>1
    <2>3. CASE last /\ u \in Family(d)
        <3>1. u \notin Temporary
            BY <1>3, <2>1, <2>3, Families
        <3>2. db'.presence[u] = 0
            BY <1>8, <2>3, <3>1
        <3>3. idle[d] \in Nat
            BY AgeFacts DEF RetInv, RetentionTypeOK
        <3>4. 0 \in 0..idle[d]
            BY <3>3, SMT
        <3> QED
            BY <2>3, <3>2, <3>4 DEF Told
    <2>4. CASE ~(last /\ u \in Family(d))
        <3>1. \A v \in Family(d) : db'.presence[v] = db.presence[v]
            BY <1>8, <2>1, <2>4
        <3> QED
            BY <2>1, <2>2, <3>1 DEF RetInv, AgesTold, Told, Remembered
    <2> QED
        BY <2>3, <2>4
<1>14. SeenKept' /\ RowsKept
    BY <1>1, <1>8 DEF RetInv, SeenKept, RowsKept
<1>15. Spares
    <2> SUFFICES ASSUME NEW d \in Account, db.account[d] # Missing, db'.account[d] = Missing
                 PROVE  /\ \A o \in Conn : bound'[o] \notin Family(d)
                        /\ \A s \in Session :
                              Names(s, d) => room'[s] = NoConn /\ s \notin db'.sessions
                        /\ d \notin Device
        BY DEF Spares
    <2>1. last /\ d = u /\ u \in Temporary /\ \A w \in db'.sessions : ~Names(w, u)
        BY <1>8
    <2>2. \A v \in Identity : Base(v) = u <=> v = u
        BY <2>1, Families
    <2>3. \A o \in Conn : bound'[o] \notin Family(d)
        BY <1>1, <1>2, <1>3, <2>1, <2>2 DEF Family, Holders
    <2>4. ASSUME NEW s \in Session, Names(s, d)
          PROVE  room'[s] = NoConn /\ s \notin db'.sessions
        <3>1. s \notin db'.sessions
            BY <2>1, <2>4
        <3>2. u \in {s[1], s[2]}
            BY <2>1, <2>2, <2>4, SessionEnds DEF Names
        <3>3. CASE s \in gone
            BY <1>1, <3>1, <3>3
        <3>4. CASE s \notin gone
            <4>1. room'[s] = room[s] /\ s \notin db.sessions
                BY <1>1, <1>8, <3>1, <3>4
            <4>2. room[s] \notin {Routed, Ticketed}
                BY <4>1 DEF RetInv, RoomsHeld
            <4>3. room[s] \notin Conn
                BY <1>7, <2>1, <3>2, <3>4 DEF InRoom
            <4> QED
                BY <1>2, <3>1, <4>1, <4>2, <4>3
        <3> QED
            BY <3>3, <3>4
    <2>5. d \notin Device
        BY <2>1, RetentionAssumption
    <2> QED
        BY <2>3, <2>4, <2>5
<1> QED
    BY <1>9, <1>10, <1>11, <1>12, <1>13, <1>14, <1>15 DEF Step, RetInv

-----------------------------------------------------------------------------
(* Time, and the life of the process. *)

(* Rows and the last use age together. *)
LEMMA TickStep == ASSUME RetInv, Tick PROVE Step
<1> DEFINE f == [u \in Account |-> IF db.presence[u] = Missing THEN Older(db.account[u])
                                  ELSE db.account[u]]
           g == [u \in Identity |-> Older(db.presence[u])]
           x == IF up THEN 0 ELSE Older(db.seen)
<1>1. /\ db' = [db EXCEPT !.account = f, !.presence = g, !.seen = x]
      /\ idle' = [d \in Device |->
            IF up /\ \E c \in Conn : bound[c] \in Family(d) THEN 0 ELSE Older(idle[d])]
      /\ UNCHANGED <<up, stopping, admin, checkpoint, phase, bound, route, room, online, prune>>
    BY DEF Tick, process, memory
<1>2. db \in Rows /\ idle \in [Device -> Age]
    BY DbTyped DEF RetInv, RetentionTypeOK
<1>3. /\ f \in [Account -> Age \cup {Missing}]
      /\ g \in [Identity -> Age \cup {Missing, Online}]
      /\ x \in Age
    <2>1. /\ \A u \in Account : db.account[u] \in Age \cup {Missing}
          /\ \A u \in Identity : db.presence[u] \in Age \cup {Missing, Online}
          /\ db.seen \in Age
        BY <1>2 DEF Rows
    <2>2. \A u \in Account : f[u] \in Age \cup {Missing}
        BY <2>1, OlderFacts
    <2>3. \A u \in Identity : g[u] \in Age \cup {Missing, Online}
        BY <2>1, OlderFacts
    <2>4. x \in Age
        BY <2>1, OlderFacts, AgeFacts
    <2> QED
        BY <2>2, <2>3, <2>4
<1>4. /\ \A u \in Account : f[u] = Older(db.account[u]) \/ (db.presence[u] # Missing /\ f[u] = db.account[u])
      /\ \A u \in Identity : g[u] = Older(db.presence[u])
      /\ up => x = 0
      /\ ~up => x = Older(db.seen)
    OBVIOUS
<1> HIDE DEF f, g, x
<1>5. /\ db' \in Rows /\ db'.account = f /\ db'.presence = g
      /\ db'.sessions = db.sessions /\ db'.seen = x
    BY <1>1, <1>2, <1>3, Zenon DEF Rows
<1>6. /\ \A u \in Identity : db'.presence[u] = Online <=> db.presence[u] = Online
      /\ \A u \in Identity : db'.presence[u] = Missing <=> db.presence[u] = Missing
      /\ \A u \in Account : db'.account[u] = Missing <=> db.account[u] = Missing
    BY <1>2, <1>4, <1>5, OlderFacts DEF Rows
<1>7. RetentionTypeOK'
    <2>1. idle' \in [Device -> Age]
        BY <1>1, <1>2, OlderFacts, AgeFacts
    <2> QED
        BY <1>1, <1>5, <2>1 DEF RetInv, RetentionTypeOK, Rows
<1>8. OnlineExact'
    BY <1>1, <1>6 DEF RetInv, OnlineExact, Holders
<1>9. BoundWhileOpen' /\ RoomsHeld' /\ RowsKept /\ Spares
    BY <1>1, <1>5, <1>6 DEF RetInv, BoundWhileOpen, RoomsHeld, RowsKept, Spares, Holders
<1>10. AgesTold'
    <2> SUFFICES ASSUME NEW d \in Device, Remembered(db', d) PROVE Told(db', idle'[d], d)
        BY DEF AgesTold
    <2>1. d \in Account /\ d \in Identity /\ Family(d) \subseteq Identity
        BY Families DEF Account, Identity, Family
    <2>2. Told(db, idle[d], d)
        BY <1>6, <2>1 DEF RetInv, AgesTold, Remembered
    <2>3. CASE \E u \in Family(d) : db.presence[u] = Online
        BY <1>6, <2>1, <2>3 DEF Told
    <2>4. CASE \A u \in Family(d) : db.presence[u] # Online
        <3>1. ~(up /\ \E c \in Conn : bound[c] \in Family(d))
            BY <2>1, <2>4 DEF RetInv, OnlineExact, Holders
        <3>2. idle'[d] = Older(idle[d]) /\ idle[d] \in Age
            BY <1>1, <1>2, <3>1
        <3>3. ASSUME NEW a \in 0..idle[d]
              PROVE  Older(a) \in 0..idle'[d] /\ a \in Age
            <4>1. idle[d] \in 0..Horizon /\ Horizon \in Nat
                BY <3>2, AgeFacts DEF Age
            <4>2. a \in Age /\ a <= idle[d]
                BY <4>1, SMT DEF Age
            <4>3. /\ Older(a) <= Older(idle[d])
                  /\ Older(a) \in Nat /\ Older(idle[d]) \in Nat
                BY <3>2, <4>2, OlderFacts, AgeFacts
            <4>4. Older(a) \in 0..Older(idle[d])
                BY <4>3, SMT
            <4> QED
                BY <3>2, <4>2, <4>4
        <3>4. CASE \E u \in Family(d) : db.presence[u] \in 0..idle[d]
            BY <1>4, <1>5, <2>1, <3>3, <3>4 DEF Told
        <3>5. CASE db.presence[d] = Missing /\ db.account[d] \in 0..idle[d]
            <4>1. db'.presence[d] = Missing
                BY <1>6, <2>1, <3>5
            <4>2. db'.account[d] = Older(db.account[d])
                BY <1>4, <1>5, <2>1, <3>5
            <4>3. Older(db.account[d]) \in 0..idle'[d]
                BY <3>3, <3>5
            <4> QED
                BY <4>1, <4>2, <4>3 DEF Told
        <3> QED
            BY <2>2, <2>4, <3>4, <3>5 DEF Told
    <2> QED
        BY <2>3, <2>4
<1>11. SeenKept'
    <2>1. CASE up
        BY <1>1, <1>4, <1>5, <2>1 DEF SeenKept
    <2>2. CASE ~up
        <3> SUFFICES ASSUME NEW d \in Device, NEW u \in Family(d), db'.presence[u] = Online
                     PROVE  db'.seen <= idle'[d]
            BY <1>1, <2>2 DEF SeenKept
        <3>1. db.presence[u] = Online
            BY <1>6 DEF Family
        <3>2. db.seen <= idle[d] /\ db.seen \in Age /\ idle[d] \in Age
            BY <1>2, <2>2, <3>1 DEF RetInv, SeenKept, Rows
        <3>3. idle'[d] = Older(idle[d])
            BY <1>1, <2>2
        <3> QED
            BY <1>4, <1>5, <2>2, <3>2, <3>3, OlderFacts
    <2> QED
        BY <2>1, <2>2
<1> QED
    BY <1>7, <1>8, <1>9, <1>10, <1>11 DEF Step, RetInv

(* Of a job that ends sessions, or of one that shutdowns do not stop. *)
LEMMA TornEndsFacts ==
    ASSUME RetInv
    PROVE  /\ \A gone \in SUBSET Session : \A s \in PartlyEnded(gone) :
                 /\ Fills(db, s)
                 /\ \A w \in db.sessions \ s.sessions : w \in gone
           /\ \A s \in TornEnds :
                 /\ Fills(db, s)
                 /\ \A w \in db.sessions \ s.sessions :
                       \/ prune = "queued" /\ Disconnected(w)
                       \/ MayDisconnect(w[1])
<1>1. db \in Rows
    BY DbTyped DEF RetInv
<1>2. ASSUME NEW gone \in SUBSET Session, NEW s \in PartlyEnded(gone)
      PROVE  Fills(db, s) /\ \A w \in db.sessions \ s.sessions : w \in gone
    <2>1. PICK some \in SUBSET gone : s = EndSessions(db, some)
        BY <1>2 DEF PartlyEnded
    <2>2. some \in SUBSET Session
        OBVIOUS
    <2>3. /\ s \in Rows /\ s.sessions = db.sessions \ some
          /\ s.presence = db.presence /\ s.account = db.account /\ s.seen = db.seen
        BY <1>1, <2>1, <2>2, SessionFacts
    <2> QED
        BY <2>3 DEF Fills
<1>3. ASSUME NEW s \in TornEnds
      PROVE  /\ Fills(db, s)
             /\ \A w \in db.sessions \ s.sessions :
                   \/ prune = "queued" /\ Disconnected(w)
                   \/ MayDisconnect(w[1])
    <2>1. \/ prune = "queued" /\ s \in PartlyEnded({w \in Session : Disconnected(w)})
          \/ \E h \in Device \cup Clone : MayDisconnect(h) /\ s \in PartlyEnded(RoomOf(h))
        BY DEF TornEnds
    <2>2. CASE prune = "queued" /\ s \in PartlyEnded({w \in Session : Disconnected(w)})
        <3>1. {w \in Session : Disconnected(w)} \in SUBSET Session
            OBVIOUS
        <3> QED
            BY <1>2, <2>2, <3>1
    <2>3. ASSUME NEW h \in Device \cup Clone, MayDisconnect(h), s \in PartlyEnded(RoomOf(h))
          PROVE  Fills(db, s) /\ \A w \in db.sessions \ s.sessions : MayDisconnect(w[1])
        <3>1. RoomOf(h) \in SUBSET Session /\ \A w \in RoomOf(h) : w[1] = h
            BY DEF RoomOf
        <3> QED
            BY <1>2, <2>3, <3>1
    <2> QED
        BY <2>1, <2>2, <2>3
<1> QED
    BY <1>2, <1>3

(* What the statements before a crash may have done to the rows. *)
LEMMA TornKeeps ==
    ASSUME RetInv, up, NEW s \in TornEnds \cup Torn
    PROVE  /\ s \in Rows /\ s.seen = db.seen
           /\ \A a \in Account : s.account[a] = Missing => db.account[a] = Missing
           /\ \A d \in Device : Remembered(s, d) => Told(s, idle[d], d)
<1>1. db \in Rows /\ idle \in [Device -> Age] /\ AgesTold
    BY DbTyped DEF RetInv, RetentionTypeOK
<1>2. ASSUME NEW c \in Conn, s \in PartlyEnded(Released(c))
      PROVE  Fills(db, s)
    <2>1. Released(c) \in SUBSET Session
        BY DEF Released
    <2> QED
        BY <1>2, <2>1, TornEndsFacts
<1>3. ASSUME NEW c \in Conn, phase[c] \in {"closing", "expired"},
             s = SetOffline(EndSessions(db, Released(c)), bound[c])
      PROVE  /\ s \in Rows /\ s.seen = db.seen /\ s.account = db.account
             /\ \A d \in Device : Remembered(s, d) => Told(s, idle[d], d)
    <2>1. PICK u \in Identity : u = bound[c]
        BY <1>3, RetentionAssumption DEF RetInv, RetentionTypeOK, BoundWhileOpen
    <2>2. PICK left \in Rows :
             /\ left = EndSessions(db, Released(c))
             /\ left.presence = db.presence /\ left.account = db.account /\ left.seen = db.seen
        <3>1. Released(c) \in SUBSET Session
            BY DEF Released
        <3> QED
            BY <1>1, <3>1, SessionFacts
    <2>3. /\ s \in Rows /\ s.presence = [db.presence EXCEPT ![u] = 0]
          /\ s.account = db.account /\ s.seen = db.seen
        <3>1. s = SetOffline(left, u)
            BY <1>3, <2>1, <2>2
        <3>2. /\ SetOffline(left, u) \in Rows
              /\ SetOffline(left, u).presence = [left.presence EXCEPT ![u] = 0]
              /\ SetOffline(left, u).account = left.account
              /\ SetOffline(left, u).seen = left.seen
            BY SetPresence
        <3> QED
            BY <2>2, <3>1, <3>2
    <2>4. ASSUME NEW d \in Device, Remembered(s, d)
          PROVE  Told(s, idle[d], d)
        <3>1. d \in Family(d) /\ Family(d) \subseteq Identity
            BY Families DEF Account, Family
        <3>2. idle[d] \in Nat
            BY <1>1, AgeFacts
        <3>3. 0 \in 0..idle[d]
            BY <3>2, SMT
        <3>4. \A v \in Identity : s.presence[v] = IF v = u THEN 0 ELSE db.presence[v]
            BY <1>1, <2>3 DEF Rows
        <3>5. CASE u \in Family(d)
            BY <3>3, <3>4, <3>5 DEF Told
        <3>6. CASE u \notin Family(d)
            <4>1. \A v \in Family(d) : s.presence[v] = db.presence[v]
                BY <3>1, <3>4, <3>6
            <4> QED
                BY <1>1, <2>3, <2>4, <3>1, <4>1 DEF AgesTold, Told, Remembered
        <3> QED
            BY <3>5, <3>6
    <2> QED
        BY <2>3, <2>4
<1>4. ASSUME NEW u \in Device, NEW some \in SUBSET Device, db.account[u] = Missing,
             s = EnsurePresence(NewAccount(u), some)
      PROVE  /\ s \in Rows /\ s.seen = db.seen
             /\ \A a \in Account : s.account[a] = Missing => db.account[a] = Missing
             /\ \A d \in Device : Remembered(s, d) => Told(s, idle[d], d)
    <2>1. u \in Account
        BY DEF Account
    <2>2. PICK n \in Rows :
             /\ n = NewAccount(u) /\ n.account = [db.account EXCEPT ![u] = 0]
             /\ n.presence = db.presence /\ n.seen = db.seen
        BY <1>1, <2>1, AccountFacts
    <2>3. /\ s \in Rows /\ s.account = n.account /\ s.seen = n.seen
          /\ \A v \in Identity : s.presence[v] =
                IF v \in some /\ n.presence[v] = Missing THEN 0 ELSE n.presence[v]
        BY <1>4, <2>2, EnsureFacts
    <2>4. Fills(n, s)
        BY <2>3 DEF Fills
    <2>5. ASSUME NEW d \in Device
          PROVE  Remembered(s, d) => Told(s, idle[d], d)
        <3>1. Remembered(n, d) => Told(n, idle[d], d)
            BY <1>1, <2>1, <2>2, NewTold
        <3> QED
            BY <1>1, <2>4, <3>1, FillTold
    <2>6. \A a \in Account : s.account[a] = Missing => db.account[a] = Missing
        BY <1>1, <2>2, <2>3, AgeFacts DEF Rows
    <2> QED
        BY <2>2, <2>3, <2>5, <2>6
<1>5. ASSUME Fills(db, s)
      PROVE  \A d \in Device : Remembered(s, d) => Told(s, idle[d], d)
    BY <1>1, <1>5, FillTold DEF AgesTold
<1>6. CASE \E c \in {o \in Conn : phase[o] \in {"closing", "expired"}} :
              \/ s \in PartlyEnded(Released(c))
              \/ s = SetOffline(EndSessions(db, Released(c)), bound[c])
    BY <1>2, <1>3, <1>5, <1>6 DEF Fills
<1>7. CASE \E u \in Device, some \in SUBSET Device :
              db.account[u] = Missing /\ s = EnsurePresence(NewAccount(u), some)
    BY <1>4, <1>7
<1>8. CASE s \in TornEnds
    BY <1>5, <1>8, TornEndsFacts DEF Fills
<1> QED
    BY <1>6, <1>7, <1>8 DEF Torn

(* Memory is lost, and the last heartbeat is now. *)
LEMMA ExitStep == ASSUME RetInv, Exit PROVE Step
<1>1. /\ up /\ ~up' /\ stopping' = FALSE /\ checkpoint' = {} /\ prune' = "armed"
      /\ phase' = [c \in Conn |-> "gone"]
      /\ bound' = [c \in Conn |-> NoUser]
      /\ route' = [u \in Identity |-> NoConn]
      /\ room' = [s \in Session |-> NoConn]
      /\ online' = {} /\ up' = FALSE /\ idle' = idle
      /\ admin' = TRUE
      /\ db' = db \/ db' \in TornEnds \/ (~stopping /\ db' \in Torn)
    BY DEF Exit
<1>2. /\ db' \in Rows /\ db'.seen = db.seen
      /\ \A a \in Account : db'.account[a] = Missing => db.account[a] = Missing
      /\ \A d \in Device : Remembered(db', d) => Told(db', idle[d], d)
    <2>1. CASE db' = db
        BY <2>1, DbTyped DEF RetInv, AgesTold
    <2>2. CASE db' \in TornEnds \cup Torn
        BY <1>1, <2>2, TornKeeps
    <2> QED
        BY <1>1, <2>1, <2>2
<1>3. RetentionTypeOK'
    BY <1>1, <1>2 DEF RetInv, RetentionTypeOK, Rows
<1>4. OnlineExact' /\ BoundWhileOpen'
    BY <1>1 DEF OnlineExact, BoundWhileOpen
<1>5. RoomsHeld'
    BY <1>1, RetentionAssumption DEF RoomsHeld
<1>6. AgesTold'
    BY <1>1, <1>2 DEF AgesTold
<1>7. SeenKept'
    <2>1. \A d \in Device : idle[d] \in Nat
        BY AgeFacts DEF RetInv, RetentionTypeOK
    <2>2. db'.seen = 0
        BY <1>1, <1>2 DEF RetInv, SeenKept
    <2>3. \A d \in Device : db'.seen <= idle'[d]
        BY <1>1, <2>1, <2>2, SMT
    <2> QED
        BY <1>1, <2>3 DEF SeenKept
<1>8. Spares
    BY <1>2 DEF Spares
<1>9. RowsKept
    <2>1. CASE db' = db \/ ~stopping
        BY <1>1, <2>1 DEF RowsKept
    <2>2. CASE db' \in TornEnds
        BY <2>2, TornEndsFacts DEF RowsKept
    <2> QED
        BY <1>1, <2>1, <2>2
<1> QED
    BY <1>3, <1>4, <1>5, <1>6, <1>7, <1>8, <1>9 DEF Step, RetInv

(* Whoever was online becomes as old as the last heartbeat. *)
LEMMA StartStep ==
    ASSUME RetInv, NEW routed \in SUBSET Session, Start(routed)
    PROVE  Step
<1> DEFINE kept == IF Recoverable(db) THEN db.sessions ELSE {}
           g == [u \in Identity |-> IF db.presence[u] = Online THEN db.seen ELSE db.presence[u]]
<1>1. /\ ~up /\ up' = TRUE /\ routed \subseteq kept
      /\ room' = [s \in Session |-> IF s \in routed THEN Routed
                                    ELSE IF s \in kept THEN Ticketed ELSE NoConn]
      /\ db' = [db EXCEPT !.sessions = kept, !.presence = g, !.seen = 0]
      /\ UNCHANGED <<stopping, admin, phase, bound, route, online, prune, idle, checkpoint>>
    BY DEF Start
<1>2. db \in Rows /\ db.seen \in Age
    BY DbTyped DEF RetInv, Rows
<1>3. kept \in SUBSET Session /\ kept \subseteq db.sessions
    BY <1>2 DEF Rows
<1>4. g \in [Identity -> Age \cup {Missing, Online}]
    BY <1>2 DEF Rows
<1>5. \A u \in Identity : g[u] = IF db.presence[u] = Online THEN db.seen ELSE db.presence[u]
    OBVIOUS
<1>6. db.seen > Window \/ kept = db.sessions
    <2>1. db.seen \in Nat /\ Window \in Nat
        BY <1>2, AgeFacts
    <2>2. db.seen > Window \/ db.seen <= Window
        BY <2>1, SMT
    <2> QED
        BY <2>2 DEF Recoverable
<1> HIDE DEF g, kept
<1>7. /\ db' \in Rows /\ db'.sessions = kept /\ db'.presence = g /\ db'.seen = 0
      /\ db'.account = db.account
    BY <1>1, <1>2, <1>3, <1>4, AgeFacts, Zenon DEF Rows
<1>8. RetentionTypeOK'
    <2>1. room' \in [Session -> Conn \cup {NoConn, Routed, Ticketed}]
        BY <1>1
    <2> QED
        BY <1>1, <1>7, <2>1 DEF RetInv, RetentionTypeOK, Rows
<1>9. \A u \in Identity : Holders(u) = {} /\ Holders(u)' = {} /\ online' = {}
    BY <1>1, RetentionAssumption DEF RetInv, BoundWhileOpen, Holders
<1>10. OnlineExact'
    <2>1. \A u \in Identity : db'.presence[u] # Online
        BY <1>2, <1>5, <1>7, AgeFacts
    <2>2. online' = {u \in Account : Holders(u)' # {}}
        BY <1>1, <1>9 DEF RetInv, BoundWhileOpen, Identity
    <2> QED
        BY <1>9, <2>1, <2>2 DEF OnlineExact
<1>11. BoundWhileOpen'
    BY <1>1 DEF RetInv, BoundWhileOpen
<1>12. RoomsHeld'
    BY <1>1, <1>7, RetentionAssumption DEF RoomsHeld
<1>13. AgesTold'
    <2> SUFFICES ASSUME NEW d \in Device, Remembered(db', d) PROVE Told(db', idle[d], d)
        BY <1>1 DEF AgesTold
    <2>1. d \in Identity /\ Family(d) \subseteq Identity
        BY Families DEF Account, Identity, Family
    <2>2. \A u \in Identity : db'.presence[u] = Missing <=> db.presence[u] = Missing
        BY <1>2, <1>5, <1>7, AgeFacts
    <2>3. Told(db, idle[d], d)
        BY <1>7, <2>1, <2>2 DEF RetInv, AgesTold, Remembered
    <2>4. ASSUME NEW u \in Family(d), db.presence[u] = Online
          PROVE  db'.presence[u] \in 0..idle[d]
        <3>1. db.seen <= idle[d]
            BY <1>1, <2>4 DEF RetInv, SeenKept
        <3>2. db.seen \in Nat /\ idle[d] \in Nat
            BY <1>2, AgeFacts DEF RetInv, RetentionTypeOK
        <3>3. db.seen \in 0..idle[d]
            BY <3>1, <3>2, SMT
        <3> QED
            BY <1>5, <1>7, <2>1, <2>4, <3>3
    <2>5. ASSUME NEW u \in Family(d), db.presence[u] # Online
          PROVE  db'.presence[u] = db.presence[u]
        BY <1>5, <1>7, <2>1, <2>5
    <2>6. \A u \in Family(d) : db.presence[u] \in 0..idle[d] => db'.presence[u] \in 0..idle[d]
        BY <2>4, <2>5
    <2> QED
        BY <1>7, <2>1, <2>2, <2>3, <2>4, <2>6 DEF Told
<1>14. SeenKept' /\ Spares /\ RowsKept
    BY <1>1, <1>6, <1>7 DEF SeenKept, Spares, RowsKept
<1> QED
    BY <1>8, <1>10, <1>11, <1>12, <1>13, <1>14 DEF Step, RetInv

-----------------------------------------------------------------------------
(* The invariant. *)

LEMMA InitRet == Init => RetInv
<1> SUFFICES ASSUME Init PROVE RetInv
    OBVIOUS
<1>1. /\ up = TRUE /\ stopping = FALSE /\ admin = TRUE
      /\ phase = [c \in Conn |-> "gone"]
      /\ bound = [c \in Conn |-> NoUser]
      /\ route = [u \in Identity |-> NoConn]
      /\ room = [s \in Session |-> NoConn]
      /\ online = {} /\ prune = "armed" /\ checkpoint = {}
      /\ db = [account  |-> [u \in Account |-> Missing],
               presence |-> [u \in Identity |-> Missing],
               sessions |-> {},
               seen     |-> 0]
      /\ idle = [d \in Device |-> 0]
    BY DEF Init
<1>2. RetentionTypeOK
    BY <1>1, AgeFacts DEF RetentionTypeOK
<1>3. \A u \in Identity : Holders(u) = {} /\ db.presence[u] # Online
    BY <1>1, RetentionAssumption, AgeFacts DEF Holders
<1>4. OnlineExact
    BY <1>1, <1>3 DEF OnlineExact, Identity
<1>5. BoundWhileOpen
    BY <1>1 DEF BoundWhileOpen
<1>6. RoomsHeld
    BY <1>1, RetentionAssumption DEF RoomsHeld
<1>7. AgesTold
    BY <1>1 DEF AgesTold, Remembered, Account, Family
<1>8. SeenKept
    BY <1>1 DEF SeenKept
<1> QED
    BY <1>2, <1>4, <1>5, <1>6, <1>7, <1>8 DEF RetInv

LEMMA NextStep == ASSUME RetInv, [Next]_vars PROVE Step
<1>1. CASE UNCHANGED vars
    <2>1. UNCHANGED <<up, stopping, admin, phase, bound, route, room, online, db, prune, idle,
                      checkpoint>>
        BY <1>1 DEF vars
    <2>2. RetentionTypeOK' /\ BoundWhileOpen' /\ RoomsHeld'
        BY <2>1 DEF RetInv, RetentionTypeOK, BoundWhileOpen, RoomsHeld, Holders
    <2> QED
        BY <2>1, <2>2, Still
<1>2. ASSUME NEW c \in Conn, Close(c) \/ Expire(c) \/ Cleanup(c)
      PROVE  Step
    BY <1>2, PhaseStep, CleanupStep
<1>3. ASSUME NEW c \in Conn, NEW u \in Account, NEW freed \in BOOLEAN, Register(c, u, freed)
      PROVE  Step
    BY <1>3, RegisterStep
<1>4. ASSUME NEW c \in Conn, NEW u \in Identity, Login(c, u)
      PROVE  Step
    BY <1>4, LoginStep
<1>5. ASSUME NEW c \in Conn, NEW s \in Session, NEW written \in BOOLEAN,
             SessionStart(c, s, written)
      PROVE  Step
    BY <1>5, SessionStartStep
<1>6. ASSUME NEW s \in Session, SessionEnd(s) \/ RecoveryExpires(s)
      PROVE  Step
    BY <1>6, SessionEndStep, RecoveryExpiresStep
<1>7. ASSUME NEW temporary \in SUBSET Temporary, NEW devices \in SUBSET Account,
             RetentionJob(temporary, devices)
      PROVE  Step
    BY <1>7, RetentionJobStep
<1>8. ASSUME NEW d \in Subject, AdminQuery(d)
      PROVE  Step
    BY <1>8, AdminQueryStep
<1>9. ASSUME NEW d \in Subject, NEW scope \in {"history", "identity"}, AdminCleanup(d, scope)
      PROVE  Step
    BY <1>9, AdminCleanupStep
<1>10. ASSUME NEW routed \in SUBSET Session, Start(routed)
       PROVE  Step
    BY <1>10, StartStep
<1>11. ASSUME NEW h \in Device \cup Clone, AdminDisconnect(h)
       PROVE  Step
    BY <1>11, AdminDisconnectStep
<1>12. CASE PruneTimer \/ PruneJob \/ Tick \/ Stop \/ CloseConnections \/ Exit
    BY <1>12, PruneTimerStep, PruneJobStep, TickStep, StopStep, CloseConnectionsStep, ExitStep
<1> QED
    BY <1>1, <1>2, <1>3, <1>4, <1>5, <1>6, <1>7, <1>8, <1>9, <1>10, <1>11, <1>12 DEF Next

LEMMA Invariance == Spec => []RetInv
<1>1. RetInv /\ [Next]_vars => RetInv'
    BY NextStep DEF Step
<1> QED
    BY InitRet, <1>1, PTL DEF Spec

-----------------------------------------------------------------------------
(* Every value has its type: no statement leaves an age beyond the horizon   *)
(* or a room held by something that is no connection.                        *)
THEOREM RetentionTypes == Spec => []RetentionTypeOK
<1>1. RetInv => RetentionTypeOK
    BY DEF RetInv
<1> QED
    BY <1>1, Invariance, PTL

(* Presence in the database, the online sets and the logged-in connections   *)
(* agree, because the last connection of an identity is judged by the        *)
(* binding of connections and not by the one that happens to end.            *)
THEOREM PresenceExact == Spec => []OnlineExact
<1>1. RetInv => OnlineExact
    BY DEF RetInv
<1> QED
    BY <1>1, Invariance, PTL

(* The rows of a family are never all older than its last use, and whoever   *)
(* holds a room is logged in: what the retention job, the logout of a        *)
(* temporary controller and the administrator look up is enough to spare     *)
(* whoever is in use.                                                        *)
THEOREM RetentionSafe == Spec => RetentionSpares
<1>1. RetInv /\ [Next]_vars => [Spares]_vars
    BY NextStep DEF Step
<1>2. [Spares]_vars <=>
      [\A d \in Account : db.account[d] # Missing /\ db'.account[d] = Missing =>
          /\ \A c \in Conn : bound'[c] \notin Family(d)
          /\ \A s \in Session : Names(s, d) => room'[s] = NoConn /\ s \notin db'.sessions
          /\ d \in Device => idle[d] > Retention \/ AdminCleanup(d, "identity")]_vars
    BY DEF Spares
<1> QED
    BY <1>1, <1>2, Invariance, PTL DEF Spec, RetentionSpares

(* Once Stop has set stopping_, only the three jobs it may find queued, each *)
(* under its own condition, and a restart beyond the recovery window remove  *)
(* session rows; the administrator's not after the connections are closed.   *)
THEOREM ShutdownSafe == Spec => ShutdownKeepsSessions
<1>1. RetInv /\ [Next]_vars => [RowsKept]_vars
    BY NextStep DEF Step
<1>2. [RowsKept]_vars <=>
      [\A s \in db.sessions \ db'.sessions :
          \/ up /\ ~stopping
          \/ RecoveryExpires(s)
          \/ prune = "queued" /\ Disconnected(s) /\ (PruneJob \/ Exit)
          \/ MayDisconnect(s[1]) /\ (AdminDisconnect(s[1]) \/ Exit)
          \/ ~up /\ db.seen > Window]_vars
    BY DEF RowsKept
<1> QED
    BY <1>1, <1>2, Invariance, PTL DEF Spec, ShutdownKeepsSessions
=============================================================================
