------------------------- MODULE SessionRecoveryProofs -------------------------
(***************************************************************************)
(* What every reachable state of SessionRecovery satisfies, for any        *)
(* identities and connections and any number of tickets and crashes.       *)
(*                                                                         *)
(* The inductive invariant relates, pair by pair, what is kept of one      *)
(* session in five places: the guest list of the room, the session row,    *)
(* the ticket in memory, the persisted token and the legacy set.  Besides  *)
(* what RecoveryConsistent says, it needs that a session being recovered   *)
(* has no guest in its room yet, so that whatever ends guests spares it,   *)
(* and that a row names a room a restart will give a host.                 *)
(***************************************************************************)
EXTENDS SessionRecovery, TransmissionManagerProofs

OneAccount(t, g) ==
    /\ reg.ledger[t][g] = IF g \in reg.guests[t] \/ Recovering(t, g) THEN t ELSE NoUser
    /\ reg.ledger[t][g] # NoUser => t \notin Temporary /\ t # g
    /\ token[t][g] # 0 => reg.ledger[t][g] = t /\ Manages(t, g)
    /\ reg.ledger[t][g] # NoUser /\ Manages(t, g) => token[t][g] = ticket[t][g].tok
    /\ Recovering(t, g) => token[t][g] # 0 /\ <<t, g>> \notin legacy /\ g \notin reg.guests[t]

RecInv ==
    /\ RecoveryTypeOK
    /\ TablesInv(reg)
    /\ \A t, g \in User : OneAccount(t, g)

LEMMA TokenTypes ==
    /\ 0 \in Token \cup {0}
    /\ NoTicket \in Ticket
    /\ NoTicket.tok = 0
  BY DEF NoTicket, Ticket

LEMMA TriggeredFields ==
    ASSUME NEW rows, NEW tok \in [User -> [User -> Token \cup {0}]]
    PROVE  /\ Triggered(tok, rows) \in [User -> [User -> Token \cup {0}]]
           /\ \A t, g \in User :
                Triggered(tok, rows)[t][g] = IF rows[t][g] = NoUser THEN 0 ELSE tok[t][g]
  BY DEF Triggered

-----------------------------------------------------------------------------
(* Steps of the rooms that end sessions: the rows follow the guests, and no *)
(* connection is granted anything.                                          *)
Ending ==
    /\ TablesInv(reg')
    /\ RowsFollow(reg, reg')
    /\ \A t, g \in User : reg'.grant[t][g] \in {NoConn, reg.grant[t][g]}

LEMMA CleanupEnds ==
    ASSUME TablesInv(reg), NEW c \in Conn, Cleanup(c)
    PROVE  Ending
<1>1. PICK next \in Successors(reg, c) : reg' = ReleaseUserSession(reg, c, next)
  BY DEF Cleanup
<1>2. TablesInv(reg')
  BY <1>1, ReleaseUserSessionInv
<1>3. RowsFollow(reg, reg')
  BY <1>1, ReleaseUserSessionFollows
<1>4. \A t, g \in User : reg'.grant[t][g] \in {NoConn, reg.grant[t][g]}
  BY <1>1, ReleaseUserSessionFields
<1> QED BY <1>2, <1>3, <1>4 DEF Ending

LEMMA ReleaseGuestEnds ==
    ASSUME TablesInv(reg), NEW g \in User, NEW t \in Device, reg' = ReleaseGuest(reg, g, {t})
    PROVE  Ending
<1>1. {t} \in SUBSET User /\ reg \in Registry
  BY DEF TablesInv, User
<1>2. TablesInv(reg') /\ RowsFollow(reg, reg')
  BY <1>1, ReleaseGuestInv, ReleaseGuestFollows
<1>3. \A x, v \in User : reg'.grant[x][v] =
        IF x \in {t} /\ v = g /\ g \in reg.guests[x] THEN NoConn ELSE reg.grant[x][v]
  BY <1>1, ReleaseGuestFields
<1> QED BY <1>2, <1>3 DEF Ending

LEMMA ReleaseRoomsEnds ==
    ASSUME TablesInv(reg), NEW t \in Device, reg' = ReleaseRooms(reg, {t})
    PROVE  Ending
<1>1. {t} \in SUBSET User /\ reg \in Registry
  BY DEF TablesInv, User
<1>2. TablesInv(reg') /\ RowsFollow(reg, reg')
  BY <1>1, ReleaseRoomsInv, ReleaseRoomsFollows
<1>3. \A x, v \in User : reg'.grant[x][v] = IF x \in {t} THEN NoConn ELSE reg.grant[x][v]
  BY <1>1, ReleaseRoomsFields
<1> QED BY <1>2, <1>3 DEF Ending

LEMMA LeaveEnds ==
    ASSUME TablesInv(reg), NEW c \in Conn, NEW t \in Device, Leave(c, t)
    PROVE  Ending
<1>1. reg.user[c] \in User
  BY DEF Leave, IsConnectionInTransmission, TablesInv, Registry
<1> QED BY <1>1, ReleaseGuestEnds, ReleaseRoomsEnds DEF Leave

LEMMA PruneEnds ==
    ASSUME TablesInv(reg), Prune
    PROVE  Ending
<1>1. reg' = PruneDisconnected(reg, Live) /\ reg \in Registry
  BY DEF Prune, TablesInv
<1>2. TablesInv(reg') /\ RowsFollow(reg, reg')
  BY <1>1, PruneInv, PruneFollows
<1>3. \A t, g \in User : reg'.grant[t][g] # NoConn => reg'.grant[t][g] = reg.grant[t][g]
  BY <1>1, PruneFields
<1> QED BY <1>2, <1>3 DEF Ending

(* The administrator's disconnect also ends the rows of the room that have no *)
(* guest; the recovery refuses it while there are any.                        *)
LEMMA AdminEnds ==
    ASSUME RecInv, NEW t \in Device, OnAdminDisconnect(t)
    PROVE  Ending /\ phase' = phase /\ pruned' = pruned
<1> DEFINE s == Closed(t)
<1>1. /\ s = Closed(t) /\ t \in User /\ reg \in Registry /\ {t} \in SUBSET User
      /\ reg' = EndRoomRows(s, t) /\ phase' = phase /\ pruned' = pruned
  BY DEF OnAdminDisconnect, AdminDisconnect, Closed, User, RecInv, TablesInv
<1>2. \A g \in User : reg.ledger[t][g] # NoUser => ~Recovering(t, g)
  BY DEF OnAdminDisconnect
<1>3. TablesInv(s) /\ RowsFollow(reg, s) /\ s.guests[t] = {}
      /\ \A x, v \in User : s.grant[x][v] \in {NoConn, reg.grant[x][v]}
  <2>1. CASE reg.host[t] = NoUser
    <3>1. reg.guests[t] = {}
      BY <1>1, <2>1, IdentityAssumption DEF RecInv, TablesInv, RoomsHosted
    <3>2. RowsFollow(reg, reg)
      BY DEF RowsFollow
    <3> QED BY <2>1, <3>1, <3>2 DEF Closed, RecInv
  <2>2. CASE reg.host[t] # NoUser
    <3> HIDE DEF s
    <3>1. s = ReleaseRooms(reg, {t})
      BY <1>1, <2>2 DEF Closed
    <3>2. TablesInv(s) /\ RowsFollow(reg, s)
      BY <1>1, <3>1, ReleaseRoomsInv, ReleaseRoomsFollows DEF RecInv
    <3>3. /\ \A x \in User : s.guests[x] = IF x \in {t} THEN {} ELSE reg.guests[x]
          /\ \A x, v \in User : s.grant[x][v] = IF x \in {t} THEN NoConn ELSE reg.grant[x][v]
      BY <1>1, <3>1, ReleaseRoomsFields
    <3>4. s.guests[t] = {}
      BY <1>1, <3>3
    <3> QED BY <3>2, <3>3, <3>4
  <2> QED BY <2>1, <2>2
<1> HIDE DEF s
<1>4. /\ s.guests = reg'.guests /\ s.grant = reg'.grant
      /\ s.host = reg'.host /\ s.route = reg'.route /\ s.user = reg'.user
      /\ s.verified = reg'.verified /\ reg' \in Registry
      /\ \A x, g \in User : reg'.ledger[x][g] = IF x = t THEN NoUser ELSE s.ledger[x][g]
  <2>1. PICK z : z = reg'
    OBVIOUS
  <2>2. s \in Registry /\ t \in User /\ z = EndRoomRows(s, t)
    BY <1>1, <1>3, <2>1 DEF TablesInv
  <2>3. /\ z.guests = s.guests /\ z.grant = s.grant /\ z.host = s.host /\ z.route = s.route
        /\ z.user = s.user /\ z.verified = s.verified /\ z \in Registry
        /\ \A x, g \in User : z.ledger[x][g] = IF x = t THEN NoUser ELSE s.ledger[x][g]
    BY <2>2, EndRoomRowsFields, SMTT(40)
  <2> QED BY <2>1, <2>3
<1>5. TablesInv(reg')
  BY <1>3, <1>4 DEF TablesInv, RoutesCurrent, GrantsCurrent, RoomsHosted, KeysOwned
<1>6. \A g \in User : s.ledger[t][g] = NoUser
  <2> SUFFICES ASSUME NEW g \in User PROVE s.ledger[t][g] = NoUser
    OBVIOUS
  <2>1. OneAccount(t, g)
    BY <1>1 DEF RecInv
  <2>2. g \in reg.guests[t] \/ reg.ledger[t][g] = NoUser
    BY <1>2, <2>1 DEF OneAccount
  <2>3. s.ledger[t][g] = IF g \in reg.guests[t] /\ g \notin s.guests[t] THEN NoUser
                         ELSE reg.ledger[t][g]
    BY <1>1, <1>3 DEF RowsFollow
  <2> QED BY <1>3, <2>2, <2>3
<1>7. RowsFollow(reg, reg')
  BY <1>3, <1>4, <1>6 DEF RowsFollow
<1>8. \A x, v \in User : reg'.grant[x][v] \in {NoConn, reg.grant[x][v]}
  BY <1>3, <1>4
<1> QED BY <1>1, <1>5, <1>7, <1>8 DEF Ending

(* Such a step ends the token with the row, and leaves the recoveries alone. *)
LEMMA EndingStep ==
    ASSUME RecInv, Ending, EndsRows, phase' \in [Conn -> Phase], pruned' \in BOOLEAN
    PROVE  RecInv'
<1>1. /\ token' = Triggered(token, reg'.ledger)
      /\ ticket' = ticket /\ legacy' = legacy /\ capable' = capable /\ late' = late
      /\ issued' = issued /\ crashes' = crashes
  BY DEF EndsRows
<1>2. /\ token' \in [User -> [User -> Token \cup {0}]]
      /\ \A t, g \in User : token'[t][g] = IF reg'.ledger[t][g] = NoUser THEN 0 ELSE token[t][g]
  BY <1>1, TriggeredFields DEF RecInv, RecoveryTypeOK
<1>3. RecoveryTypeOK'
  BY <1>1, <1>2 DEF RecInv, RecoveryTypeOK, TypeOK, Ending, TablesInv
<1>4. ASSUME NEW t \in User, NEW g \in User PROVE OneAccount(t, g)'
  <2>1. OneAccount(t, g)
    BY DEF RecInv
  <2>2. (Manages(t, g)' <=> Manages(t, g)) /\ (Recovering(t, g)' <=> Recovering(t, g))
    BY <1>1 DEF Manages, Recovering
  <2>3. /\ g \in reg'.guests[t] => g \in reg.guests[t]
        /\ reg'.ledger[t][g] = IF g \in reg.guests[t] /\ g \notin reg'.guests[t] THEN NoUser
                               ELSE reg.ledger[t][g]
    BY DEF Ending, RowsFollow
  <2>4. token'[t][g] = IF reg'.ledger[t][g] = NoUser THEN 0 ELSE token[t][g]
    BY <1>2
  <2>5. t # NoUser
    BY IdentityAssumption
  <2> QED BY <1>1, <2>1, <2>2, <2>3, <2>4, <2>5 DEF OneAccount
<1> QED BY <1>3, <1>4 DEF RecInv, Ending

-----------------------------------------------------------------------------
(* Steps that end and start nothing. *)
LEMMA QuietStep ==
    ASSUME RecInv, TablesInv(reg'), reg'.guests = reg.guests, reg'.ledger = reg.ledger,
           token' = token, ticket' = ticket, legacy' \subseteq legacy,
           phase' \in [Conn -> Phase], pruned' \in BOOLEAN, capable' \subseteq Conn,
           late' \in BOOLEAN, issued' = issued, crashes' = crashes
    PROVE  RecInv'
<1>1. RecoveryTypeOK'
  BY DEF RecInv, RecoveryTypeOK, TypeOK, TablesInv
<1>2. ASSUME NEW t \in User, NEW g \in User PROVE OneAccount(t, g)'
  <2>1. OneAccount(t, g)
    BY DEF RecInv
  <2> QED BY <2>1 DEF OneAccount, Manages, Recovering
<1> QED BY <1>1, <1>2 DEF RecInv

LEMMA NetworkQuiet ==
    ASSUME RecInv, NEW c \in Conn, OnNetwork(c)
    PROVE  RecInv'
<1>1. /\ reg' = reg /\ pruned' = pruned /\ UNCHANGED recovery
      /\ \E p \in Phase : phase' = [phase EXCEPT ![c] = p]
  BY DEF OnNetwork, Accept, Close, Expire, Phase
<1>2. phase' \in [Conn -> Phase]
  BY <1>1 DEF RecInv, RecoveryTypeOK, TypeOK
<1> QED BY <1>1, <1>2, QuietStep DEF recovery, RecInv, RecoveryTypeOK, TypeOK

LEMMA DeadlineQuiet ==
    ASSUME RecInv, Deadline
    PROVE  RecInv'
  BY QuietStep DEF Deadline, vars, RecInv, RecoveryTypeOK, TypeOK

LEMMA LoginQuiet ==
    ASSUME RecInv, NEW c \in Conn, NEW u \in User, NEW k \in ProvedKey, NEW resume \in BOOLEAN,
           OnLogin(c, u, k, resume)
    PROVE  RecInv'
<1>1. Login(c, u, k) /\ k \in Device \cup {NoUser}
  BY BoundAssumption DEF OnLogin
<1>2. /\ TablesInv(reg')
      /\ phase' = phase /\ pruned' = pruned
      /\ reg'.guests = reg.guests /\ reg'.ledger = reg.ledger
  BY <1>1, LoginTables DEF RecInv
<1>3. /\ capable' = IF resume THEN capable \cup {c} ELSE capable \ {c}
      /\ legacy' = {p \in legacy : ~(u \in {p[1], p[2]} /\ ConfirmLegacy(reg', p))}
      /\ UNCHANGED <<token, ticket, late, issued, crashes>>
  BY DEF OnLogin
<1>4. legacy' \subseteq legacy /\ capable' \subseteq Conn
  BY <1>3 DEF RecInv, RecoveryTypeOK
<1> QED BY <1>2, <1>3, <1>4, QuietStep DEF RecInv, RecoveryTypeOK, TypeOK

-----------------------------------------------------------------------------
(* A join starts a session, with a fresh ticket or with none. *)
LEMMA JoinStarts ==
    ASSUME RecInv, NEW c \in Conn, NEW t \in Device, OnJoin(c, t)
    PROVE  RecInv'
<1> DEFINE g     == reg.user[c]
           ready == reg.route[t] \in capable /\ c \in capable
           tok   == IF ready THEN issued + 1 ELSE 0
           tick  == IF ready THEN [NoTicket EXCEPT !.tok = issued + 1] ELSE NoTicket
<1>0. \A x, v \in User : reg.ledger[x][v] \in {NoUser, x}
  BY DEF RecInv, OneAccount
<1>1. /\ TablesInv(reg') /\ phase' = phase /\ pruned' = pruned
      /\ t \in User /\ g \in User /\ g # t
      /\ \A x, v \in User : v \in reg'.guests[x] <=> v \in reg.guests[x] \/ (x = t /\ v = g)
      /\ \A x, v \in User : reg'.ledger[x][v] = IF x = t /\ v = g THEN t ELSE reg.ledger[x][v]
  BY <1>0, JoinTables DEF OnJoin, RecInv
<1>2. /\ ready => issued < MaxToken
      /\ legacy' = legacy \ {<<t, g>>}
      /\ issued' = IF ready THEN issued + 1 ELSE issued
      /\ ticket' = [ticket EXCEPT ![t][g] = tick]
      /\ token' = [token EXCEPT ![t][g] = IF ready THEN issued + 1
                                           ELSE IF Manages(t, g) THEN 0 ELSE token[t][g]]
      /\ UNCHANGED <<capable, late, crashes>>
  BY DEF OnJoin
<1>3. issued \in Nat /\ MaxToken \in Nat /\ issued \in 0..MaxToken
  BY BoundAssumption DEF RecInv, RecoveryTypeOK
<1>4. tok \in Token \cup {0} /\ (ready => issued + 1 \in Token /\ tok # 0) /\ issued' \in 0..MaxToken
  BY <1>2, <1>3 DEF Token
<1>5. /\ tick \in Ticket
      /\ tick.tok = tok /\ tick.recovering = FALSE
  BY <1>4 DEF NoTicket, Ticket
<1>6. OneAccount(t, g)
  BY <1>1 DEF RecInv
<1>7. token' = [token EXCEPT ![t][g] = tok]
  <2>1. CASE ready
    BY <1>2, <2>1
  <2>2. CASE ~ready /\ Manages(t, g)
    BY <1>2, <2>2
  <2>3. CASE ~ready /\ ~Manages(t, g)
    <3>1. token[t][g] = 0
      BY <1>6, <2>3 DEF OneAccount
    <3> QED BY <1>2, <2>3, <3>1
  <2> QED BY <2>1, <2>2, <2>3
<1> HIDE DEF tok, tick, ready, g
<1>8. /\ ticket' \in [User -> [User -> Ticket]]
      /\ token' \in [User -> [User -> Token \cup {0}]]
      /\ \A x, v \in User : ticket'[x][v] = IF x = t /\ v = g THEN tick ELSE ticket[x][v]
      /\ \A x, v \in User : token'[x][v] = IF x = t /\ v = g THEN tok ELSE token[x][v]
  BY <1>1, <1>2, <1>4, <1>5, <1>7 DEF RecInv, RecoveryTypeOK
<1>9. RecoveryTypeOK'
  BY <1>1, <1>2, <1>4, <1>8 DEF RecInv, RecoveryTypeOK, TypeOK, TablesInv
<1>10. ASSUME NEW x \in User, NEW v \in User PROVE OneAccount(x, v)'
  <2>1. CASE x = t /\ v = g
    <3>1. x \notin Temporary /\ x # NoUser /\ x # v
      BY <1>1, <2>1, IdentityAssumption
    <3>2. ticket'[x][v] = tick /\ token'[x][v] = tok /\ v \in reg'.guests[x] /\ reg'.ledger[x][v] = x
      BY <1>1, <1>8, <2>1
    <3>3. ~Recovering(x, v)'
      BY <1>5, <3>2 DEF Recovering
    <3>4. Manages(x, v)' <=> token'[x][v] # 0
      BY <1>5, <3>2 DEF Manages
    <3>5. token'[x][v] = ticket'[x][v].tok
      BY <1>5, <3>2
    <3> QED BY <3>1, <3>2, <3>3, <3>4, <3>5 DEF OneAccount
  <2>2. CASE <<x, v>> # <<t, g>>
    <3>1. /\ ticket'[x][v] = ticket[x][v] /\ token'[x][v] = token[x][v]
          /\ reg'.ledger[x][v] = reg.ledger[x][v]
          /\ (v \in reg'.guests[x] <=> v \in reg.guests[x])
          /\ (<<x, v>> \in legacy' <=> <<x, v>> \in legacy)
      BY <1>1, <1>2, <1>8, <2>2
    <3>2. OneAccount(x, v)
      BY DEF RecInv
    <3> QED BY <3>1, <3>2 DEF OneAccount, Manages, Recovering
  <2> QED BY <2>1, <2>2
<1> QED BY <1>1, <1>9, <1>10 DEF RecInv

-----------------------------------------------------------------------------
(* Reports. *)
LEMMA EndRowFields ==
    ASSUME NEW r \in Registry, NEW t \in User, NEW g \in User, NEW s, s = EndRow(r, t, g)
    PROVE  /\ s \in Registry
           /\ s.host = r.host /\ s.guests = r.guests /\ s.grant = r.grant
           /\ s.route = r.route /\ s.user = r.user /\ s.verified = r.verified
           /\ s.ledger = [r.ledger EXCEPT ![t] = [r.ledger[t] EXCEPT ![g] = NoUser]]
<1> DEFINE rows == [r.ledger EXCEPT ![t] = [r.ledger[t] EXCEPT ![g] = NoUser]]
<1>1. rows \in [User -> [User -> User \cup {NoUser}]]
  BY DEF Registry
<1>2. s = [r EXCEPT !.ledger = rows]
  BY DEF EndRow, Registry
<1> HIDE DEF rows
<1>3. /\ s \in Registry /\ s.ledger = rows
      /\ s.host = r.host /\ s.guests = r.guests /\ s.grant = r.grant
      /\ s.route = r.route /\ s.user = r.user /\ s.verified = r.verified
  BY <1>1, <1>2 DEF Registry
<1> QED BY <1>3 DEF rows

(* What the death of a transport ends: the guest, its row and its ticket. *)
LEMMA DeadTables ==
    ASSUME RecInv, NEW c \in Conn, NEW t \in Device, NEW g \in User, NEW tok \in Token,
           ReportDead(c, t, g, tok)
    PROVE  /\ TablesInv(reg')
           /\ \A x, v \in User : v \in reg'.guests[x] <=> v \in reg.guests[x] /\ ~(x = t /\ v = g)
           /\ \A x, v \in User : reg'.grant[x][v] \in {NoConn, reg.grant[x][v]}
           /\ \A x, v \in User :
                reg'.ledger[x][v] = IF x = t /\ v = g THEN NoUser ELSE reg.ledger[x][v]
<1>1. PICK b : b = ReleaseGuest(reg, g, {t})
  OBVIOUS
<1>2. PICK s : s = EndRow(b, t, g)
  OBVIOUS
<1>3. s = reg'
  BY <1>1, <1>2 DEF ReportDead
<1>4. reg \in Registry /\ {t} \in SUBSET User /\ t \in User
  BY DEF RecInv, TablesInv, User
<1>5. TablesInv(b) /\ b \in Registry
  BY <1>1, <1>4, ReleaseGuestInv DEF RecInv, TablesInv
<1>6. /\ \A x, v \in User : v \in b.guests[x] <=> v \in reg.guests[x] /\ ~(x \in {t} /\ v = g)
      /\ \A x, v \in User : b.grant[x][v] =
           IF x \in {t} /\ v = g /\ g \in reg.guests[x] THEN NoConn ELSE reg.grant[x][v]
      /\ \A x, v \in User : b.ledger[x][v] =
           IF x \in {t} /\ v = g /\ g \in reg.guests[x] THEN NoUser ELSE reg.ledger[x][v]
  BY <1>1, <1>4, ReleaseGuestFields
<1>7. /\ s \in Registry
      /\ s.host = b.host /\ s.guests = b.guests /\ s.grant = b.grant
      /\ s.route = b.route /\ s.user = b.user /\ s.verified = b.verified
      /\ \A x, v \in User : s.ledger[x][v] = IF x = t /\ v = g THEN NoUser ELSE b.ledger[x][v]
  <2>1. b \in Registry /\ t \in User
    BY <1>4, <1>5
  <2>2. /\ s \in Registry
        /\ s.host = b.host /\ s.guests = b.guests /\ s.grant = b.grant
        /\ s.route = b.route /\ s.user = b.user /\ s.verified = b.verified
        /\ s.ledger = [b.ledger EXCEPT ![t] = [b.ledger[t] EXCEPT ![g] = NoUser]]
    BY <1>2, <2>1, EndRowFields
  <2>3. \A x, v \in User : s.ledger[x][v] = IF x = t /\ v = g THEN NoUser ELSE b.ledger[x][v]
    BY <2>1, <2>2 DEF Registry
  <2> QED BY <2>2, <2>3
<1>8. TablesInv(s)
  BY <1>5, <1>7 DEF TablesInv, RoutesCurrent, GrantsCurrent, RoomsHosted, KeysOwned
<1>9. \A x, v \in User : v \in s.guests[x] <=> v \in reg.guests[x] /\ ~(x = t /\ v = g)
  BY <1>6, <1>7
<1>10. \A x, v \in User : s.grant[x][v] \in {NoConn, reg.grant[x][v]}
  BY <1>6, <1>7
<1>11. \A x, v \in User : s.ledger[x][v] = IF x = t /\ v = g THEN NoUser ELSE reg.ledger[x][v]
  BY <1>6, <1>7
<1> QED BY <1>3, <1>8, <1>9, <1>10, <1>11

LEMMA DeadEnds ==
    ASSUME RecInv, NEW c \in Conn, NEW t \in Device, NEW g \in User, NEW tok \in Token,
           ReportDead(c, t, g, tok)
    PROVE  RecInv'
<1>1. /\ TablesInv(reg')
      /\ \A x, v \in User : v \in reg'.guests[x] <=> v \in reg.guests[x] /\ ~(x = t /\ v = g)
      /\ \A x, v \in User :
           reg'.ledger[x][v] = IF x = t /\ v = g THEN NoUser ELSE reg.ledger[x][v]
  BY DeadTables
<1> DEFINE kept == Triggered(token, reg'.ledger)
<1>2. /\ token' = [kept EXCEPT ![t][g] = 0]
      /\ ticket' = [ticket EXCEPT ![t][g] = NoTicket]
      /\ legacy' = legacy \ {<<t, g>>}
      /\ UNCHANGED <<phase, pruned, capable, late, issued, crashes>>
  BY DEF ReportDead
<1>3. /\ kept \in [User -> [User -> Token \cup {0}]]
      /\ \A x, v \in User : kept[x][v] = IF reg'.ledger[x][v] = NoUser THEN 0 ELSE token[x][v]
  BY TriggeredFields DEF RecInv, RecoveryTypeOK
<1> HIDE DEF kept
<1>4. /\ ticket' \in [User -> [User -> Ticket]]
      /\ token' \in [User -> [User -> Token \cup {0}]]
      /\ \A x, v \in User : ticket'[x][v] = IF x = t /\ v = g THEN NoTicket ELSE ticket[x][v]
      /\ \A x, v \in User : token'[x][v] = IF x = t /\ v = g THEN 0 ELSE kept[x][v]
  BY <1>2, <1>3, TokenTypes DEF RecInv, RecoveryTypeOK, User
<1>5. RecoveryTypeOK'
  BY <1>1, <1>2, <1>4 DEF RecInv, RecoveryTypeOK, TypeOK, TablesInv
<1>6. ASSUME NEW x \in User, NEW v \in User PROVE OneAccount(x, v)'
  <2>1. OneAccount(x, v)
    BY DEF RecInv
  <2>2. CASE x = t /\ v = g
    <3>1. /\ ticket'[x][v] = NoTicket /\ token'[x][v] = 0
          /\ v \notin reg'.guests[x] /\ reg'.ledger[x][v] = NoUser
      BY <1>1, <1>4, <2>2
    <3> QED BY <3>1, TokenTypes DEF OneAccount, Manages, Recovering
  <2>3. CASE ~(x = t /\ v = g)
    <3>1. /\ ticket'[x][v] = ticket[x][v]
          /\ reg'.ledger[x][v] = reg.ledger[x][v]
          /\ (v \in reg'.guests[x] <=> v \in reg.guests[x])
          /\ (<<x, v>> \in legacy' => <<x, v>> \in legacy)
      BY <1>1, <1>2, <1>4, <2>3
    <3>2. token'[x][v] = IF reg.ledger[x][v] = NoUser THEN 0 ELSE token[x][v]
      BY <1>3, <1>4, <2>3, <3>1
    <3>3. token'[x][v] = token[x][v]
      BY <2>1, <3>2, IdentityAssumption DEF OneAccount
    <3> QED BY <2>1, <3>1, <3>3 DEF OneAccount, Manages, Recovering
  <2> QED BY <2>2, <2>3
<1> QED BY <1>1, <1>5, <1>6 DEF RecInv

(* A report of a living transport is noted; the second one grants the guest. *)
Noted(t, g, k) ==
    /\ reg'.guests = reg.guests /\ reg'.grant = reg.grant /\ reg'.ledger = reg.ledger
    /\ k.recovering = ticket[t][g].recovering

Resumed(t, g, k) ==
    /\ k.host \in Live /\ reg.user[k.host] = t
    /\ ~k.recovering
    /\ \A x, v \in User : v \in reg'.guests[x] <=> v \in reg.guests[x] \/ (x = t /\ v = g)
    /\ \A x, v \in User : reg'.grant[x][v] = IF x = t /\ v = g THEN k.guest ELSE reg.grant[x][v]
    /\ \A x, v \in User : reg'.ledger[x][v] = reg.ledger[x][v]

LEMMA AliveTables ==
    ASSUME RecInv, NEW c \in Conn, NEW t \in Device, NEW g \in User, NEW tok \in Token,
           ReportAlive(c, t, g, tok)
    PROVE  /\ TablesInv(reg')
           /\ reg.ledger[t][g] = t /\ Manages(t, g)
           /\ \E k \in Ticket :
                /\ ticket' = [ticket EXCEPT ![t][g] = k] /\ k.tok = ticket[t][g].tok
                /\ Noted(t, g, k) \/ Resumed(t, g, k)
<1> DEFINE old    == ticket[t][g]
           new    == IF reg.user[c] = t THEN [old EXCEPT !.host = c] ELSE [old EXCEPT !.guest = c]
           both   == /\ {new.host, new.guest} \subseteq Live
                     /\ reg.user[new.host] = t
                     /\ reg.user[new.guest] = g
           hosted == BindHost(reg, t, t)
           bound  == both /\ CanGrant(hosted, Live, g, t, new.guest)
           k      == [new EXCEPT !.recovering = old.recovering /\ ~bound]
<1>1. /\ Accepted(c, t, g, tok)
      /\ reg' = IF ~both THEN reg
                ELSE IF bound THEN StartRow(GrantGuest(hosted, g, t, new.guest), t, t, g)
                ELSE hosted
      /\ ticket' = [ticket EXCEPT ![t][g] = [new EXCEPT !.recovering = @ /\ ~bound]]
  BY DEF ReportAlive
<1>2. t \in User /\ reg \in Registry /\ TablesInv(reg) /\ OneAccount(t, g) /\ old \in Ticket
  BY DEF RecInv, RecoveryTypeOK, TypeOK, User
<1>3. Manages(t, g) /\ reg.ledger[t][g] = t
  BY <1>1 DEF Accepted, Exists
<1>4. /\ new \in Ticket /\ new.tok = old.tok /\ new.recovering = old.recovering
  BY <1>2 DEF Ticket
<1> HIDE DEF new
<1>5. ticket' = [ticket EXCEPT ![t][g] = k]
  BY <1>1, <1>4
<1>6. /\ k \in Ticket /\ k.tok = old.tok /\ k.host = new.host /\ k.guest = new.guest
      /\ k.recovering = (old.recovering /\ ~bound)
  <2> HIDE DEF bound, old
  <2>1. old.recovering \in BOOLEAN
    BY <1>2 DEF Ticket
  <2>2. PICK flag \in BOOLEAN : flag = (old.recovering /\ ~bound)
    BY <2>1
  <2>3. k = [new EXCEPT !.recovering = flag]
    BY <2>2
  <2> HIDE DEF k
  <2> QED BY <1>4, <2>2, <2>3 DEF Ticket
<1>7. PICK h : h = hosted
  OBVIOUS
<1>8. TablesInv(h)
  BY <1>2, <1>7, BindHostInv
<1>9. h.guests = reg.guests /\ h.grant = reg.grant /\ h.ledger = reg.ledger /\ h.user = reg.user
  BY <1>2, <1>7, BindHostFields
<1>10. t # g /\ t # NoUser /\ t \notin Temporary
  BY <1>2, <1>3, IdentityAssumption DEF OneAccount
<1> HIDE DEF hosted, k, old
<1>11. CASE ~bound
  <2>1. reg' = reg \/ reg' = h
    BY <1>1, <1>7, <1>11
  <2>2. TablesInv(reg') /\ reg'.guests = reg.guests /\ reg'.grant = reg.grant /\ reg'.ledger = reg.ledger
    BY <1>2, <1>8, <1>9, <2>1
  <2>3. k.recovering = old.recovering
    BY <1>2, <1>6, <1>11 DEF Ticket
  <2>4. Noted(t, g, k)
    BY <2>2, <2>3 DEF Noted, old
  <2> QED BY <1>3, <1>5, <1>6, <2>2, <2>4 DEF old
<1>12. CASE bound
  <2>1. /\ new.host \in Live /\ new.guest \in Live
        /\ reg.user[new.host] = t /\ reg.user[new.guest] = g
        /\ h.host[t] \notin {NoUser, g}
    BY <1>7, <1>12 DEF CanGrant
  <2>2. PICK d \in Conn : d = new.guest
    BY <2>1 DEF Live
  <2>3. h.host[t] = t
    BY <1>2, <1>8, <2>1 DEF TablesInv, RoomsHosted
  <2>4. PICK z : z = StartRow(GrantGuest(h, g, t, d), t, t, g)
    OBVIOUS
  <2>5. z = reg'
    BY <1>1, <1>7, <1>12, <2>2, <2>4
  <2>6. h.user[d] = g /\ h.ledger[t][g] \in {NoUser, t}
    BY <1>3, <1>9, <2>1, <2>2
  <2>7. /\ TablesInv(z)
        /\ \A x, v \in User : v \in z.guests[x] <=> v \in h.guests[x] \/ (x = t /\ v = g)
        /\ \A x, v \in User : z.grant[x][v] = IF x = t /\ v = g THEN d ELSE h.grant[x][v]
        /\ \A x, v \in User : z.ledger[x][v] = IF x = t /\ v = g THEN t ELSE h.ledger[x][v]
    BY <1>2, <1>8, <1>10, <2>3, <2>4, <2>6, EnterFields
  <2>8. \A x, v \in User : z.ledger[x][v] = reg.ledger[x][v]
    BY <1>3, <1>9, <2>7
  <2>9. ~k.recovering
    BY <1>6, <1>12
  <2>10. Resumed(t, g, k)
    BY <1>6, <1>9, <2>1, <2>2, <2>5, <2>7, <2>8, <2>9 DEF Resumed
  <2> QED BY <1>3, <1>5, <1>6, <2>5, <2>7, <2>10 DEF old
<1> QED BY <1>11, <1>12

LEMMA AliveResumes ==
    ASSUME RecInv, NEW c \in Conn, NEW t \in Device, NEW g \in User, NEW tok \in Token,
           ReportAlive(c, t, g, tok)
    PROVE  RecInv'
<1>1. TablesInv(reg') /\ reg.ledger[t][g] = t /\ Manages(t, g)
  BY AliveTables
<1>2. PICK k \in Ticket :
        /\ ticket' = [ticket EXCEPT ![t][g] = k] /\ k.tok = ticket[t][g].tok
        /\ Noted(t, g, k) \/ Resumed(t, g, k)
  BY AliveTables
<1>3. UNCHANGED <<phase, pruned, token, legacy, capable, late, issued, crashes>> /\ t \in User
  BY DEF ReportAlive, User
<1>4. /\ ticket' \in [User -> [User -> Ticket]]
      /\ \A x, v \in User : ticket'[x][v] = IF x = t /\ v = g THEN k ELSE ticket[x][v]
  BY <1>2, <1>3 DEF RecInv, RecoveryTypeOK
<1>5. RecoveryTypeOK'
  BY <1>1, <1>3, <1>4 DEF RecInv, RecoveryTypeOK, TypeOK, TablesInv
<1>6. ASSUME NEW x \in User, NEW v \in User PROVE OneAccount(x, v)'
  <2>1. OneAccount(x, v)
    BY DEF RecInv
  <2>2. reg'.ledger[x][v] = reg.ledger[x][v] /\ token'[x][v] = token[x][v] /\ legacy' = legacy
    BY <1>2, <1>3 DEF Noted, Resumed
  <2>3. CASE ~(x = t /\ v = g)
    <3>1. ticket'[x][v] = ticket[x][v] /\ (v \in reg'.guests[x] <=> v \in reg.guests[x])
      BY <1>2, <1>4, <2>3 DEF Noted, Resumed
    <3> QED BY <2>1, <2>2, <3>1 DEF OneAccount, Manages, Recovering
  <2>4. CASE x = t /\ v = g
    <3>1. ticket'[x][v] = k /\ reg.ledger[x][v] = x /\ Manages(x, v)
      BY <1>1, <1>4, <2>4
    <3>2. Manages(x, v)' /\ k.tok = ticket[x][v].tok
      BY <1>2, <2>4, <3>1 DEF Manages
    <3>3. CASE Noted(t, g, k)
      <4>1. k.recovering = ticket[x][v].recovering /\ reg'.guests = reg.guests
        BY <2>4, <3>3 DEF Noted
      <4>2. Recovering(x, v)' <=> Recovering(x, v)
        BY <3>1, <3>2, <4>1 DEF Recovering
      <4> QED BY <2>1, <2>2, <3>1, <3>2, <4>1, <4>2 DEF OneAccount
    <3>4. CASE Resumed(t, g, k)
      <4>1. ~Recovering(x, v)' /\ v \in reg'.guests[x]
        BY <2>4, <3>1, <3>4 DEF Resumed, Recovering
      <4> QED BY <2>1, <2>2, <3>1, <3>2, <4>1 DEF OneAccount
    <3> QED BY <1>2, <3>3, <3>4
  <2> QED BY <2>3, <2>4
<1> QED BY <1>1, <1>5, <1>6 DEF RecInv

-----------------------------------------------------------------------------
(* The heartbeat's Expire. *)
LEMMA ExpireTables ==
    ASSUME RecInv, ExpireTickets
    PROVE  /\ TablesInv(reg')
           /\ \A t, g \in User : g \in reg'.guests[t] <=> g \in reg.guests[t] /\ <<t, g>> \notin GivenUp
           /\ \A t, g \in User : reg'.grant[t][g] \in {NoConn, reg.grant[t][g]}
           /\ \A t, g \in User :
                reg'.ledger[t][g] = IF <<t, g>> \in GivenUp THEN NoUser ELSE reg.ledger[t][g]
<1> DEFINE guests == [t \in User |-> reg.guests[t] \ {g \in User : <<t, g>> \in GivenUp}]
           grant  == [t \in User |-> [g \in User |->
                        IF <<t, g>> \in GivenUp THEN NoConn ELSE reg.grant[t][g]]]
           ledger == [t \in User |-> [g \in User |->
                        IF <<t, g>> \in GivenUp THEN NoUser ELSE reg.ledger[t][g]]]
<1>1. reg' = [reg EXCEPT !.guests = guests, !.grant = grant, !.ledger = ledger]
  BY DEF ExpireTickets
<1>2. reg \in Registry /\ TablesInv(reg)
  BY DEF RecInv, TablesInv
<1>3. /\ guests \in [User -> SUBSET User]
      /\ grant \in [User -> [User -> Conn \cup {NoConn}]]
      /\ ledger \in [User -> [User -> User \cup {NoUser}]]
  BY <1>2 DEF Registry
<1>4. /\ \A t, g \in User : g \in guests[t] <=> g \in reg.guests[t] /\ <<t, g>> \notin GivenUp
      /\ \A t, g \in User : grant[t][g] = IF <<t, g>> \in GivenUp THEN NoConn ELSE reg.grant[t][g]
      /\ \A t, g \in User : ledger[t][g] = IF <<t, g>> \in GivenUp THEN NoUser ELSE reg.ledger[t][g]
      /\ \A t \in User : guests[t] \subseteq reg.guests[t]
  OBVIOUS
<1> HIDE DEF guests, grant, ledger
<1>5. /\ reg' \in Registry
      /\ reg'.guests = guests /\ reg'.grant = grant /\ reg'.ledger = ledger
      /\ reg'.host = reg.host /\ reg'.route = reg.route
      /\ reg'.user = reg.user /\ reg'.verified = reg.verified
  <2>1. PICK r : r = reg
    OBVIOUS
  <2>2. PICK z : z = reg'
    OBVIOUS
  <2>3. r \in Registry /\ z = [r EXCEPT !.guests = guests, !.grant = grant, !.ledger = ledger]
    BY <1>1, <1>2, <2>1, <2>2
  <2>4. /\ z \in Registry
        /\ z.guests = guests /\ z.grant = grant /\ z.ledger = ledger
        /\ z.host = r.host /\ z.route = r.route /\ z.user = r.user /\ z.verified = r.verified
    BY <1>3, <2>3 DEF Registry
  <2> QED BY <2>1, <2>2, <2>4
<1>6. RoutesCurrent(reg') /\ KeysOwned(reg')
  BY <1>2, <1>5 DEF TablesInv, RoutesCurrent, KeysOwned
<1>7. GrantsCurrent(reg')
  <2> SUFFICES ASSUME NEW t \in User, NEW g \in User, reg'.grant[t][g] # NoConn
               PROVE  reg'.user[reg'.grant[t][g]] = g /\ g \in reg'.guests[t]
    BY DEF GrantsCurrent
  <2>1. <<t, g>> \notin GivenUp /\ reg'.grant[t][g] = reg.grant[t][g]
    BY <1>4, <1>5
  <2>2. reg.user[reg.grant[t][g]] = g /\ g \in reg.guests[t]
    BY <1>2, <2>1 DEF TablesInv, GrantsCurrent
  <2> QED BY <1>4, <1>5, <2>1, <2>2
<1>8. RoomsHosted(reg')
  <2> SUFFICES ASSUME NEW t \in User
               PROVE  /\ reg'.host[t] \in {NoUser, t}
                      /\ t \in Temporary => reg'.host[t] = NoUser
                      /\ t \notin reg'.guests[t]
                      /\ reg'.guests[t] # {} => reg'.host[t] = t
    BY DEF RoomsHosted
  <2>1. reg'.guests[t] \subseteq reg.guests[t] /\ reg'.host[t] = reg.host[t]
    BY <1>4, <1>5
  <2> QED BY <1>2, <2>1 DEF TablesInv, RoomsHosted
<1> QED BY <1>4, <1>5, <1>6, <1>7, <1>8 DEF TablesInv

LEMMA ExpireEnds ==
    ASSUME RecInv, ExpireTickets
    PROVE  RecInv'
<1> DEFINE kept == Triggered(token, reg'.ledger)
<1>1. /\ TablesInv(reg')
      /\ \A t, g \in User : g \in reg'.guests[t] <=> g \in reg.guests[t] /\ <<t, g>> \notin GivenUp
      /\ \A t, g \in User :
           reg'.ledger[t][g] = IF <<t, g>> \in GivenUp THEN NoUser ELSE reg.ledger[t][g]
  BY ExpireTables
<1>2. /\ ticket' = [t \in User |-> [g \in User |->
                      IF Overdue(t, g) THEN NoTicket ELSE ticket[t][g]]]
      /\ token' = [t \in User |-> [g \in User |-> IF Overdue(t, g) THEN 0 ELSE kept[t][g]]]
      /\ legacy' \subseteq legacy
      /\ capable' = capable \cap Live
      /\ UNCHANGED <<phase, pruned, late, issued, crashes>>
  BY DEF ExpireTickets
<1>3. /\ kept \in [User -> [User -> Token \cup {0}]]
      /\ \A t, g \in User : kept[t][g] = IF reg'.ledger[t][g] = NoUser THEN 0 ELSE token[t][g]
  BY TriggeredFields DEF RecInv, RecoveryTypeOK
<1> HIDE DEF kept
<1>4. /\ ticket' \in [User -> [User -> Ticket]]
      /\ token' \in [User -> [User -> Token \cup {0}]]
      /\ \A t, g \in User : ticket'[t][g] = IF Overdue(t, g) THEN NoTicket ELSE ticket[t][g]
      /\ \A t, g \in User : token'[t][g] = IF Overdue(t, g) THEN 0 ELSE kept[t][g]
  BY <1>2, <1>3, TokenTypes DEF RecInv, RecoveryTypeOK
<1>5. RecoveryTypeOK'
  BY <1>1, <1>2, <1>4 DEF RecInv, RecoveryTypeOK, TypeOK, TablesInv
<1>6. ASSUME NEW t \in User, NEW g \in User PROVE OneAccount(t, g)'
  <2>1. OneAccount(t, g) /\ t # NoUser
    BY IdentityAssumption DEF RecInv
  <2>2. <<t, g>> \in GivenUp <=>
          \/ Overdue(t, g) /\ Recovering(t, g)
          \/ <<t, g>> \in legacy /\ Exists(reg, t, g) /\ late
    BY DEF GivenUp
  <2>3. /\ g \in reg'.guests[t] <=> g \in reg.guests[t] /\ <<t, g>> \notin GivenUp
        /\ reg'.ledger[t][g] = IF <<t, g>> \in GivenUp THEN NoUser ELSE reg.ledger[t][g]
    BY <1>1
  <2>4. CASE Overdue(t, g)
    <3>1. ticket'[t][g] = NoTicket /\ token'[t][g] = 0
      BY <1>4, <2>4
    <3>2. ~Manages(t, g)' /\ ~Recovering(t, g)'
      BY <3>1, TokenTypes DEF Manages, Recovering
    <3>3. reg'.ledger[t][g] = IF g \in reg'.guests[t] THEN t ELSE NoUser
      BY <2>1, <2>2, <2>3, <2>4 DEF OneAccount, Overdue, Exists
    <3> QED BY <2>1, <2>3, <3>1, <3>2, <3>3 DEF OneAccount
  <2>5. CASE ~Overdue(t, g)
    <3>1. ticket'[t][g] = ticket[t][g]
          /\ token'[t][g] = IF reg'.ledger[t][g] = NoUser THEN 0 ELSE token[t][g]
      BY <1>3, <1>4, <2>5
    <3>2. (Manages(t, g)' <=> Manages(t, g)) /\ (Recovering(t, g)' <=> Recovering(t, g))
      BY <3>1 DEF Manages, Recovering
    <3>3. Recovering(t, g) => <<t, g>> \notin GivenUp
      BY <2>1, <2>2, <2>5 DEF OneAccount
    <3>4. <<t, g>> \in legacy' => <<t, g>> \in legacy
      BY <1>2
    <3> QED BY <2>1, <2>3, <3>1, <3>2, <3>3, <3>4 DEF OneAccount
  <2> QED BY <2>4, <2>5
<1> QED BY <1>1, <1>5, <1>6 DEF RecInv

-----------------------------------------------------------------------------
(* A crash, between two jobs or between two statements of one. *)
LEMMA TornSound ==
    ASSUME RecInv, NEW rows \in TornRows \cup {reg.ledger}
    PROVE  SoundRows(rows)
<1>1. /\ reg \in Registry /\ reg.ledger \in [User -> [User -> User \cup {NoUser}]]
      /\ TablesInv(reg)
  BY DEF RecInv, TablesInv, Registry
<1>2. \A t, g \in User : reg.ledger[t][g] # NoUser =>
        reg.ledger[t][g] = t /\ t \notin Temporary /\ t # g
  BY DEF RecInv, OneAccount
<1>3. CASE rows = reg.ledger
  BY <1>1, <1>2, <1>3 DEF SoundRows
<1>4. ASSUME NEW c \in Conn, NEW t \in Device, CanJoin(c, t),
             rows = StartRow(reg, t, t, reg.user[c]).ledger
      PROVE  SoundRows(rows)
  <2> DEFINE g == reg.user[c]
  <2>1. t \in User /\ t \notin Temporary
    BY IdentityAssumption DEF User
  <2>2. g \in User /\ g # t
    BY <1>1, <1>4, <2>1 DEF CanJoin, CanGrant, Registry, TablesInv, RoomsHosted
  <2>3. PICK s : s = StartRow(reg, t, t, g)
    OBVIOUS
  <2>4. reg.ledger[t][g] \in {NoUser, t}
    BY <1>2, <2>1, <2>2
  <2> HIDE DEF g
  <2>5. \A x, v \in User : s.ledger[x][v] = IF x = t /\ v = g THEN t ELSE reg.ledger[x][v]
    BY <1>1, <2>1, <2>2, <2>3, <2>4, StartRowFields
  <2>6. s \in Registry
    BY <1>1, <2>1, <2>2, <2>3, StartRowType
  <2>7. rows = s.ledger
    BY <1>4, <2>3 DEF g
  <2>8. rows \in [User -> [User -> User \cup {NoUser}]]
    BY <2>6, <2>7 DEF Registry
  <2>9. ASSUME NEW x \in User, NEW v \in User, rows[x][v] # NoUser
        PROVE  rows[x][v] = x /\ x \notin Temporary /\ x # v
    <3>1. CASE x = t /\ v = g
      BY <2>1, <2>2, <2>5, <2>7, <3>1
    <3>2. CASE ~(x = t /\ v = g)
      BY <1>2, <2>5, <2>7, <2>9, <3>2
    <3> QED BY <3>1, <3>2
  <2> QED BY <2>8, <2>9 DEF SoundRows
<1>5. ASSUME NEW t \in Device, NEW gone \in SUBSET User,
             rows = [reg.ledger EXCEPT ![t] =
                       [g \in User |-> IF g \in gone THEN NoUser ELSE reg.ledger[t][g]]]
      PROVE  SoundRows(rows)
  <2>1. t \in User
    BY DEF User
  <2>2. \A x, v \in User : rows[x][v] \in {NoUser, reg.ledger[x][v]}
    BY <1>1, <1>5, <2>1
  <2>3. rows \in [User -> [User -> User \cup {NoUser}]]
    BY <1>1, <1>5, <2>1
  <2> QED BY <1>2, <2>2, <2>3 DEF SoundRows
<1> QED BY <1>3, <1>4, <1>5 DEF TornRows

LEMMA CrashRestores ==
    ASSUME RecInv, Crash
    PROVE  RecInv' /\ \A t, g \in User : reg'.grant[t][g] = NoConn
<1>1. PICK rows \in TornRows \cup {reg.ledger} : Startup(rows, token)
  BY DEF Crash
<1>2. SoundRows(rows)
  BY TornSound
<1> DEFINE kept    == Triggered(token, rows)
           managed == {p \in User \X User : kept[p[1]][p[2]] # 0}
           back(t, g) == [NoTicket EXCEPT !.tok = kept[t][g], !.recovering = TRUE]
<1>3. /\ token' = kept
      /\ ticket' = [t \in User |-> [g \in User |->
                      IF <<t, g>> \in managed THEN back(t, g) ELSE NoTicket]]
      /\ legacy' = {p \in User \X User : rows[p[1]][p[2]] # NoUser /\ p \notin managed}
      /\ reg' = Restore(rows, managed)
      /\ phase' = [c \in Conn |-> "new"] /\ capable' = {} /\ late' = FALSE /\ pruned' = FALSE
      /\ issued' = issued /\ crashes' = crashes + 1 /\ crashes < MaxCrash
  BY <1>1 DEF Startup, Crash
<1>4. /\ kept \in [User -> [User -> Token \cup {0}]]
      /\ \A t, g \in User : kept[t][g] = IF rows[t][g] = NoUser THEN 0 ELSE token[t][g]
  BY TriggeredFields DEF RecInv, RecoveryTypeOK
<1> HIDE DEF kept
<1>5. \A t, g \in User : <<t, g>> \in managed <=> kept[t][g] # 0
  OBVIOUS
<1>6. \A t, g \in User : back(t, g) \in Ticket /\ back(t, g).tok = kept[t][g]
                         /\ back(t, g).recovering
  BY <1>4, ZenonT(40) DEF NoTicket, Ticket
<1>7. \A t, g \in User : <<t, g>> \in legacy' => <<t, g>> \notin managed
  BY <1>3
<1>8. legacy' \subseteq User \X User
  BY <1>3
<1> HIDE DEF managed, back
<1>9. /\ TablesInv(reg')
      /\ reg'.ledger = rows
      /\ \A t, g \in User : g \in reg'.guests[t] <=> rows[t][g] # NoUser /\ <<t, g>> \notin managed
      /\ \A t, g \in User : reg'.grant[t][g] = NoConn
  <2>1. PICK r : r = Restore(rows, managed)
    OBVIOUS
  <2>2. /\ TablesInv(r)
        /\ r.ledger = rows
        /\ \A t, g \in User : g \in r.guests[t] <=> rows[t][g] # NoUser /\ <<t, g>> \notin managed
        /\ \A t, g \in User : r.grant[t][g] = NoConn
    BY <1>2, <2>1, RestoredFields, RestoredInv
  <2> QED BY <1>3, <2>1, <2>2
<1>10. ticket' \in [User -> [User -> Ticket]]
  BY <1>3, <1>6, TokenTypes
<1>11. crashes' \in 0..MaxCrash
  BY <1>3, BoundAssumption DEF RecInv, RecoveryTypeOK
<1>12. TypeOK'
  BY <1>3, <1>9 DEF TypeOK, TablesInv, Phase
<1>13. RecoveryTypeOK'
  BY <1>3, <1>4, <1>8, <1>10, <1>11, <1>12 DEF RecInv, RecoveryTypeOK
<1>14. ASSUME NEW t \in User, NEW g \in User PROVE OneAccount(t, g)'
  <2>1. t # NoUser
    BY IdentityAssumption
  <2>2. /\ reg'.ledger[t][g] = rows[t][g]
        /\ rows[t][g] # NoUser => rows[t][g] = t /\ t \notin Temporary /\ t # g
        /\ token'[t][g] = kept[t][g]
        /\ kept[t][g] # 0 => rows[t][g] # NoUser
    BY <1>2, <1>3, <1>4, <1>9 DEF SoundRows
  <2>3. CASE <<t, g>> \in managed
    <3>1. ticket'[t][g] = back(t, g) /\ kept[t][g] # 0 /\ g \notin reg'.guests[t]
          /\ <<t, g>> \notin legacy'
      BY <1>3, <1>5, <1>7, <1>9, <2>3
    <3>2. Manages(t, g)' /\ Recovering(t, g)' /\ ticket'[t][g].tok = kept[t][g]
      BY <1>6, <3>1 DEF Manages, Recovering
    <3> QED BY <2>1, <2>2, <3>1, <3>2 DEF OneAccount
  <2>4. CASE <<t, g>> \notin managed
    <3>1. ticket'[t][g] = NoTicket /\ kept[t][g] = 0 /\ (g \in reg'.guests[t] <=> rows[t][g] # NoUser)
      BY <1>3, <1>5, <1>9, <2>4
    <3>2. ~Manages(t, g)' /\ ~Recovering(t, g)'
      BY <3>1, TokenTypes DEF Manages, Recovering
    <3> QED BY <2>1, <2>2, <3>1, <3>2 DEF OneAccount
  <2> QED BY <2>3, <2>4
<1> QED BY <1>9, <1>13, <1>14 DEF RecInv
-----------------------------------------------------------------------------
(* The invariant of RecoverySpec. *)
EndsSessions ==
    \/ \E c \in Conn : OnCleanup(c)
    \/ \E c \in Conn, t \in Device : OnLeave(c, t)
    \/ \E c \in Conn, g \in User, t \in Device : OnDisconnectPeer(c, g, t)
    \/ \E t \in Device : OnAdminDisconnect(t)
    \/ OnPrune

LEMMA EndingActions ==
    ASSUME RecInv, EndsSessions
    PROVE  Ending /\ EndsRows /\ phase' \in [Conn -> Phase] /\ pruned' \in BOOLEAN
<1>1. TablesInv(reg) /\ phase \in [Conn -> Phase] /\ pruned \in BOOLEAN
  BY DEF RecInv, RecoveryTypeOK, TypeOK
<1>2. ASSUME NEW c \in Conn, OnCleanup(c)
      PROVE  Ending /\ EndsRows /\ phase' \in [Conn -> Phase] /\ pruned' \in BOOLEAN
  <2>1. Cleanup(c) /\ EndsRows
    BY <1>2 DEF OnCleanup
  <2>2. phase' = [phase EXCEPT ![c] = "gone"] /\ pruned' = pruned
    BY <2>1 DEF Cleanup
  <2> QED BY <1>1, <2>1, <2>2, CleanupEnds DEF Phase
<1>3. ASSUME NEW c \in Conn, NEW t \in Device, OnLeave(c, t)
      PROVE  Ending /\ EndsRows /\ phase' = phase /\ pruned' = pruned
  <2>1. Leave(c, t) /\ EndsRows
    BY <1>3 DEF OnLeave
  <2> QED BY <1>1, <2>1, LeaveEnds DEF Leave
<1>4. ASSUME NEW c \in Conn, NEW g \in User, NEW t \in Device, OnDisconnectPeer(c, g, t)
      PROVE  Ending /\ EndsRows /\ phase' = phase /\ pruned' = pruned
  <2>1. reg' = ReleaseGuest(reg, g, {t}) /\ phase' = phase /\ pruned' = pruned /\ EndsRows
    BY <1>4 DEF OnDisconnectPeer, DisconnectPeer
  <2> QED BY <1>1, <2>1, ReleaseGuestEnds
<1>5. ASSUME NEW t \in Device, OnAdminDisconnect(t)
      PROVE  Ending /\ EndsRows /\ phase' = phase /\ pruned' = pruned
  <2>1. EndsRows
    BY <1>5 DEF OnAdminDisconnect
  <2> QED BY <1>5, <2>1, AdminEnds
<1>6. ASSUME OnPrune
      PROVE  Ending /\ EndsRows /\ phase' = phase /\ pruned' = TRUE
  <2>1. Prune /\ EndsRows
    BY <1>6 DEF OnPrune
  <2> QED BY <1>1, <2>1, PruneEnds DEF Prune
<1> QED BY <1>1, <1>2, <1>3, <1>4, <1>5, <1>6 DEF EndsSessions

(* The actions by what they do to the sessions. *)
LEMMA RecoveryCases ==
    ASSUME RecoveryNext
    PROVE  \/ \E c \in Conn : OnNetwork(c)
           \/ EndsSessions
           \/ \E c \in Conn, u \in User, k \in ProvedKey, resume \in BOOLEAN :
                 OnLogin(c, u, k, resume)
           \/ \E c \in Conn, t \in Device : OnJoin(c, t)
           \/ \E c \in Conn, t \in Device, g \in User, tok \in Token : ReportDead(c, t, g, tok)
           \/ \E c \in Conn, t \in Device, g \in User, tok \in Token : ReportAlive(c, t, g, tok)
           \/ ExpireTickets
           \/ Deadline
           \/ Crash
  BY DEF RecoveryNext, EndsSessions

LEMMA RecInitInv == RecoveryInit => RecInv
<1> SUFFICES ASSUME RecoveryInit PROVE RecInv
  OBVIOUS
<1>1. /\ reg = EmptyRegistry(NoRows)
      /\ NoRows \in [User -> [User -> User \cup {NoUser}]]
  BY DEF RecoveryInit, NoRows
<1>2. PICK r : r = EmptyRegistry(NoRows)
  OBVIOUS
<1>3. /\ r \in Registry
      /\ \A t \in User : r.host[t] = NoUser /\ r.guests[t] = {} /\ r.route[t] = NoConn
      /\ \A t, g \in User : r.grant[t][g] = NoConn /\ r.ledger[t][g] = NoUser
      /\ \A c \in Conn : r.user[c] = NoUser /\ r.verified[c] = NoUser
  <2>1. r \in Registry
    BY <1>1, <1>2, EmptyRegistryType
  <2> QED BY <2>1, <1>2 DEF EmptyRegistry, NoRows
<1>4. RoutesCurrent(r) /\ GrantsCurrent(r) /\ KeysOwned(r)
  BY <1>3 DEF RoutesCurrent, GrantsCurrent, KeysOwned
<1>5. RoomsHosted(r)
  BY <1>3 DEF RoomsHosted
<1>6. TablesInv(reg)
  BY <1>1, <1>2, <1>3, <1>4, <1>5 DEF TablesInv
<1>7. /\ token = [t \in User |-> [g \in User |-> 0]]
      /\ ticket = [t \in User |-> [g \in User |-> NoTicket]]
      /\ legacy = {} /\ capable = {} /\ late = FALSE /\ issued = 0 /\ crashes = 0
      /\ phase = [c \in Conn |-> "new"] /\ pruned = FALSE
  BY DEF RecoveryInit
<1>8. issued \in 0..MaxToken /\ crashes \in 0..MaxCrash
  BY <1>7, BoundAssumption
<1>9. RecoveryTypeOK
  BY <1>6, <1>7, <1>8, TokenTypes DEF RecoveryTypeOK, TypeOK, Phase, TablesInv
<1>10. ASSUME NEW t \in User, NEW g \in User PROVE OneAccount(t, g)
  <2>1. /\ token[t][g] = 0 /\ ticket[t][g] = NoTicket
        /\ reg.ledger[t][g] = NoUser /\ reg.guests[t] = {}
    BY <1>1, <1>2, <1>3, <1>7
  <2> QED BY <2>1, TokenTypes DEF OneAccount, Recovering, Manages
<1> QED BY <1>6, <1>9, <1>10 DEF RecInv

LEMMA RecNextInv == RecInv /\ [RecoveryNext]_allvars => RecInv'
<1> SUFFICES ASSUME RecInv, [RecoveryNext]_allvars PROVE RecInv'
  OBVIOUS
<1>1. ASSUME NEW c \in Conn, OnNetwork(c) PROVE RecInv'
  BY <1>1, NetworkQuiet
<1>2. CASE EndsSessions
  BY <1>2, EndingActions, EndingStep
<1>3. ASSUME NEW c \in Conn, NEW u \in User, NEW k \in ProvedKey, NEW resume \in BOOLEAN,
             OnLogin(c, u, k, resume)
      PROVE  RecInv'
  BY <1>3, LoginQuiet
<1>4. ASSUME NEW c \in Conn, NEW t \in Device, OnJoin(c, t) PROVE RecInv'
  BY <1>4, JoinStarts
<1>5. ASSUME NEW c \in Conn, NEW t \in Device, NEW g \in User, NEW tok \in Token,
             ReportDead(c, t, g, tok)
      PROVE  RecInv'
  BY <1>5, DeadEnds
<1>6. ASSUME NEW c \in Conn, NEW t \in Device, NEW g \in User, NEW tok \in Token,
             ReportAlive(c, t, g, tok)
      PROVE  RecInv'
  BY <1>6, AliveResumes
<1>7. CASE ExpireTickets
  BY <1>7, ExpireEnds
<1>8. CASE Deadline
  BY <1>8, DeadlineQuiet
<1>9. CASE Crash
  BY <1>9, CrashRestores
<1>10. CASE UNCHANGED allvars
  <2>1. UNCHANGED <<reg, phase, pruned, token, ticket, legacy, capable, late, issued, crashes>>
    BY <1>10 DEF allvars, vars, recovery
  <2> QED BY <2>1, QuietStep DEF RecInv, RecoveryTypeOK, TypeOK
<1> QED BY <1>1, <1>2, <1>3, <1>4, <1>5, <1>6, <1>7, <1>8, <1>9, <1>10, RecoveryCases

LEMMA RecInductive == RecoverySpec => []RecInv
  BY RecInitInv, RecNextInv, PTL DEF RecoverySpec

-----------------------------------------------------------------------------
(* Tables, tickets, tokens and the legacy set keep their types through joins, *)
(* reports, the heartbeat and restarts (TransmissionManager, SessionRecovery). *)
THEOREM RecoveryTypes == RecoverySpec => []RecoveryTypeOK
  BY RecInductive, PTL DEF RecInv

(* Rooms, session rows, tickets in memory and persisted tokens are one account *)
(* of the same sessions, whatever Login, Issue, the reports, Expire and a      *)
(* restart in the middle of a job do.                                          *)
THEOREM RecoveryAgrees == RecoverySpec => []RecoveryConsistent
<1>1. RecInv => RecoveredTablesAgree
  BY DEF RecInv, TablesInv, OneAccount, RecoveredTablesAgree
<1>2. RecInv => TokensHaveRows
  BY DEF RecInv, OneAccount, TokensHaveRows
<1> QED BY <1>1, <1>2, RecInductive, PTL DEF RecoveryConsistent

(* Recovery grants by a report what only a join grants otherwise, and the relay *)
(* of offers, answers and candidates is as confined and as answerable with it.  *)
THEOREM RecoveredConfinement == RecoverySpec => [](SignalsStayInRoom /\ SignalsAnswerable)
<1>1. RecInv => SignalsStayInRoom /\ SignalsAnswerable
  BY TablesConfine, TablesAnswer DEF RecInv
<1> QED BY <1>1, RecInductive, PTL

-----------------------------------------------------------------------------
(* What a step other than a join or a restart may start: no row, and only the *)
(* grant of a session whose token both sides reported.                        *)
Proved(t, g, k) ==
    /\ k = ticket'[t][g] /\ k.tok = token[t][g] /\ k.guest = reg'.grant[t][g]
    /\ k.host \in Live /\ reg.user[k.host] = t

LEMMA StartsNothing ==
    ASSUME RecInv, RecoveryNext, NEW t \in User, NEW g \in User
    PROVE  \/ \E c \in Conn, x \in Device : OnJoin(c, x)
           \/ Crash
           \/ /\ reg'.ledger[t][g] \in {NoUser, reg.ledger[t][g]}
              /\ reg'.grant[t][g] \in {NoConn, reg.grant[t][g]} \/ \E k \in Ticket : Proved(t, g, k)
<1> DEFINE Goal == /\ reg'.ledger[t][g] \in {NoUser, reg.ledger[t][g]}
                   /\ \/ reg'.grant[t][g] \in {NoConn, reg.grant[t][g]}
                      \/ \E k \in Ticket : Proved(t, g, k)
<1>1. ASSUME NEW c \in Conn, OnNetwork(c) PROVE Goal
  BY <1>1 DEF OnNetwork, Accept, Close, Expire
<1>2. CASE EndsSessions
  <2>1. Ending
    BY <1>2, EndingActions
  <2> QED BY <2>1 DEF Ending, RowsFollow
<1>3. ASSUME NEW c \in Conn, NEW u \in User, NEW k \in ProvedKey, NEW resume \in BOOLEAN,
             OnLogin(c, u, k, resume)
      PROVE  Goal
  <2>1. Login(c, u, k) /\ k \in Device \cup {NoUser} /\ TablesInv(reg)
    BY <1>3, BoundAssumption DEF OnLogin, RecInv
  <2>2. reg'.grant = reg.grant /\ reg'.ledger = reg.ledger
    BY <2>1, LoginTables
  <2> QED BY <2>2
<1>4. ASSUME NEW c \in Conn, NEW x \in Device, NEW v \in User, NEW tok \in Token,
             ReportDead(c, x, v, tok)
      PROVE  Goal
  <2>1. /\ \A y, w \in User : reg'.grant[y][w] \in {NoConn, reg.grant[y][w]}
        /\ \A y, w \in User :
             reg'.ledger[y][w] = IF y = x /\ w = v THEN NoUser ELSE reg.ledger[y][w]
    BY <1>4, DeadTables
  <2> QED BY <2>1
<1>5. ASSUME NEW c \in Conn, NEW x \in Device, NEW v \in User, NEW tok \in Token,
             ReportAlive(c, x, v, tok)
      PROVE  Goal
  <2>1. PICK k \in Ticket :
          /\ ticket' = [ticket EXCEPT ![x][v] = k] /\ k.tok = ticket[x][v].tok
          /\ Noted(x, v, k) \/ Resumed(x, v, k)
    BY <1>5, AliveTables
  <2>2. reg.ledger[x][v] = x /\ Manages(x, v)
    BY <1>5, AliveTables
  <2>3. CASE Noted(x, v, k)
    BY <2>3 DEF Noted
  <2>4. CASE Resumed(x, v, k)
    <3>1. reg'.ledger[t][g] = reg.ledger[t][g]
      BY <2>4 DEF Resumed
    <3>2. CASE ~(t = x /\ g = v)
      <4>1. reg'.grant[t][g] = reg.grant[t][g]
        BY <2>4, <3>2 DEF Resumed
      <4> QED BY <3>1, <4>1
    <3>3. CASE t = x /\ g = v
      <4>1. OneAccount(t, g) /\ t # NoUser /\ ticket \in [User -> [User -> Ticket]]
        BY IdentityAssumption DEF RecInv, RecoveryTypeOK
      <4>2. token[t][g] = ticket[t][g].tok
        BY <2>2, <3>3, <4>1 DEF OneAccount
      <4>3. ticket'[t][g] = k
        BY <2>1, <3>3, <4>1
      <4>4. Proved(t, g, k)
        BY <2>1, <2>4, <3>3, <4>2, <4>3 DEF Resumed, Proved
      <4> QED BY <3>1, <4>4
    <3> QED BY <3>2, <3>3
  <2> QED BY <2>1, <2>3, <2>4
<1>6. CASE ExpireTickets
  BY <1>6, ExpireTables
<1>7. CASE Deadline
  BY <1>7 DEF Deadline, vars
<1> QED BY <1>1, <1>2, <1>3, <1>4, <1>5, <1>6, <1>7, RecoveryCases

LEMMA JoinRows ==
    ASSUME RecInv, NEW c \in Conn, NEW x \in Device, OnJoin(c, x), NEW t \in User, NEW g \in User
    PROVE  IF x = t /\ reg.user[c] = g THEN reg'.grant[t][g] = c
           ELSE reg'.grant[t][g] = reg.grant[t][g] /\ reg'.ledger[t][g] = reg.ledger[t][g]
<1>1. \A y, v \in User : reg.ledger[y][v] \in {NoUser, y}
  BY DEF RecInv, OneAccount
<1>2. Join(c, x) /\ TablesInv(reg)
  BY DEF OnJoin, RecInv
<1>3. LET u == reg.user[c] IN
      /\ \A y, v \in User : reg'.grant[y][v] = IF y = x /\ v = u THEN c ELSE reg.grant[y][v]
      /\ \A y, v \in User : reg'.ledger[y][v] = IF y = x /\ v = u THEN x ELSE reg.ledger[y][v]
  BY <1>1, <1>2, JoinTables
<1> QED BY <1>3

(* A session that ended stays ended: no report, no ticket left in memory and   *)
(* no identity that logs in again brings its row back; a join starts a new one. *)
THEOREM NeverResurrected == RecoverySpec => NoResurrection
<1>1. RecInv /\ [RecoveryNext]_allvars =>
        [\A t, g \in User : reg.ledger[t][g] = NoUser /\ reg'.ledger[t][g] # NoUser =>
           \/ \E c \in Conn : reg.user[c] = g /\ OnJoin(c, t)
           \/ Crash]_allvars
  <2> SUFFICES ASSUME RecInv, RecoveryNext, NEW t \in User, NEW g \in User,
                      reg.ledger[t][g] = NoUser, reg'.ledger[t][g] # NoUser, ~Crash
               PROVE  \E c \in Conn : reg.user[c] = g /\ OnJoin(c, t)
    OBVIOUS
  <2>1. PICK c \in Conn, x \in Device : OnJoin(c, x)
    BY StartsNothing
  <2>2. x = t /\ reg.user[c] = g
    BY <2>1, JoinRows
  <2> QED BY <2>1, <2>2
<1> QED BY <1>1, RecInductive, PTL DEF RecoverySpec, NoResurrection

(* A connection enters a room by its own join, or by resuming a session after   *)
(* it and a connection still logged in as the host reported the session's token *)
(* (SessionRecovery::Report); a login, a heartbeat or a restart grants nothing. *)
THEOREM GrantsAreProved == RecoverySpec => GrantsProved
<1>1. RecInv /\ [RecoveryNext]_allvars =>
        [\A t, g \in User :
           LET c == reg'.grant[t][g]
               k == ticket'[t][g]
           IN  c \notin {NoConn, reg.grant[t][g]} =>
                  \/ OnJoin(c, t)
                  \/ /\ k.tok = token[t][g]
                     /\ k.guest = c
                     /\ k.host \in Live /\ reg.user[k.host] = t]_allvars
  <2> SUFFICES ASSUME RecInv, RecoveryNext, NEW t \in User, NEW g \in User,
                      reg'.grant[t][g] \notin {NoConn, reg.grant[t][g]}
               PROVE  \/ OnJoin(reg'.grant[t][g], t)
                      \/ /\ ticket'[t][g].tok = token[t][g]
                         /\ ticket'[t][g].guest = reg'.grant[t][g]
                         /\ ticket'[t][g].host \in Live /\ reg.user[ticket'[t][g].host] = t
    OBVIOUS
  <2>1. ~Crash
    BY CrashRestores
  <2>2. ASSUME NEW c \in Conn, NEW x \in Device, OnJoin(c, x)
        PROVE  OnJoin(reg'.grant[t][g], t)
    <3>1. x = t /\ reg.user[c] = g /\ reg'.grant[t][g] = c
      BY <2>2, JoinRows
    <3> QED BY <2>2, <3>1
  <2>3. ASSUME NEW k \in Ticket, Proved(t, g, k)
        PROVE  /\ ticket'[t][g].tok = token[t][g]
               /\ ticket'[t][g].guest = reg'.grant[t][g]
               /\ ticket'[t][g].host \in Live /\ reg.user[ticket'[t][g].host] = t
    BY <2>3 DEF Proved
  <2> QED BY <2>1, <2>2, <2>3, StartsNothing
<1> QED BY <1>1, RecInductive, PTL DEF RecoverySpec, GrantsProved
=============================================================================
