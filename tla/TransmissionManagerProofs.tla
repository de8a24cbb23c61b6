----------------------- MODULE TransmissionManagerProofs -----------------------
(***************************************************************************)
(* What every reachable state of TransmissionManager satisfies, for any    *)
(* devices, controller identities and connections.  The first part has one *)
(* lemma per member function: what it returns and preserves, for every set *)
(* of identities and connections; SessionRecoveryProofs cites them too.    *)
(* The inductive invariant of the second part is the type, that closed     *)
(* connections are forgotten, and the agreement of the tables; each step   *)
(* composes the lemmas of the functions it calls.                          *)
(***************************************************************************)
EXTENDS TransmissionManager, TLAPS

(* The promises that do not mention the session table. *)
TablesInv(r) ==
    /\ r \in Registry
    /\ RoutesCurrent(r)
    /\ GrantsCurrent(r)
    /\ RoomsHosted(r)
    /\ KeysOwned(r)

LEMMA StartRowType ==
    ASSUME NEW r \in Registry, NEW t \in User, NEW h \in User, NEW g \in User
    PROVE  StartRow(r, t, h, g) \in Registry
  <1> DEFINE row == IF r.ledger[t][g] = NoUser THEN h ELSE r.ledger[t][g]
             room == [r.ledger[t] EXCEPT ![g] = row]
             rows == [r.ledger EXCEPT ![t] = room]
  <1>1. room \in [User -> User \cup {NoUser}]
    BY DEF Registry
  <1>2. rows \in [User -> [User -> User \cup {NoUser}]]
    BY <1>1 DEF Registry
  <1>3. StartRow(r, t, h, g) \in {r, [r EXCEPT !.ledger = rows]}
    BY DEF StartRow
  <1> HIDE DEF rows
  <1> QED BY <1>2, <1>3 DEF Registry

LEMMA StartRowKeeps ==
    ASSUME NEW r \in Registry, NEW t \in User, NEW h \in User, NEW g \in User,
           NEW s, s = StartRow(r, t, h, g)
    PROVE  /\ s.host = r.host
           /\ s.guests = r.guests
           /\ s.grant = r.grant
           /\ s.route = r.route
           /\ s.user = r.user
           /\ s.verified = r.verified
  BY DEF StartRow, Registry

LEMMA BindHostType ==
    ASSUME NEW r \in Registry, NEW t \in User, NEW h \in User
    PROVE  BindHost(r, h, t) \in Registry
  BY DEF BindHost, Registry

LEMMA BindUserType ==
    ASSUME NEW r \in Registry, NEW u \in User, NEW c \in Conn, NEW k \in Device \cup {NoUser}
    PROVE  BindUser(r, u, c, k) \in Registry
  BY DEF BindUser, Registry

LEMMA GrantGuestType ==
    ASSUME NEW r \in Registry, NEW g \in User, NEW t \in User, NEW c \in Conn
    PROVE  GrantGuest(r, g, t, c) \in Registry
  <1>1. EnterGuest(r, g, t) \in Registry
    BY DEF EnterGuest, Registry
  <1>2. BindGuest(r, g, t) \in Registry
    <2>1. CASE CanBindGuest(r, g, t)
      <3>1. r.host[t] \in User
        BY <2>1 DEF CanBindGuest, Registry
      <3> QED BY <1>1, <2>1, <3>1, StartRowType DEF BindGuest
    <2>2. CASE ~CanBindGuest(r, g, t)
      BY <2>2 DEF BindGuest
    <2> QED BY <2>1, <2>2
  <1> QED BY <1>2 DEF GrantGuest, Registry

LEMMA ReleaseGuestType ==
    ASSUME NEW r \in Registry, NEW g \in User, NEW rooms \in SUBSET User
    PROVE  ReleaseGuest(r, g, rooms) \in Registry
  <1> DEFINE left(t) == t \in rooms /\ g \in r.guests[t]
             guests == [t \in User |-> IF left(t) THEN r.guests[t] \ {g} ELSE r.guests[t]]
             grant  == [t \in User |-> [u \in User |->
                          IF left(t) /\ u = g THEN NoConn ELSE r.grant[t][u]]]
             ledger == [t \in User |-> [u \in User |->
                          IF left(t) /\ u = g THEN NoUser ELSE r.ledger[t][u]]]
  <1>1. guests \in [User -> SUBSET User]
    BY DEF Registry
  <1>2. grant \in [User -> [User -> Conn \cup {NoConn}]]
    BY DEF Registry
  <1>3. ledger \in [User -> [User -> User \cup {NoUser}]]
    BY DEF Registry
  <1>4. ReleaseGuest(r, g, rooms) = [r EXCEPT !.guests = guests, !.grant = grant, !.ledger = ledger]
    BY DEF ReleaseGuest
  <1> HIDE DEF guests, grant, ledger
  <1> QED BY <1>1, <1>2, <1>3, <1>4 DEF Registry

LEMMA ReleaseRoomsType ==
    ASSUME NEW r \in Registry, NEW rooms \in SUBSET User
    PROVE  ReleaseRooms(r, rooms) \in Registry
  <1> DEFINE host   == [t \in User |-> IF t \in rooms THEN NoUser ELSE r.host[t]]
             guests == [t \in User |-> IF t \in rooms THEN {} ELSE r.guests[t]]
             grant  == [t \in User |-> [u \in User |->
                          IF t \in rooms THEN NoConn ELSE r.grant[t][u]]]
             ledger == [t \in User |-> [u \in User |->
                          IF t \in rooms /\ u \in r.guests[t] THEN NoUser ELSE r.ledger[t][u]]]
  <1>1. host \in [User -> User \cup {NoUser}] /\ guests \in [User -> SUBSET User]
    BY DEF Registry
  <1>2. grant \in [User -> [User -> Conn \cup {NoConn}]]
    BY DEF Registry
  <1>3. ledger \in [User -> [User -> User \cup {NoUser}]]
    BY DEF Registry
  <1>4. ReleaseRooms(r, rooms) =
          [r EXCEPT !.host = host, !.guests = guests, !.grant = grant, !.ledger = ledger]
    BY DEF ReleaseRooms
  <1> HIDE DEF host, guests, grant, ledger
  <1> QED BY <1>1, <1>2, <1>3, <1>4 DEF Registry

LEMMA ReleaseHandleType ==
    ASSUME NEW r \in Registry, NEW c \in Conn, NEW next \in Successors(r, c)
    PROVE  ReleaseHandle(r, c, next) \in Registry
  BY DEF ReleaseHandle, Registry, Successors

-----------------------------------------------------------------------------
(* Rooms. *)

LEMMA StartRowInv ==
    ASSUME NEW r, TablesInv(r), NEW t \in User, NEW h \in User, NEW g \in User
    PROVE  TablesInv(StartRow(r, t, h, g))
  <1> DEFINE s == StartRow(r, t, h, g)
  <1>0. s = StartRow(r, t, h, g) /\ r \in Registry
    BY DEF TablesInv
  <1> HIDE DEF s
  <1>1. s \in Registry
    BY <1>0, StartRowType
  <1>2. /\ s.host = r.host /\ s.guests = r.guests /\ s.grant = r.grant
        /\ s.route = r.route /\ s.user = r.user /\ s.verified = r.verified
    BY <1>0, StartRowKeeps
  <1>3. RoutesCurrent(s) /\ KeysOwned(s)
    BY <1>2 DEF TablesInv, RoutesCurrent, KeysOwned
  <1>4. RoomsHosted(s)
    BY <1>2 DEF TablesInv, RoomsHosted
  <1>5. GrantsCurrent(s)
    BY <1>2 DEF TablesInv, GrantsCurrent
  <1> QED BY <1>0, <1>1, <1>3, <1>4, <1>5 DEF TablesInv

LEMMA BindHostInv ==
    ASSUME NEW r, TablesInv(r), NEW u \in User
    PROVE  TablesInv(BindHost(r, u, u))
  <1> DEFINE s == BindHost(r, u, u)
  <1>0. s = BindHost(r, u, u) /\ r \in Registry
    BY DEF TablesInv
  <1> HIDE DEF s
  <1>1. s \in Registry
    BY <1>0, BindHostType
  <1>2. /\ s.guests = r.guests /\ s.grant = r.grant
        /\ s.route = r.route /\ s.user = r.user /\ s.verified = r.verified
        /\ s.host \in {r.host, [r.host EXCEPT ![u] = u]}
        /\ s.host # r.host => u \notin Temporary
    BY <1>0 DEF BindHost, Registry
  <1>3. RoomsHosted(s)
    BY <1>1, <1>2 DEF RoomsHosted, TablesInv, Registry
  <1>4. RoutesCurrent(s) /\ KeysOwned(s)
    BY <1>2 DEF TablesInv, RoutesCurrent, KeysOwned
  <1>5. GrantsCurrent(s)
    BY <1>2 DEF TablesInv, GrantsCurrent
  <1> QED BY <1>0, <1>1, <1>3, <1>4, <1>5 DEF TablesInv

(* A grant goes to a connection of the guest; the room has a host already. *)
LEMMA GrantGuestFields ==
    ASSUME NEW r \in Registry, NEW g \in User, NEW t \in User, NEW c \in Conn,
           r.host[t] \notin {NoUser, g},
           NEW s, s = GrantGuest(r, g, t, c)
    PROVE  /\ s.host = r.host /\ s.route = r.route
           /\ s.user = r.user /\ s.verified = r.verified
           /\ s.guests = [r.guests EXCEPT ![t] = r.guests[t] \cup {g}]
           /\ s.grant = [r.grant EXCEPT ![t] = [r.grant[t] EXCEPT ![g] = c]]
  <1> DEFINE b == BindGuest(r, g, t)
             guests == [r.guests EXCEPT ![t] = r.guests[t] \cup {g}]
  <1>1. /\ b.host = r.host /\ b.route = r.route /\ b.user = r.user
        /\ b.verified = r.verified /\ b.grant = r.grant /\ b.guests = guests
        /\ b \in Registry
    <2>1. CASE CanBindGuest(r, g, t)
      <3> DEFINE e == EnterGuest(r, g, t)
      <3>1. e = [r EXCEPT !.guests = guests]
        BY <2>1 DEF EnterGuest
      <3>2. guests \in [User -> SUBSET User]
        BY DEF Registry
      <3>3. /\ e \in Registry
            /\ e.host = r.host /\ e.route = r.route /\ e.user = r.user
            /\ e.verified = r.verified /\ e.grant = r.grant /\ e.guests = guests
        <4> HIDE DEF guests, e
        <4> QED BY <3>1, <3>2 DEF Registry
      <3>4. r.host[t] \in User
        BY DEF Registry
      <3>5. b = StartRow(e, t, r.host[t], g)
        BY <2>1 DEF BindGuest
      <3> HIDE DEF guests, e, b
      <3>6. b \in Registry
        BY <3>3, <3>4, <3>5, StartRowType
      <3>7. /\ b.host = e.host /\ b.guests = e.guests /\ b.grant = e.grant
            /\ b.route = e.route /\ b.user = e.user /\ b.verified = e.verified
        BY <3>3, <3>4, <3>5, StartRowKeeps
      <3>8. b.guests = guests
        BY <3>3, <3>7
      <3> QED BY <3>3, <3>6, <3>7, <3>8 DEF b, guests
    <2>2. CASE ~CanBindGuest(r, g, t)
      <3>1. g \in r.guests[t] /\ b = r
        BY <2>2 DEF BindGuest, CanBindGuest
      <3>2. guests = r.guests
        BY <3>1 DEF Registry
      <3> QED BY <3>1, <3>2
    <2> QED BY <2>1, <2>2
  <1>2. GrantGuest(r, g, t, c) = [b EXCEPT !.grant = [r.grant EXCEPT ![t] = [r.grant[t] EXCEPT ![g] = c]]]
    BY <1>1 DEF GrantGuest, Registry
  <1> HIDE DEF b, guests
  <1>3. guests = [r.guests EXCEPT ![t] = r.guests[t] \cup {g}]
    BY DEF guests
  <1> QED BY <1>1, <1>2, <1>3 DEF Registry

LEMMA GrantGuestInv ==
    ASSUME NEW r, TablesInv(r), NEW g \in User, NEW t \in User, NEW c \in Conn,
           r.user[c] = g, r.host[t] \notin {NoUser, g}
    PROVE  TablesInv(GrantGuest(r, g, t, c))
  <1> DEFINE s == GrantGuest(r, g, t, c)
  <1>0. s = GrantGuest(r, g, t, c) /\ r \in Registry
    BY DEF TablesInv
  <1> HIDE DEF s
  <1>1. s \in Registry
    BY <1>0, GrantGuestType
  <1>2. /\ s.host = r.host /\ s.route = r.route /\ s.user = r.user /\ s.verified = r.verified
        /\ s.guests = [r.guests EXCEPT ![t] = r.guests[t] \cup {g}]
        /\ s.grant = [r.grant EXCEPT ![t] = [r.grant[t] EXCEPT ![g] = c]]
    BY <1>0, GrantGuestFields
  <1>3. RoutesCurrent(s) /\ KeysOwned(s)
    BY <1>2 DEF TablesInv, RoutesCurrent, KeysOwned
  <1>4. RoomsHosted(s)
    BY <1>2 DEF TablesInv, Registry, RoomsHosted
  <1>5. GrantsCurrent(s)
    BY <1>2 DEF TablesInv, Registry, GrantsCurrent
  <1> QED BY <1>0, <1>1, <1>3, <1>4, <1>5 DEF TablesInv

LEMMA ReleaseGuestFields ==
    ASSUME NEW r \in Registry, NEW g \in User, NEW rooms \in SUBSET User,
           NEW s, s = ReleaseGuest(r, g, rooms)
    PROVE  /\ s.host = r.host /\ s.route = r.route
           /\ s.user = r.user /\ s.verified = r.verified
           /\ \A t, u \in User : u \in s.guests[t] <=> u \in r.guests[t] /\ ~(t \in rooms /\ u = g)
           /\ \A t, u \in User : s.grant[t][u] =
                IF t \in rooms /\ u = g /\ g \in r.guests[t] THEN NoConn ELSE r.grant[t][u]
           /\ \A t, u \in User : s.ledger[t][u] =
                IF t \in rooms /\ u = g /\ g \in r.guests[t] THEN NoUser ELSE r.ledger[t][u]
  BY DEF ReleaseGuest, Registry

LEMMA ReleaseGuestInv ==
    ASSUME NEW r, TablesInv(r), NEW g \in User, NEW rooms \in SUBSET User
    PROVE  TablesInv(ReleaseGuest(r, g, rooms))
  <1> DEFINE s == ReleaseGuest(r, g, rooms)
  <1>0. s = ReleaseGuest(r, g, rooms) /\ r \in Registry
    BY DEF TablesInv
  <1> HIDE DEF s
  <1>1. s \in Registry
    BY <1>0, ReleaseGuestType
  <1>2. /\ s.host = r.host /\ s.route = r.route /\ s.user = r.user /\ s.verified = r.verified
        /\ \A t, u \in User : u \in s.guests[t] <=> u \in r.guests[t] /\ ~(t \in rooms /\ u = g)
        /\ \A t, u \in User : s.grant[t][u] =
             IF t \in rooms /\ u = g /\ g \in r.guests[t] THEN NoConn ELSE r.grant[t][u]
    <2>1. /\ s.host = r.host /\ s.route = r.route /\ s.user = r.user /\ s.verified = r.verified
          /\ \A t, u \in User : u \in s.guests[t] <=> u \in r.guests[t] /\ ~(t \in rooms /\ u = g)
      BY <1>0, ReleaseGuestFields
    <2>2. \A t, u \in User : s.grant[t][u] =
            IF t \in rooms /\ u = g /\ g \in r.guests[t] THEN NoConn ELSE r.grant[t][u]
      BY <1>0, ReleaseGuestFields
    <2> QED BY <2>1, <2>2
  <1>3. RoutesCurrent(s) /\ KeysOwned(s)
    BY <1>2 DEF TablesInv, RoutesCurrent, KeysOwned
  <1>4. RoomsHosted(s)
    <2> SUFFICES ASSUME NEW t \in User
                 PROVE  /\ t \notin s.guests[t]
                        /\ s.guests[t] # {} => r.guests[t] # {}
      BY <1>2 DEF TablesInv, RoomsHosted
    <2>1. s.guests[t] \subseteq r.guests[t]
      BY <1>1, <1>2 DEF Registry
    <2> QED BY <2>1 DEF TablesInv, RoomsHosted
  <1>5. GrantsCurrent(s)
    <2> SUFFICES ASSUME NEW t \in User, NEW u \in User, s.grant[t][u] # NoConn
                 PROVE  s.user[s.grant[t][u]] = u /\ u \in s.guests[t]
      BY DEF GrantsCurrent
    <2>1. s.grant[t][u] = r.grant[t][u] /\ ~(t \in rooms /\ u = g /\ g \in r.guests[t])
      BY <1>2
    <2>2. r.user[r.grant[t][u]] = u /\ u \in r.guests[t]
      BY <2>1 DEF TablesInv, GrantsCurrent
    <2> QED BY <1>2, <2>1, <2>2
  <1> QED BY <1>0, <1>1, <1>3, <1>4, <1>5 DEF TablesInv

LEMMA ReleaseRoomsFields ==
    ASSUME NEW r \in Registry, NEW rooms \in SUBSET User,
           NEW s, s = ReleaseRooms(r, rooms)
    PROVE  /\ s.route = r.route /\ s.user = r.user /\ s.verified = r.verified
           /\ \A t \in User : s.host[t] = IF t \in rooms THEN NoUser ELSE r.host[t]
           /\ \A t \in User : s.guests[t] = IF t \in rooms THEN {} ELSE r.guests[t]
           /\ \A t, u \in User : s.grant[t][u] =
                IF t \in rooms THEN NoConn ELSE r.grant[t][u]
           /\ \A t, u \in User : s.ledger[t][u] =
                IF t \in rooms /\ u \in r.guests[t] THEN NoUser ELSE r.ledger[t][u]
  BY DEF ReleaseRooms, Registry

LEMMA ReleaseRoomsInv ==
    ASSUME NEW r, TablesInv(r), NEW rooms \in SUBSET User
    PROVE  TablesInv(ReleaseRooms(r, rooms))
  <1> DEFINE s == ReleaseRooms(r, rooms)
  <1>0. s = ReleaseRooms(r, rooms) /\ r \in Registry
    BY DEF TablesInv
  <1> HIDE DEF s
  <1>1. s \in Registry
    BY <1>0, ReleaseRoomsType
  <1>2. /\ s.route = r.route /\ s.user = r.user /\ s.verified = r.verified
        /\ \A t \in User : s.host[t] = IF t \in rooms THEN NoUser ELSE r.host[t]
        /\ \A t \in User : s.guests[t] = IF t \in rooms THEN {} ELSE r.guests[t]
        /\ \A t, u \in User : s.grant[t][u] = IF t \in rooms THEN NoConn ELSE r.grant[t][u]
    BY <1>0, ReleaseRoomsFields
  <1>3. RoutesCurrent(s) /\ KeysOwned(s)
    BY <1>2 DEF TablesInv, RoutesCurrent, KeysOwned
  <1>4. RoomsHosted(s)
    BY <1>2 DEF TablesInv, RoomsHosted
  <1>5. GrantsCurrent(s)
    BY <1>2 DEF TablesInv, GrantsCurrent
  <1> QED BY <1>0, <1>1, <1>3, <1>4, <1>5 DEF TablesInv

-----------------------------------------------------------------------------
(* Connections. *)

LEMMA BindUserFields ==
    ASSUME NEW r \in Registry, NEW u \in User, NEW c \in Conn, NEW k \in Device \cup {NoUser},
           NEW s, s = BindUser(r, u, c, k)
    PROVE  /\ s.host = r.host /\ s.guests = r.guests /\ s.grant = r.grant
           /\ s.ledger = r.ledger
           /\ s.route = [r.route EXCEPT ![u] =
                           IF u \in Clone /\ r.route[u] # NoConn THEN r.route[u] ELSE c]
           /\ s.user = [r.user EXCEPT ![c] = u]
           /\ s.verified = [r.verified EXCEPT ![c] = IF k = NoUser THEN r.verified[c] ELSE k]
  BY DEF BindUser, Registry

LEMMA BindUserInv ==
    ASSUME NEW r, TablesInv(r), NEW u \in User, NEW c \in Conn, NEW k \in Device \cup {NoUser},
           r.user[c] = NoUser,
           k # NoUser => (k = u \/ (u \in Clone /\ Owner[u] = k))
    PROVE  TablesInv(BindUser(r, u, c, k))
  <1> DEFINE s == BindUser(r, u, c, k)
  <1>0. s = BindUser(r, u, c, k) /\ r \in Registry
    BY DEF TablesInv
  <1> HIDE DEF s
  <1>1. s \in Registry
    BY <1>0, BindUserType
  <1>2. /\ s.host = r.host /\ s.guests = r.guests /\ s.grant = r.grant
        /\ s.route = [r.route EXCEPT ![u] =
                        IF u \in Clone /\ r.route[u] # NoConn THEN r.route[u] ELSE c]
        /\ s.user = [r.user EXCEPT ![c] = u]
        /\ s.verified = [r.verified EXCEPT ![c] = IF k = NoUser THEN r.verified[c] ELSE k]
    BY <1>0, BindUserFields
  <1>3. NoUser \notin User /\ NoConn \notin Conn
    BY IdentityAssumption
  <1>4. RoutesCurrent(s)
    BY <1>2, <1>3 DEF TablesInv, Registry, RoutesCurrent
  <1>5. RoomsHosted(s)
    BY <1>2 DEF TablesInv, RoomsHosted
  <1>6. GrantsCurrent(s)
    BY <1>2, <1>3 DEF TablesInv, Registry, GrantsCurrent
  <1>7. KeysOwned(s)
    <2>1. r.verified[c] = NoUser
      BY <1>3 DEF TablesInv, KeysOwned, Registry, User
    <2> QED BY <1>2, <2>1 DEF TablesInv, Registry, KeysOwned
  <1> QED BY <1>0, <1>1, <1>4, <1>5, <1>6, <1>7 DEF TablesInv

(* Logging a connection out: the grants of its identity are the only ones that can point to it. *)
LEMMA ReleaseHandleFields ==
    ASSUME NEW r \in Registry, NEW c \in Conn, NEW next \in Successors(r, c),
           NEW s, s = ReleaseHandle(r, c, next)
    PROVE  /\ s.host = r.host /\ s.guests = r.guests /\ s.grant = r.grant
           /\ s.ledger = r.ledger
           /\ \A d \in Conn : s.user[d] = IF d = c THEN NoUser ELSE r.user[d]
           /\ \A d \in Conn : s.verified[d] = IF d = c THEN NoUser ELSE r.verified[d]
           /\ \A u \in User : r.user[c] = u /\ r.route[u] = c => s.route[u] = next
           /\ \A u \in User : ~(r.user[c] = u /\ r.route[u] = c) => s.route[u] = r.route[u]
  <1> DEFINE u == r.user[c]
             b == [r EXCEPT !.verified[c] = NoUser, !.user[c] = NoUser]
  <1>1. /\ b.host = r.host /\ b.guests = r.guests /\ b.grant = r.grant
        /\ b.ledger = r.ledger /\ b.route = r.route
        /\ b.user = [r.user EXCEPT ![c] = NoUser]
        /\ b.verified = [r.verified EXCEPT ![c] = NoUser]
        /\ b \in Registry
    BY DEF Registry
  <1>2. NoUser \notin User
    BY IdentityAssumption
  <1>3. CASE u # NoUser /\ r.route[u] = c
    <2>1. s = [b EXCEPT !.route[u] = next]
      BY <1>3 DEF ReleaseHandle
    <2> HIDE DEF b
    <2> QED BY <1>1, <1>3, <2>1 DEF Registry
  <1>4. CASE ~(u # NoUser /\ r.route[u] = c)
    <2>1. s = b
      BY <1>4 DEF ReleaseHandle
    <2> HIDE DEF b
    <2> QED BY <1>1, <1>2, <1>4, <2>1 DEF Registry
  <1> QED BY <1>3, <1>4

LEMMA ReleaseHandleInv ==
    ASSUME NEW r, TablesInv(r), NEW c \in Conn, NEW next \in Successors(r, c),
           NEW s, s = ReleaseHandle(r, c, next)
    PROVE  s \in Registry /\ RoutesCurrent(s) /\ RoomsHosted(s) /\ KeysOwned(s)
  <1>1. s \in Registry
    BY ReleaseHandleType DEF TablesInv
  <1>2. /\ s.host = r.host /\ s.guests = r.guests
        /\ \A d \in Conn : s.user[d] = IF d = c THEN NoUser ELSE r.user[d]
        /\ \A d \in Conn : s.verified[d] = IF d = c THEN NoUser ELSE r.verified[d]
        /\ \A u \in User : r.user[c] = u /\ r.route[u] = c => s.route[u] = next
        /\ \A u \in User : ~(r.user[c] = u /\ r.route[u] = c) => s.route[u] = r.route[u]
    BY ReleaseHandleFields DEF TablesInv
  <1>3. NoUser \notin User /\ NoConn \notin Conn
    BY IdentityAssumption
  <1>4. next \in Conn => next # c /\ r.user[next] = r.user[c]
    BY <1>3 DEF Successors
  <1>5. next \notin Conn => next = NoConn /\ \A d \in Conn : d # c => r.user[d] # r.user[c]
    BY <1>3 DEF Successors
  <1>6. \A u \in User : s.route[u] # NoConn => s.user[s.route[u]] = u
    <2> SUFFICES ASSUME NEW u \in User, s.route[u] # NoConn
                 PROVE  s.user[s.route[u]] = u
      OBVIOUS
    <2>1. CASE u = r.user[c] /\ r.route[u] = c
      BY <1>1, <1>2, <1>4, <1>5, <2>1 DEF TablesInv, Registry
    <2>2. CASE ~(u = r.user[c] /\ r.route[u] = c)
      <3>1. s.route[u] = r.route[u] /\ r.route[u] \in Conn /\ r.user[r.route[u]] = u
        BY <1>2, <2>2 DEF TablesInv, Registry, RoutesCurrent
      <3> QED BY <1>2, <2>2, <3>1 DEF TablesInv, Registry
    <2> QED BY <2>1, <2>2
  <1>7. \A d \in Conn : s.user[d] # NoUser => s.route[s.user[d]] # NoConn
    <2> SUFFICES ASSUME NEW d \in Conn, s.user[d] # NoUser
                 PROVE  s.route[s.user[d]] # NoConn
      OBVIOUS
    <2>1. d # c /\ s.user[d] = r.user[d] /\ r.user[d] \in User
      BY <1>2 DEF TablesInv, Registry
    <2>2. r.route[r.user[d]] # NoConn
      BY <2>1 DEF TablesInv, RoutesCurrent
    <2>3. CASE r.user[d] = r.user[c] /\ r.route[r.user[d]] = c
      BY <1>2, <1>3, <1>5, <2>1, <2>3
    <2>4. CASE ~(r.user[d] = r.user[c] /\ r.route[r.user[d]] = c)
      BY <1>2, <2>1, <2>2, <2>4
    <2> QED BY <2>3, <2>4
  <1>8. RoomsHosted(s)
    BY <1>2 DEF TablesInv, RoomsHosted
  <1>9. KeysOwned(s)
    BY <1>2 DEF TablesInv, Registry, KeysOwned
  <1> QED BY <1>1, <1>6, <1>7, <1>8, <1>9 DEF RoutesCurrent

(* The grants of a connection that logged out are exactly the joined rooms it releases. *)
LEMMA ReleaseUserSessionInv ==
    ASSUME NEW r, TablesInv(r), NEW c \in Conn, NEW next \in Successors(r, c)
    PROVE  TablesInv(ReleaseUserSession(r, c, next))
  <1> DEFINE u      == r.user[c]
             s      == ReleaseHandle(r, c, next)
             joined == {t \in User : r.grant[t][u] = c}
             rooms  == IF LoggedOut(r, c) THEN User ELSE joined
             g      == ReleaseGuest(s, u, rooms)
             own    == {IsHost(g, u)} \ {NoUser}
  <1>0. s = ReleaseHandle(r, c, next) /\ g = ReleaseGuest(s, u, rooms) /\ r \in Registry
    BY DEF TablesInv
  <1> HIDE DEF s, joined, rooms, g, own
  <1>1. s \in Registry /\ RoutesCurrent(s) /\ RoomsHosted(s) /\ KeysOwned(s)
    BY <1>0, ReleaseHandleInv
  <1>2. s.guests = r.guests /\ s.grant = r.grant /\ \A d \in Conn : s.user[d] = IF d = c THEN NoUser ELSE r.user[d]
    BY <1>0, ReleaseHandleFields
  <1>3. NoUser \notin User /\ NoConn \notin Conn
    BY IdentityAssumption
  <1>4. CASE u = NoUser
    <2>1. GrantsCurrent(s)
      BY <1>2, <1>3, <1>4 DEF TablesInv, Registry, GrantsCurrent
    <2> QED BY <1>1, <1>4, <2>1 DEF TablesInv, ReleaseUserSession, s
  <1>5. CASE u # NoUser
    <2>1. u \in User /\ rooms \in SUBSET User /\ \A t \in User : r.grant[t][u] = c => t \in rooms
      BY <1>5 DEF TablesInv, Registry, rooms, joined
    <2>2. g \in Registry
      BY <1>0, <1>1, <2>1, ReleaseGuestType
    <2>3. /\ g.host = s.host /\ g.route = s.route /\ g.user = s.user /\ g.verified = s.verified
          /\ \A t, v \in User : v \in g.guests[t] <=> v \in s.guests[t] /\ ~(t \in rooms /\ v = u)
          /\ \A t, v \in User : g.grant[t][v] =
               IF t \in rooms /\ v = u /\ u \in s.guests[t] THEN NoConn ELSE s.grant[t][v]
      <3>1. /\ g.host = s.host /\ g.route = s.route /\ g.user = s.user /\ g.verified = s.verified
            /\ \A t, v \in User : v \in g.guests[t] <=> v \in s.guests[t] /\ ~(t \in rooms /\ v = u)
        BY <1>0, <1>1, <2>1, ReleaseGuestFields
      <3>2. \A t, v \in User : g.grant[t][v] =
               IF t \in rooms /\ v = u /\ u \in s.guests[t] THEN NoConn ELSE s.grant[t][v]
        BY <1>0, <1>1, <2>1, ReleaseGuestFields
      <3> QED BY <3>1, <3>2
    <2>4. RoutesCurrent(g) /\ KeysOwned(g)
      BY <1>1, <2>3 DEF RoutesCurrent, KeysOwned
    <2>5. RoomsHosted(g)
      <3> SUFFICES ASSUME NEW t \in User
                   PROVE  /\ t \notin g.guests[t]
                          /\ g.guests[t] # {} => s.guests[t] # {}
        BY <1>1, <2>3 DEF RoomsHosted
      <3>1. g.guests[t] \subseteq s.guests[t]
        BY <2>2, <2>3 DEF Registry
      <3> QED BY <1>1, <3>1 DEF RoomsHosted
    <2>6. GrantsCurrent(g)
      <3> SUFFICES ASSUME NEW t \in User, NEW v \in User, g.grant[t][v] # NoConn
                   PROVE  g.user[g.grant[t][v]] = v /\ v \in g.guests[t]
        BY DEF GrantsCurrent
      <3>1. g.grant[t][v] = r.grant[t][v] /\ ~(t \in rooms /\ v = u /\ u \in r.guests[t])
        BY <1>2, <2>3
      <3>2. /\ r.user[r.grant[t][v]] = v /\ v \in r.guests[t]
            /\ r.grant[t][v] \in Conn
        BY <3>1 DEF TablesInv, Registry, GrantsCurrent
      <3>3. r.grant[t][v] # c
        BY <2>1, <3>1, <3>2
      <3> QED BY <1>2, <2>3, <3>1, <3>2, <3>3 DEF TablesInv, Registry
    <2>7. TablesInv(g)
      BY <2>2, <2>4, <2>5, <2>6 DEF TablesInv
    <2>8. CASE LoggedOut(r, c)
      <3>1. own \in SUBSET User
        BY DEF IsHost, HostedRooms, own
      <3>2. ReleaseUserSession(r, c, next) = ReleaseRooms(g, own)
        BY <1>5, <2>8 DEF ReleaseUserSession, s, g, rooms, joined, own
      <3> QED BY <2>7, <3>1, <3>2, ReleaseRoomsInv
    <2>9. CASE ~LoggedOut(r, c)
      BY <1>5, <2>7, <2>9 DEF ReleaseUserSession, s, g, rooms, joined
    <2> QED BY <2>8, <2>9
  <1> QED BY <1>4, <1>5

-----------------------------------------------------------------------------
(* Pruning, field by field. *)
LEMMA PruneFields ==
    ASSUME NEW r \in Registry, NEW live, NEW s, s = PruneDisconnected(r, live)
    PROVE  /\ s \in Registry
           /\ s.route = r.route /\ s.user = r.user /\ s.verified = r.verified
           /\ \A t \in User : s.host[t] = IF t \in HostGone(r) THEN NoUser ELSE r.host[t]
           /\ \A t, g \in User : g \in s.guests[t] <=>
                g \in r.guests[t] /\ t \notin HostGone(r) /\ ~GuestGone(r, live, t, g)
           /\ \A t, g \in User : s.grant[t][g] # NoConn =>
                /\ s.grant[t][g] = r.grant[t][g]
                /\ t \notin HostGone(r)
                /\ g \notin r.guests[t] \/ ~GuestGone(r, live, t, g)
           /\ \A t, g \in User : s.ledger[t][g] =
                IF g \in r.guests[t] /\ (t \in HostGone(r) \/ GuestGone(r, live, t, g))
                THEN NoUser ELSE r.ledger[t][g]
  <1> DEFINE b      == ReleaseRooms(r, HostGone(r))
             gone   == [t \in User |-> {g \in b.guests[t] : GuestGone(b, live, t, g)}]
             guests == [t \in User |-> b.guests[t] \ gone[t]]
             grant  == [t \in User |-> [g \in User |->
                          IF g \in gone[t] THEN NoConn ELSE b.grant[t][g]]]
             ledger == [t \in User |-> [g \in User |->
                          IF g \in gone[t] THEN NoUser ELSE b.ledger[t][g]]]
  <1>1. b = ReleaseRooms(r, HostGone(r)) /\ HostGone(r) \in SUBSET User
    BY DEF HostGone
  <1>2. s = [b EXCEPT !.guests = guests, !.grant = grant, !.ledger = ledger]
    BY DEF PruneDisconnected
  <1> HIDE DEF b
  <1>3. b \in Registry
    BY <1>1, ReleaseRoomsType
  <1>4. /\ guests \in [User -> SUBSET User]
        /\ grant \in [User -> [User -> Conn \cup {NoConn}]]
        /\ ledger \in [User -> [User -> User \cup {NoUser}]]
    BY <1>3 DEF Registry
  <1>5. /\ b.route = r.route /\ b.user = r.user /\ b.verified = r.verified
        /\ \A t \in User : b.host[t] = IF t \in HostGone(r) THEN NoUser ELSE r.host[t]
        /\ \A t \in User : b.guests[t] = IF t \in HostGone(r) THEN {} ELSE r.guests[t]
    BY <1>1, ReleaseRoomsFields
  <1>6. /\ \A t, u \in User : b.grant[t][u] = IF t \in HostGone(r) THEN NoConn ELSE r.grant[t][u]
        /\ \A t, u \in User : b.ledger[t][u] =
             IF t \in HostGone(r) /\ u \in r.guests[t] THEN NoUser ELSE r.ledger[t][u]
    BY <1>1, ReleaseRoomsFields
  <1>7. \A t, g \in User : g \in gone[t] <=>
          g \in r.guests[t] /\ t \notin HostGone(r) /\ GuestGone(r, live, t, g)
    <2> SUFFICES ASSUME NEW t \in User, NEW g \in User
                 PROVE  g \in gone[t] <=>
                          g \in r.guests[t] /\ t \notin HostGone(r) /\ GuestGone(r, live, t, g)
      OBVIOUS
    <2>1. g \in gone[t] <=> g \in b.guests[t] /\ GuestGone(b, live, t, g)
      BY <1>3 DEF Registry
    <2>2. g \in b.guests[t] <=> g \in r.guests[t] /\ t \notin HostGone(r)
      BY <1>5
    <2>3. t \notin HostGone(r) => (GuestGone(b, live, t, g) <=> GuestGone(r, live, t, g))
      BY <1>5, <1>6 DEF GuestGone, HasUserConnection
    <2> QED BY <2>1, <2>2, <2>3
  <1>8. /\ \A t, g \in User : g \in guests[t] <=> g \in b.guests[t] /\ g \notin gone[t]
        /\ \A t, g \in User : grant[t][g] = IF g \in gone[t] THEN NoConn ELSE b.grant[t][g]
        /\ \A t, g \in User : ledger[t][g] = IF g \in gone[t] THEN NoUser ELSE b.ledger[t][g]
    OBVIOUS
  <1> HIDE DEF gone, guests, grant, ledger
  <1>9. /\ s \in Registry
        /\ s.host = b.host /\ s.route = b.route /\ s.user = b.user /\ s.verified = b.verified
        /\ s.guests = guests /\ s.grant = grant /\ s.ledger = ledger
    BY <1>2, <1>3, <1>4 DEF Registry
  <1>10. \A t, g \in User : g \in s.guests[t] <=>
           g \in r.guests[t] /\ t \notin HostGone(r) /\ ~GuestGone(r, live, t, g)
    BY <1>5, <1>7, <1>8, <1>9
  <1>11. \A t, g \in User : s.grant[t][g] # NoConn =>
           /\ s.grant[t][g] = r.grant[t][g]
           /\ t \notin HostGone(r)
           /\ g \notin r.guests[t] \/ ~GuestGone(r, live, t, g)
    <2> SUFFICES ASSUME NEW t \in User, NEW g \in User, s.grant[t][g] # NoConn
                 PROVE  /\ s.grant[t][g] = r.grant[t][g]
                        /\ t \notin HostGone(r)
                        /\ g \notin r.guests[t] \/ ~GuestGone(r, live, t, g)
      OBVIOUS
    <2>1. g \notin gone[t] /\ s.grant[t][g] = b.grant[t][g]
      BY <1>8, <1>9
    <2>2. t \notin HostGone(r) /\ b.grant[t][g] = r.grant[t][g]
      BY <1>6, <2>1
    <2> QED BY <1>7, <2>1, <2>2
  <1>12. \A t, g \in User : s.ledger[t][g] =
           IF g \in r.guests[t] /\ (t \in HostGone(r) \/ GuestGone(r, live, t, g))
           THEN NoUser ELSE r.ledger[t][g]
    BY <1>6, <1>7, <1>8, <1>9
  <1>13. \A t \in User : s.host[t] = IF t \in HostGone(r) THEN NoUser ELSE r.host[t]
    BY <1>5, <1>9
  <1> QED BY <1>5, <1>9, <1>10, <1>11, <1>12, <1>13

LEMMA PruneInv ==
    ASSUME NEW r, TablesInv(r), NEW live
    PROVE  TablesInv(PruneDisconnected(r, live))
  <1> DEFINE s == PruneDisconnected(r, live)
  <1>0. s = PruneDisconnected(r, live) /\ r \in Registry
    BY DEF TablesInv
  <1> HIDE DEF s
  <1>1. /\ s \in Registry /\ s.route = r.route /\ s.user = r.user /\ s.verified = r.verified
        /\ \A t \in User : s.host[t] = IF t \in HostGone(r) THEN NoUser ELSE r.host[t]
        /\ \A t, g \in User : g \in s.guests[t] <=>
             g \in r.guests[t] /\ t \notin HostGone(r) /\ ~GuestGone(r, live, t, g)
    BY <1>0, PruneFields
  <1>2. \A t, g \in User : s.grant[t][g] # NoConn =>
          /\ s.grant[t][g] = r.grant[t][g]
          /\ t \notin HostGone(r)
          /\ g \notin r.guests[t] \/ ~GuestGone(r, live, t, g)
    BY <1>0, PruneFields
  <1>3. RoutesCurrent(s) /\ KeysOwned(s)
    BY <1>1 DEF TablesInv, RoutesCurrent, KeysOwned
  <1>4. RoomsHosted(s)
    <2> SUFFICES ASSUME NEW t \in User
                 PROVE  /\ t \notin s.guests[t]
                        /\ s.guests[t] # {} => r.guests[t] # {} /\ t \notin HostGone(r)
      BY <1>1 DEF TablesInv, RoomsHosted
    <2>1. s.guests[t] \subseteq r.guests[t]
      BY <1>1 DEF Registry
    <2>2. ASSUME s.guests[t] # {} PROVE t \notin HostGone(r)
      <3>1. PICK g : g \in s.guests[t]
        BY <2>2
      <3>2. g \in User
        BY <1>1, <3>1 DEF Registry
      <3> QED BY <1>1, <3>1, <3>2
    <2> QED BY <2>1, <2>2 DEF TablesInv, RoomsHosted
  <1>5. GrantsCurrent(s)
    <2> SUFFICES ASSUME NEW t \in User, NEW g \in User, s.grant[t][g] # NoConn
                 PROVE  s.user[s.grant[t][g]] = g /\ g \in s.guests[t]
      BY DEF GrantsCurrent
    <2>1. /\ s.grant[t][g] = r.grant[t][g] /\ t \notin HostGone(r)
          /\ g \notin r.guests[t] \/ ~GuestGone(r, live, t, g)
      BY <1>2
    <2>2. r.user[r.grant[t][g]] = g /\ g \in r.guests[t]
      BY <2>1 DEF TablesInv, GrantsCurrent
    <2> QED BY <1>1, <2>1, <2>2
  <1> QED BY <1>0, <1>1, <1>3, <1>4, <1>5 DEF TablesInv

-----------------------------------------------------------------------------
(* What a logout changes, for the invariants about connections. *)
LEMMA ReleaseUserSessionFields ==
    ASSUME NEW r, TablesInv(r), NEW c \in Conn, NEW next \in Successors(r, c),
           NEW s, s = ReleaseUserSession(r, c, next)
    PROVE  /\ \A d \in Conn : s.user[d] = IF d = c THEN NoUser ELSE r.user[d]
           /\ \A t \in User : s.host[t] \in {NoUser, r.host[t]}
           /\ \A t \in User : s.guests[t] \subseteq r.guests[t]
           /\ \A t, g \in User : s.grant[t][g] \in {NoConn, r.grant[t][g]}
           /\ LoggedOut(r, c) => \A t \in User : s.host[t] # r.user[c] /\ r.user[c] \notin s.guests[t]
           /\ LedgerCurrent(r) => LedgerCurrent(s)
  <1> DEFINE u      == r.user[c]
             h      == ReleaseHandle(r, c, next)
             joined == {t \in User : r.grant[t][u] = c}
             rooms  == IF LoggedOut(r, c) THEN User ELSE joined
             g      == ReleaseGuest(h, u, rooms)
             own    == {IsHost(g, u)} \ {NoUser}
             z      == ReleaseRooms(g, own)
  <1>1. /\ h = ReleaseHandle(r, c, next) /\ g = ReleaseGuest(h, u, rooms)
        /\ z = ReleaseRooms(g, own) /\ r \in Registry
    BY DEF TablesInv
  <1>2. h \in Registry /\ RoomsHosted(h)
    BY ReleaseHandleInv
  <1> HIDE DEF h, g, z
  <1>3. /\ h.host = r.host /\ h.guests = r.guests /\ h.grant = r.grant /\ h.ledger = r.ledger
        /\ \A d \in Conn : h.user[d] = IF d = c THEN NoUser ELSE r.user[d]
    BY <1>1, ReleaseHandleFields
  <1>4. NoUser \notin User /\ NoConn \notin Conn
    BY IdentityAssumption
  <1>5. CASE u = NoUser
    <2>1. s = h
      BY <1>5 DEF ReleaseUserSession, h
    <2>2. LedgerCurrent(r) => LedgerCurrent(s)
      BY <1>3, <2>1 DEF LedgerCurrent
    <2> QED BY <1>3, <1>5, <2>1, <2>2 DEF LoggedOut
  <1>6. CASE u # NoUser
    <2>1. u \in User /\ rooms \in SUBSET User
      BY <1>6 DEF TablesInv, Registry
    <2>2. LoggedOut(r, c) => rooms = User
      OBVIOUS
    <2> HIDE DEF rooms
    <2>3. /\ g \in Registry /\ g.host = h.host /\ g.user = h.user
          /\ \A t, v \in User : v \in g.guests[t] <=> v \in h.guests[t] /\ ~(t \in rooms /\ v = u)
      BY <1>1, <1>2, <2>1, ReleaseGuestType, ReleaseGuestFields
    <2>4. \A t, v \in User : g.grant[t][v] =
            IF t \in rooms /\ v = u /\ u \in h.guests[t] THEN NoConn ELSE h.grant[t][v]
      BY <1>1, <1>2, <2>1, ReleaseGuestFields
    <2>5. \A t, v \in User : g.ledger[t][v] =
            IF t \in rooms /\ v = u /\ u \in h.guests[t] THEN NoUser ELSE h.ledger[t][v]
      BY <1>1, <1>2, <2>1, ReleaseGuestFields
    <2>6. \A t \in User : g.guests[t] \subseteq r.guests[t]
      BY <1>3, <2>3 DEF Registry
    <2>7. LedgerCurrent(r) => LedgerCurrent(g)
      BY <1>3, <2>3, <2>5 DEF LedgerCurrent
    <2>8. CASE LoggedOut(r, c)
      <3>1. s = z
        BY <1>6, <2>8 DEF ReleaseUserSession, z, g, h, rooms
      <3>2. own \in SUBSET User
        BY DEF IsHost, HostedRooms
      <3>3. \A t \in User : g.host[t] = u => t \in own
        <4> SUFFICES ASSUME NEW t \in User, g.host[t] = u
                     PROVE  t \in own
          OBVIOUS
        <4>1. HostedRooms(g, u) = {u} /\ t = u
          BY <1>2, <1>4, <2>1, <2>3 DEF HostedRooms, RoomsHosted
        <4> QED BY <1>4, <2>1, <4>1 DEF IsHost
      <3> HIDE DEF own
      <3>4. /\ z.user = g.user
            /\ \A t \in User : z.host[t] = IF t \in own THEN NoUser ELSE g.host[t]
            /\ \A t \in User : z.guests[t] = IF t \in own THEN {} ELSE g.guests[t]
        BY <1>1, <2>3, <3>2, ReleaseRoomsFields
      <3>5. \A t, v \in User : z.grant[t][v] = IF t \in own THEN NoConn ELSE g.grant[t][v]
        BY <1>1, <2>3, <3>2, ReleaseRoomsFields
      <3>6. \A t, v \in User : z.ledger[t][v] =
              IF t \in own /\ v \in g.guests[t] THEN NoUser ELSE g.ledger[t][v]
        BY <1>1, <2>3, <3>2, ReleaseRoomsFields
      <3>7. LedgerCurrent(r) => LedgerCurrent(z)
        BY <2>7, <3>4, <3>6 DEF LedgerCurrent
      <3>8. \A t \in User : z.host[t] # u /\ u \notin z.guests[t]
        BY <1>4, <2>1, <2>2, <2>3, <2>8, <3>3, <3>4
      <3>9. \A t \in User : z.host[t] \in {NoUser, r.host[t]} /\ z.guests[t] \subseteq r.guests[t]
        BY <1>3, <2>3, <2>6, <3>4
      <3>10. \A t, v \in User : z.grant[t][v] \in {NoConn, r.grant[t][v]}
        BY <1>3, <2>4, <3>5
      <3> QED BY <1>3, <2>3, <3>1, <3>4, <3>7, <3>8, <3>9, <3>10
    <2>9. CASE ~LoggedOut(r, c)
      <3>1. s = g
        BY <1>6, <2>9 DEF ReleaseUserSession, g, h, rooms
      <3>2. \A t, v \in User : g.grant[t][v] \in {NoConn, r.grant[t][v]}
        BY <1>3, <2>4
      <3> QED BY <1>3, <2>3, <2>6, <2>7, <2>9, <3>1, <3>2
    <2> QED BY <2>8, <2>9
  <1> QED BY <1>5, <1>6

(* What a logout leaves alone: any other connection keeps its login, its      *)
(* identity's route unless that was this connection, the room its identity    *)
(* hosts, and its grants unless the room's own device has logged out.         *)
LEMMA ReleaseUserSessionOthers ==
    ASSUME NEW r, TablesInv(r), NEW c \in Conn, NEW next \in Successors(r, c),
           NEW s, s = ReleaseUserSession(r, c, next),
           NEW d \in Conn, d # c, r.user[d] # NoUser
    PROVE  /\ s.user[d] = r.user[d]
           /\ r.route[r.user[d]] # c => s.route[r.user[d]] = r.route[r.user[d]]
           /\ s.host[r.user[d]] = r.host[r.user[d]]
           /\ \A t \in User : r.grant[t][r.user[d]] = d /\ s.grant[t][r.user[d]] # d =>
                 r.user[c] = t /\ ~HasUserConnection(s, t)
  <1> DEFINE u      == r.user[c]
             v      == r.user[d]
             h      == ReleaseHandle(r, c, next)
             joined == {t \in User : r.grant[t][u] = c}
             rooms  == IF LoggedOut(r, c) THEN User ELSE joined
             g      == ReleaseGuest(h, u, rooms)
             own    == {IsHost(g, u)} \ {NoUser}
             z      == ReleaseRooms(g, own)
  <1>1. /\ h = ReleaseHandle(r, c, next) /\ g = ReleaseGuest(h, u, rooms)
        /\ z = ReleaseRooms(g, own) /\ r \in Registry
    BY DEF TablesInv
  <1>2. h \in Registry /\ RoomsHosted(h)
    BY ReleaseHandleInv
  <1> HIDE DEF h, g, z
  <1>3. /\ h.host = r.host /\ h.guests = r.guests /\ h.grant = r.grant
        /\ \A e \in Conn : h.user[e] = IF e = c THEN NoUser ELSE r.user[e]
    BY <1>1, ReleaseHandleFields
  <1>4. \A w \in User : r.route[w] # c => h.route[w] = r.route[w]
    BY <1>1 DEF ReleaseHandle, Registry
  <1>5. NoUser \notin User /\ NoConn \notin Conn /\ v \in User
    BY <1>1, IdentityAssumption DEF Registry
  <1>6. CASE u = NoUser
    <2>1. s = h
      BY <1>6 DEF ReleaseUserSession, h
    <2> QED BY <1>3, <1>4, <1>5, <2>1
  <1>7. CASE u # NoUser
    <2>1. u \in User /\ rooms \in SUBSET User
      BY <1>7 DEF TablesInv, Registry
    <2>2. u = v => ~LoggedOut(r, c)
      BY <1>7, IdentityAssumption DEF LoggedOut, Successors
    <2>3. \A t \in rooms : u = v => r.grant[t][v] # d
      BY <2>2
    <2> HIDE DEF rooms
    <2>4. /\ g \in Registry /\ g.host = h.host /\ g.user = h.user /\ g.route = h.route
          /\ \A t, w \in User : g.grant[t][w] =
               IF t \in rooms /\ w = u /\ u \in h.guests[t] THEN NoConn ELSE h.grant[t][w]
      BY <1>1, <1>2, <2>1, ReleaseGuestType, ReleaseGuestFields
    <2>5. \A t \in User : r.grant[t][v] = d => g.grant[t][v] = d
      BY <1>3, <1>5, <2>1, <2>3, <2>4
    <2>6. CASE LoggedOut(r, c)
      <3>1. s = z
        BY <1>7, <2>6 DEF ReleaseUserSession, z, g, h, rooms
      <3>2. own \in SUBSET User /\ own \subseteq {u}
        <4>1. HostedRooms(g, u) \subseteq {u}
          BY <1>2, <1>5, <2>1, <2>4 DEF HostedRooms, RoomsHosted
        <4> QED BY <2>1, <4>1 DEF IsHost
      <3> HIDE DEF own
      <3>3. /\ z.user = g.user /\ z.route = g.route
            /\ \A t \in User : z.host[t] = IF t \in own THEN NoUser ELSE g.host[t]
            /\ \A t, w \in User : z.grant[t][w] = IF t \in own THEN NoConn ELSE g.grant[t][w]
        BY <1>1, <2>4, <3>2, ReleaseRoomsFields
      <3>4. \A e \in Conn \ {c} : r.user[e] # u
        BY <2>6, IdentityAssumption DEF LoggedOut, Successors
      <3>5. ~HasUserConnection(s, u)
        BY <1>3, <1>7, <2>4, <3>1, <3>3, <3>4 DEF HasUserConnection
      <3>6. v # u
        BY <2>2, <2>6
      <3>7. \A t \in User : r.grant[t][v] = d /\ z.grant[t][v] # d => t = u
        BY <1>5, <2>5, <3>2, <3>3
      <3> QED BY <1>3, <1>4, <1>5, <2>4, <3>1, <3>2, <3>3, <3>5, <3>6, <3>7
    <2>7. CASE ~LoggedOut(r, c)
      <3>1. s = g
        BY <1>7, <2>7 DEF ReleaseUserSession, g, h, rooms
      <3> QED BY <1>3, <1>4, <1>5, <2>4, <2>5, <3>1
    <2> QED BY <2>6, <2>7
  <1> QED BY <1>6, <1>7

-----------------------------------------------------------------------------
(* The session table: entering a room starts the guest's row, once. *)
LEMMA StartRowFields ==
    ASSUME NEW r \in Registry, NEW t \in User, NEW g \in User, g # t,
           r.ledger[t][g] \in {NoUser, t}, NEW s, s = StartRow(r, t, t, g)
    PROVE  \A x, v \in User : s.ledger[x][v] = IF x = t /\ v = g THEN t ELSE r.ledger[x][v]
<1> DEFINE row == IF r.ledger[t][g] = NoUser THEN t ELSE r.ledger[t][g]
<1>1. s = [r EXCEPT !.ledger = [r.ledger EXCEPT ![t] = [r.ledger[t] EXCEPT ![g] = row]]]
  BY IdentityAssumption DEF StartRow
<1>2. row = t
  OBVIOUS
<1> QED BY <1>1, <1>2 DEF Registry

LEMMA EnterFields ==
    ASSUME NEW r, TablesInv(r), NEW g \in User, NEW t \in User, NEW c \in Conn,
           r.user[c] = g, r.host[t] = t, g # t, r.ledger[t][g] \in {NoUser, t},
           NEW s, s = StartRow(GrantGuest(r, g, t, c), t, t, g)
    PROVE  /\ TablesInv(s)
           /\ s.user = r.user
           /\ \A x, v \in User : v \in s.guests[x] <=> v \in r.guests[x] \/ (x = t /\ v = g)
           /\ \A x, v \in User : s.grant[x][v] = IF x = t /\ v = g THEN c ELSE r.grant[x][v]
           /\ \A x, v \in User : s.ledger[x][v] = IF x = t /\ v = g THEN t ELSE r.ledger[x][v]
<1> DEFINE b == BindGuest(r, g, t)
           d == GrantGuest(r, g, t, c)
<1>1. r \in Registry /\ r.host[t] \notin {NoUser, g}
  BY IdentityAssumption DEF TablesInv
<1>2. b \in Registry /\ b.ledger[t][g] \in {NoUser, t}
      /\ \A x, v \in User : <<x, v>> # <<t, g>> => b.ledger[x][v] = r.ledger[x][v]
  <2>1. CASE CanBindGuest(r, g, t)
    <3> DEFINE e == EnterGuest(r, g, t)
               guests == [r.guests EXCEPT ![t] = r.guests[t] \cup {g}]
    <3>1. e = [r EXCEPT !.guests = guests]
      BY <2>1 DEF EnterGuest
    <3>2. guests \in [User -> SUBSET User]
      BY <1>1 DEF Registry
    <3> HIDE DEF guests
    <3>3. e \in Registry /\ e.ledger = r.ledger
      BY <1>1, <3>1, <3>2 DEF Registry
    <3>4. b = StartRow(e, t, t, g)
      BY <2>1 DEF BindGuest
    <3> HIDE DEF e, b
    <3>5. b \in Registry
      BY <3>3, <3>4, StartRowType
    <3>6. \A x, v \in User : b.ledger[x][v] = IF x = t /\ v = g THEN t ELSE e.ledger[x][v]
      BY <3>3, <3>4, StartRowFields
    <3> QED BY <3>3, <3>5, <3>6
  <2>2. CASE ~CanBindGuest(r, g, t)
    BY <1>1, <2>2 DEF BindGuest
  <2> QED BY <2>1, <2>2
<1>3. d = [b EXCEPT !.grant[t][g] = c]
  BY DEF GrantGuest
<1> HIDE DEF b
<1>4. d.ledger = b.ledger
  BY <1>2, <1>3 DEF Registry
<1>5. d = GrantGuest(r, g, t, c)
  OBVIOUS
<1> HIDE DEF d
<1>6. TablesInv(d) /\ d \in Registry
  BY <1>1, <1>5, GrantGuestInv DEF TablesInv
<1>7. /\ d.user = r.user
      /\ d.guests = [r.guests EXCEPT ![t] = r.guests[t] \cup {g}]
      /\ d.grant = [r.grant EXCEPT ![t] = [r.grant[t] EXCEPT ![g] = c]]
  BY <1>1, <1>5, GrantGuestFields
<1>8. s.user = d.user /\ s.guests = d.guests /\ s.grant = d.grant
  BY <1>5, <1>6, StartRowKeeps
<1>9. \A x, v \in User : s.ledger[x][v] = IF x = t /\ v = g THEN t ELSE d.ledger[x][v]
  BY <1>2, <1>4, <1>5, <1>6, StartRowFields
<1>10. TablesInv(s)
  BY <1>5, <1>6, StartRowInv
<1>11. \A x, v \in User : v \in s.guests[x] <=> v \in r.guests[x] \/ (x = t /\ v = g)
  BY <1>1, <1>7, <1>8 DEF Registry
<1>12. \A x, v \in User : s.grant[x][v] = IF x = t /\ v = g THEN c ELSE r.grant[x][v]
  BY <1>1, <1>7, <1>8 DEF Registry
<1>13. \A x, v \in User : s.ledger[x][v] = IF x = t /\ v = g THEN t ELSE r.ledger[x][v]
  <2> SUFFICES ASSUME NEW x \in User, NEW v \in User
               PROVE  s.ledger[x][v] = IF x = t /\ v = g THEN t ELSE r.ledger[x][v]
    OBVIOUS
  <2>1. CASE x = t /\ v = g
    BY <1>9, <2>1
  <2>2. CASE <<x, v>> # <<t, g>>
    BY <1>2, <1>4, <1>9, <2>2
  <2> QED BY <2>1, <2>2
<1> QED BY <1>7, <1>8, <1>10, <1>11, <1>12, <1>13

-----------------------------------------------------------------------------
(* The fields that the handlers above leave alone. *)

(* An administrator ends the rows of a room that has no guest left. *)
LEMMA EndRoomRowsFields ==
    ASSUME NEW r \in Registry, NEW t \in User, NEW s, s = EndRoomRows(r, t)
    PROVE  /\ s \in Registry
           /\ s.host = r.host /\ s.guests = r.guests /\ s.grant = r.grant
           /\ s.route = r.route /\ s.user = r.user /\ s.verified = r.verified
           /\ \A x, g \in User : s.ledger[x][g] = IF x = t THEN NoUser ELSE r.ledger[x][g]
<1> DEFINE none == [g \in User |-> NoUser]
           rows == [r.ledger EXCEPT ![t] = none]
<1>1. rows \in [User -> [User -> User \cup {NoUser}]]
  BY DEF Registry
<1>2. \A x, g \in User : rows[x][g] = IF x = t THEN NoUser ELSE r.ledger[x][g]
  BY DEF Registry
<1>3. s = [r EXCEPT !.ledger = rows]
  BY DEF EndRoomRows, Registry
<1> HIDE DEF rows
<1> QED BY <1>1, <1>2, <1>3 DEF Registry

LEMMA EndRoomRowsInv ==
    ASSUME NEW r, TablesInv(r), LedgerCurrent(r), NEW t \in User, r.guests[t] = {}
    PROVE  TablesInv(EndRoomRows(r, t)) /\ LedgerCurrent(EndRoomRows(r, t))
<1> DEFINE s == EndRoomRows(r, t)
<1>0. s = EndRoomRows(r, t) /\ r \in Registry
  BY DEF TablesInv
<1> HIDE DEF s
<1>1. /\ s \in Registry
      /\ s.host = r.host /\ s.guests = r.guests /\ s.grant = r.grant
      /\ s.route = r.route /\ s.user = r.user /\ s.verified = r.verified
      /\ \A x, g \in User : s.ledger[x][g] = IF x = t THEN NoUser ELSE r.ledger[x][g]
  BY <1>0, EndRoomRowsFields, SMTT(40)
<1>2. RoutesCurrent(s) /\ GrantsCurrent(s) /\ RoomsHosted(s) /\ KeysOwned(s)
  BY <1>1 DEF TablesInv, RoutesCurrent, GrantsCurrent, RoomsHosted, KeysOwned
<1>3. LedgerCurrent(s)
  BY <1>1 DEF LedgerCurrent
<1> QED BY <1>0, <1>1, <1>2, <1>3 DEF TablesInv

LEMMA BindHostFields ==
    ASSUME NEW r \in Registry, NEW u \in User, NEW s, s = BindHost(r, u, u)
    PROVE  /\ s.guests = r.guests /\ s.grant = r.grant /\ s.ledger = r.ledger
           /\ s.route = r.route /\ s.user = r.user /\ s.verified = r.verified
  BY DEF BindHost, Registry

LEMMA BindUserKeeps ==
    ASSUME NEW r \in Registry, NEW u \in User, NEW c \in Conn, NEW k \in Device \cup {NoUser},
           NEW s, s = BindUser(r, u, c, k)
    PROVE  /\ s.host = r.host /\ s.guests = r.guests /\ s.grant = r.grant /\ s.ledger = r.ledger
           /\ \A d \in Conn : s.user[d] = IF d = c THEN u ELSE r.user[d]
  BY DEF BindUser, Registry

LEMMA GrantGuestKeeps ==
    ASSUME NEW r \in Registry, NEW g \in User, NEW t \in User, NEW c \in Conn,
           NEW s, s = GrantGuest(r, g, t, c)
    PROVE  /\ s.user = r.user /\ s.host = r.host
           /\ \A x \in User : s.guests[x] \subseteq r.guests[x] \cup {g}
           /\ \A x, v \in User : s.grant[x][v] = IF x = t /\ v = g THEN c ELSE r.grant[x][v]
<1> DEFINE b == BindGuest(r, g, t)
<1>1. b.user = r.user /\ b.host = r.host /\ b.grant = r.grant
  BY DEF BindGuest, EnterGuest, StartRow, Registry
<1>2. \A x \in User : b.guests[x] \subseteq r.guests[x] \cup {g}
  BY DEF BindGuest, EnterGuest, StartRow, Registry
<1>3. s = [b EXCEPT !.grant[t][g] = c]
  BY DEF GrantGuest
<1> HIDE DEF b
<1> QED BY <1>1, <1>2, <1>3 DEF Registry

-----------------------------------------------------------------------------
(* A restart. *)

(* Session rows as any process leaves them: a room is named after its host, *)
(* which is no temporary controller and never its own guest.                *)
SoundRows(rows) ==
    /\ rows \in [User -> [User -> User \cup {NoUser}]]
    /\ \A t, g \in User : rows[t][g] # NoUser =>
          rows[t][g] = t /\ t \notin Temporary /\ t # g

LEMMA EmptyRegistryType ==
    ASSUME NEW rows \in [User -> [User -> User \cup {NoUser}]]
    PROVE  EmptyRegistry(rows) \in Registry
  BY DEF EmptyRegistry, Registry

(* A restart gives every room of a row its host, and every row outside the  *)
(* recovery its guest; nobody is connected.                                 *)
LEMMA RestoredFields ==
    ASSUME NEW rows, SoundRows(rows), NEW managed, NEW r, r = Restore(rows, managed)
    PROVE  /\ r \in Registry
           /\ r.ledger = rows
           /\ \A t \in User : r.host[t] \in {NoUser, t}
           /\ \A t \in Temporary : r.host[t] = NoUser
           /\ \A t \in User : r.guests[t] # {} => r.host[t] = t
           /\ \A t, g \in User : g \in r.guests[t] <=> rows[t][g] # NoUser /\ <<t, g>> \notin managed
           /\ \A u \in User : r.route[u] = NoConn
           /\ \A c \in Conn : r.user[c] = NoUser
           /\ \A c \in Conn : r.verified[c] = NoUser
           /\ \A t, g \in User : r.grant[t][g] = NoConn
<1> DEFINE hosts(t)  == {rows[t][g] : g \in User} \ {NoUser}
           host(t)   == IF hosts(t) = {} \/ t \in Temporary THEN NoUser
                        ELSE CHOOSE h \in hosts(t) : TRUE
           guests(t) == {g \in User : rows[t][g] # NoUser /\ <<t, g>> \notin managed}
           e         == EmptyRegistry(rows)
           H         == [t \in User |-> host(t)]
           G         == [t \in User |-> IF host(t) = NoUser THEN {} ELSE guests(t) \ {host(t)}]
<1>1. \A t, g \in User : rows[t][g] # NoUser => rows[t][g] = t /\ t \notin Temporary /\ t # g
  BY DEF SoundRows
<1>2. \A t \in User : t # NoUser
  BY IdentityAssumption
<1>3. \A t \in User : (\E g \in User : rows[t][g] # NoUser) => hosts(t) = {t} /\ t \notin Temporary
  <2> SUFFICES ASSUME NEW t \in User, NEW g \in User, rows[t][g] # NoUser
               PROVE  hosts(t) = {t} /\ t \notin Temporary
    OBVIOUS
  <2>1. rows[t][g] = t /\ t \notin Temporary
    BY <1>1
  <2>2. \A x \in hosts(t) : x = t
    BY <1>1
  <2>3. t \in hosts(t)
    BY <1>2, <2>1
  <2> QED BY <2>1, <2>2, <2>3
<1>4. \A t \in User : (\A g \in User : rows[t][g] = NoUser) => hosts(t) = {}
  OBVIOUS
<1>5. \A t \in User : (\E g \in User : rows[t][g] # NoUser) => host(t) = t
  BY <1>3
<1>6. \A t \in User : (\A g \in User : rows[t][g] = NoUser) => host(t) = NoUser
  BY <1>4
<1>7. \A t \in User : host(t) \in {NoUser, t}
  BY <1>5, <1>6
<1>8. \A t \in Temporary : host(t) = NoUser
  OBVIOUS
<1> HIDE DEF host, hosts
<1>9. \A t, g \in User : g \in G[t] <=> rows[t][g] # NoUser /\ <<t, g>> \notin managed
  <2> SUFFICES ASSUME NEW t \in User, NEW g \in User
               PROVE  g \in G[t] <=> rows[t][g] # NoUser /\ <<t, g>> \notin managed
    OBVIOUS
  <2>1. CASE rows[t][g] # NoUser
    <3>1. host(t) = t /\ t # NoUser /\ g # t
      BY <1>1, <1>2, <1>5, <2>1
    <3> QED BY <3>1, <2>1
  <2>2. CASE rows[t][g] = NoUser
    BY <2>2
  <2> QED BY <2>1, <2>2
<1>10. \A t \in User : G[t] # {} => H[t] = t
  BY <1>7
<1>11. H \in [User -> User \cup {NoUser}] /\ G \in [User -> SUBSET User]
  BY <1>7
<1>12. \A t \in User : H[t] = host(t)
  OBVIOUS
<1> HIDE DEF H, G
<1>13. r = [e EXCEPT !.host = H, !.guests = G]
  BY DEF Restore, H, G, host, hosts
<1>14. e \in Registry
  BY EmptyRegistryType DEF SoundRows
<1>15. /\ e.ledger = rows
       /\ \A u \in User : e.route[u] = NoConn
       /\ \A c \in Conn : e.user[c] = NoUser
       /\ \A c \in Conn : e.verified[c] = NoUser
       /\ \A t, g \in User : e.grant[t][g] = NoConn
  BY DEF EmptyRegistry
<1> HIDE DEF e
<1>16. r \in Registry /\ r.host = H /\ r.guests = G /\ r.ledger = e.ledger
       /\ r.route = e.route /\ r.user = e.user /\ r.verified = e.verified /\ r.grant = e.grant
  BY <1>11, <1>13, <1>14 DEF Registry
<1>17. Temporary \subseteq User
  BY DEF User
<1>18. \A t \in User : r.host[t] \in {NoUser, t}
  BY <1>7, <1>12, <1>16
<1>19. \A t \in Temporary : r.host[t] = NoUser
  BY <1>8, <1>12, <1>16, <1>17
<1>20. \A t \in User : r.guests[t] # {} => r.host[t] = t
  BY <1>10, <1>16
<1>21. \A t, g \in User : g \in r.guests[t] <=> rows[t][g] # NoUser /\ <<t, g>> \notin managed
  BY <1>9, <1>16
<1> QED BY <1>15, <1>16, <1>18, <1>19, <1>20, <1>21

LEMMA RestoredInv ==
    ASSUME NEW rows, SoundRows(rows), NEW managed, NEW r, r = Restore(rows, managed)
    PROVE  TablesInv(r)
<1>1. /\ r \in Registry
      /\ \A t \in User : r.host[t] \in {NoUser, t}
      /\ \A t \in Temporary : r.host[t] = NoUser
      /\ \A t \in User : r.guests[t] # {} => r.host[t] = t
      /\ \A t, g \in User : g \in r.guests[t] <=> rows[t][g] # NoUser /\ <<t, g>> \notin managed
  BY RestoredFields
<1>2. /\ \A u \in User : r.route[u] = NoConn
      /\ \A c \in Conn : r.user[c] = NoUser
      /\ \A c \in Conn : r.verified[c] = NoUser
      /\ \A t, g \in User : r.grant[t][g] = NoConn
  BY RestoredFields
<1>3. RoutesCurrent(r) /\ GrantsCurrent(r) /\ KeysOwned(r)
  BY <1>2 DEF RoutesCurrent, GrantsCurrent, KeysOwned
<1>4. \A t \in User : rows[t][t] = NoUser
  BY DEF SoundRows
<1>5. RoomsHosted(r)
  BY <1>1, <1>4 DEF RoomsHosted
<1> QED BY <1>1, <1>3, <1>5 DEF TablesInv

-----------------------------------------------------------------------------
(* What ends a session: the row of a guest goes exactly when the guest does. *)
RowsFollow(r, s) == \A t, g \in User :
    /\ g \in s.guests[t] => g \in r.guests[t]
    /\ s.ledger[t][g] = IF g \in r.guests[t] /\ g \notin s.guests[t] THEN NoUser
                        ELSE r.ledger[t][g]

LEMMA FollowTransitive ==
    ASSUME NEW r, NEW s, NEW z, RowsFollow(r, s), RowsFollow(s, z)
    PROVE  RowsFollow(r, z)
  BY DEF RowsFollow

LEMMA FollowLedger ==
    ASSUME NEW r, NEW s, LedgerCurrent(r), RowsFollow(r, s)
    PROVE  LedgerCurrent(s)
  BY DEF RowsFollow, LedgerCurrent

LEMMA ReleaseGuestFollows ==
    ASSUME NEW r \in Registry, NEW g \in User, NEW rooms \in SUBSET User
    PROVE  RowsFollow(r, ReleaseGuest(r, g, rooms))
<1>1. PICK s : s = ReleaseGuest(r, g, rooms)
  OBVIOUS
<1>2. \A t, u \in User : u \in s.guests[t] <=> u \in r.guests[t] /\ ~(t \in rooms /\ u = g)
  BY <1>1, ReleaseGuestFields
<1>3. \A t, u \in User : s.ledger[t][u] =
        IF t \in rooms /\ u = g /\ g \in r.guests[t] THEN NoUser ELSE r.ledger[t][u]
  BY <1>1, ReleaseGuestFields
<1> QED BY <1>1, <1>2, <1>3 DEF RowsFollow

LEMMA ReleaseRoomsFollows ==
    ASSUME NEW r \in Registry, NEW rooms \in SUBSET User
    PROVE  RowsFollow(r, ReleaseRooms(r, rooms))
<1>1. PICK s : s = ReleaseRooms(r, rooms)
  OBVIOUS
<1>2. \A t \in User : s.guests[t] = IF t \in rooms THEN {} ELSE r.guests[t]
  BY <1>1, ReleaseRoomsFields
<1>3. \A t, u \in User : s.ledger[t][u] =
        IF t \in rooms /\ u \in r.guests[t] THEN NoUser ELSE r.ledger[t][u]
  BY <1>1, ReleaseRoomsFields
<1> QED BY <1>1, <1>2, <1>3 DEF RowsFollow

LEMMA PruneFollows ==
    ASSUME NEW r \in Registry, NEW live
    PROVE  RowsFollow(r, PruneDisconnected(r, live))
<1>1. PICK s : s = PruneDisconnected(r, live)
  OBVIOUS
<1>2. \A t, g \in User : g \in s.guests[t] <=>
        g \in r.guests[t] /\ t \notin HostGone(r) /\ ~GuestGone(r, live, t, g)
  BY <1>1, PruneFields
<1>3. \A t, g \in User : s.ledger[t][g] =
        IF g \in r.guests[t] /\ (t \in HostGone(r) \/ GuestGone(r, live, t, g))
        THEN NoUser ELSE r.ledger[t][g]
  BY <1>1, PruneFields
<1> QED BY <1>1, <1>2, <1>3 DEF RowsFollow

LEMMA ReleaseUserSessionFollows ==
    ASSUME NEW r, TablesInv(r), NEW c \in Conn, NEW next \in Successors(r, c)
    PROVE  RowsFollow(r, ReleaseUserSession(r, c, next))
<1> DEFINE u     == r.user[c]
           h     == ReleaseHandle(r, c, next)
           rooms == IF LoggedOut(r, c) THEN User ELSE {t \in User : r.grant[t][u] = c}
           g     == ReleaseGuest(h, u, rooms)
           own   == {IsHost(g, u)} \ {NoUser}
<1>1. r \in Registry /\ h = ReleaseHandle(r, c, next) /\ g = ReleaseGuest(h, u, rooms)
  BY DEF TablesInv
<1>2. h \in Registry
  BY <1>1, ReleaseHandleType
<1>3. h.guests = r.guests /\ h.ledger = r.ledger
  BY <1>1, ReleaseHandleFields
<1>4. RowsFollow(r, h)
  BY <1>3 DEF RowsFollow
<1>5. own \in SUBSET User
  BY DEF IsHost, HostedRooms
<1>6. rooms \in SUBSET User
  OBVIOUS
<1>7. u = NoUser => ReleaseUserSession(r, c, next) = h
  BY DEF ReleaseUserSession
<1>8. u # NoUser => ReleaseUserSession(r, c, next) \in {g, ReleaseRooms(g, own)}
  BY DEF ReleaseUserSession
<1> HIDE DEF h, g, rooms, own
<1>9. ASSUME u # NoUser PROVE g \in Registry /\ RowsFollow(r, g)
  <2>1. u \in User
    BY <1>1, <1>9 DEF Registry
  <2>2. RowsFollow(h, g) /\ g \in Registry
    BY <1>1, <1>2, <1>6, <2>1, ReleaseGuestFollows, ReleaseGuestType
  <2> QED BY <1>4, <2>2, FollowTransitive
<1>10. ASSUME u # NoUser PROVE RowsFollow(r, ReleaseRooms(g, own))
  BY <1>5, <1>9, <1>10, ReleaseRoomsFollows, FollowTransitive
<1> QED BY <1>4, <1>7, <1>8, <1>9, <1>10

-----------------------------------------------------------------------------
(* Conjunctions over the tables, as the invariant needs them. *)
IInv ==
    /\ TypeOK
    /\ ClosedForgotten
    /\ TablesInv(reg)
    /\ LedgerCurrent(reg)

(* The rows of any earlier process are sound: a room is named after its host. *)
LEMMA LedgerRowsSound ==
    ASSUME NEW rows \in LedgerRows
    PROVE  SoundRows(rows) /\ \A t, g \in User : rows[t][g] \in {NoUser, t}
<1>1. PICK p \in SUBSET {q \in Device \X User : q[1] # q[2]} :
        rows = [t \in User |-> [g \in User |-> IF <<t, g>> \in p THEN t ELSE NoUser]]
  BY DEF LedgerRows
<1>2. \A t, g \in User : rows[t][g] = IF <<t, g>> \in p THEN t ELSE NoUser
  BY <1>1
<1>3. \A t, g \in User : <<t, g>> \in p => t \in Device /\ t # g
  BY <1>1
<1>4. rows \in [User -> [User -> User \cup {NoUser}]]
  BY <1>1
<1> QED BY <1>2, <1>3, <1>4, IdentityAssumption DEF SoundRows

(* Rows a previous process left restore exactly the rooms they describe. *)
LEMMA RestoreFields ==
    ASSUME NEW rows \in LedgerRows, NEW r, r = Restore(rows, {})
    PROVE  /\ TablesInv(r)
           /\ LedgerCurrent(r)
           /\ \A u \in User : r.route[u] = NoConn
           /\ \A c \in Conn : r.user[c] = NoUser
           /\ \A t, g \in User : r.grant[t][g] = NoConn
<1>1. SoundRows(rows) /\ \A t, g \in User : rows[t][g] \in {NoUser, t}
  BY LedgerRowsSound
<1>2. /\ r.ledger = rows
      /\ \A t, g \in User : g \in r.guests[t] <=> rows[t][g] # NoUser /\ <<t, g>> \notin {}
      /\ \A u \in User : r.route[u] = NoConn
      /\ \A c \in Conn : r.user[c] = NoUser
      /\ \A t, g \in User : r.grant[t][g] = NoConn
  <2> DEFINE none == {}
  <2>1. r = Restore(rows, none)
    OBVIOUS
  <2> HIDE DEF none
  <2>2. /\ r.ledger = rows
        /\ \A t, g \in User : g \in r.guests[t] <=> rows[t][g] # NoUser /\ <<t, g>> \notin none
        /\ \A u \in User : r.route[u] = NoConn
        /\ \A c \in Conn : r.user[c] = NoUser
        /\ \A t, g \in User : r.grant[t][g] = NoConn
    BY <1>1, <2>1, RestoredFields
  <2> QED BY <2>2 DEF none
<1>3. LedgerCurrent(r)
  <2>1. \A t, g \in User : g \in r.guests[t] <=> rows[t][g] # NoUser
    BY <1>2
  <2> QED BY <1>1, <1>2, <2>1, IdentityAssumption DEF LedgerCurrent
<1> QED BY <1>1, <1>2, <1>3, RestoredInv

-----------------------------------------------------------------------------
(* One step of each kind keeps the invariant. *)

LEMMA InitInv == Init => IInv
<1> SUFFICES ASSUME Init PROVE IInv
  OBVIOUS
<1>1. PICK rows \in LedgerRows : reg = Restore(rows, {})
  BY DEF Init
<1>2. TablesInv(reg) /\ LedgerCurrent(reg)
  BY <1>1, RestoreFields
<1>3. \A c \in Conn : reg.user[c] = NoUser
  BY <1>1, RestoreFields
<1>4. TypeOK
  BY <1>2 DEF TypeOK, TablesInv, Init, Phase
<1>5. ClosedForgotten
  BY <1>3 DEF ClosedForgotten
<1> QED BY <1>2, <1>4, <1>5 DEF IInv

(* A step of the network thread moves one connection and leaves the tables alone. *)
LEMMA NetworkStep ==
    ASSUME IInv, NEW c \in Conn, Accept(c) \/ Close(c) \/ Expire(c)
    PROVE  IInv'
<1>1. /\ reg' = reg /\ pruned' = pruned
      /\ \/ phase[c] = "new" /\ phase' = [phase EXCEPT ![c] = "open"]
         \/ phase[c] = "open" /\ phase' = [phase EXCEPT ![c] = "closing"]
         \/ phase[c] = "closing" /\ phase' = [phase EXCEPT ![c] = "expired"]
  BY DEF Accept, Close, Expire
<1>2. TypeOK'
  BY <1>1 DEF IInv, TypeOK, Phase
<1>3. ClosedForgotten'
  BY <1>1 DEF IInv, TypeOK, Phase, ClosedForgotten
<1>4. TablesInv(reg)' /\ LedgerCurrent(reg)'
  BY <1>1 DEF IInv
<1> QED BY <1>2, <1>3, <1>4 DEF IInv

LEMMA CleanupStep ==
    ASSUME IInv, NEW c \in Conn, Cleanup(c)
    PROVE  IInv'
<1>1. PICK next \in Successors(reg, c) : reg' = ReleaseUserSession(reg, c, next)
  BY DEF Cleanup
<1>2. phase' = [phase EXCEPT ![c] = "gone"] /\ pruned' = pruned
  BY DEF Cleanup
<1>3. TablesInv(reg')
  BY <1>1, ReleaseUserSessionInv DEF IInv
<1>4. /\ \A d \in Conn : reg'.user[d] = IF d = c THEN NoUser ELSE reg.user[d]
      /\ LedgerCurrent(reg')
  BY <1>1, ReleaseUserSessionFields DEF IInv
<1>5. TypeOK'
  BY <1>2, <1>3 DEF IInv, TypeOK, Phase, TablesInv
<1>6. ClosedForgotten'
  BY <1>2, <1>4 DEF IInv, TypeOK, ClosedForgotten
<1> QED BY <1>3, <1>4, <1>5, <1>6 DEF IInv

(* What a login and a join do to tables that agree. *)
LEMMA LoginTables ==
    ASSUME TablesInv(reg), NEW c \in Conn, NEW u \in User, NEW k \in Device \cup {NoUser},
           Login(c, u, k)
    PROVE  /\ TablesInv(reg')
           /\ phase[c] = "open" /\ phase' = phase /\ pruned' = pruned
           /\ reg'.guests = reg.guests /\ reg'.grant = reg.grant /\ reg'.ledger = reg.ledger
           /\ \A d \in Conn : reg'.user[d] = IF d = c THEN u ELSE reg.user[d]
<1> DEFINE b == BindUser(reg, u, c, k)
<1>0. b = BindUser(reg, u, c, k)
  OBVIOUS
<1> HIDE DEF b
<1>1. phase[c] = "open" /\ reg.user[c] = NoUser /\ k \in {NoUser, KeyOf(u)}
      /\ reg' = BindHost(b, u, u) /\ phase' = phase /\ pruned' = pruned
  BY <1>0 DEF Login
<1>2. k # NoUser => (k = u \/ (u \in Clone /\ Owner[u] = k))
  <2>1. CASE u \in Device
    <3>1. KeyOf(u) = u
      BY <2>1, IdentityAssumption DEF KeyOf
    <3> QED BY <1>1, <3>1
  <2>2. CASE u \in Clone
    <3>1. KeyOf(u) = Owner[u]
      BY <2>2, IdentityAssumption DEF KeyOf
    <3> QED BY <1>1, <2>2, <3>1
  <2>3. CASE u \notin Device /\ u \notin Clone
    <3>1. KeyOf(u) = NoUser
      BY <2>3 DEF KeyOf
    <3> QED BY <1>1, <3>1
  <2> QED BY <2>1, <2>2, <2>3
<1>3. TablesInv(b)
  BY <1>0, <1>1, <1>2, BindUserInv
<1>4. b \in Registry /\ reg \in Registry
  BY <1>3 DEF TablesInv
<1>5. /\ b.guests = reg.guests /\ b.grant = reg.grant /\ b.ledger = reg.ledger
      /\ \A d \in Conn : b.user[d] = IF d = c THEN u ELSE reg.user[d]
  BY <1>0, <1>4, BindUserKeeps
<1>6. TablesInv(reg')
  BY <1>1, <1>3, BindHostInv
<1>7. reg'.guests = b.guests /\ reg'.grant = b.grant /\ reg'.ledger = b.ledger /\ reg'.user = b.user
  BY <1>1, <1>4, BindHostFields
<1> QED BY <1>1, <1>5, <1>6, <1>7

LEMMA JoinTables ==
    ASSUME TablesInv(reg), NEW c \in Conn, NEW t \in Device, Join(c, t),
           \A x, v \in User : reg.ledger[x][v] \in {NoUser, x}
    PROVE  LET g == reg.user[c] IN
           /\ TablesInv(reg')
           /\ phase[c] = "open" /\ phase' = phase /\ pruned' = pruned
           /\ t \in User /\ g \in User /\ g # t
           /\ reg'.user = reg.user
           /\ \A x, v \in User : v \in reg'.guests[x] <=> v \in reg.guests[x] \/ (x = t /\ v = g)
           /\ \A x, v \in User : reg'.grant[x][v] = IF x = t /\ v = g THEN c ELSE reg.grant[x][v]
           /\ \A x, v \in User : reg'.ledger[x][v] = IF x = t /\ v = g THEN t ELSE reg.ledger[x][v]
<1> DEFINE g == reg.user[c]
<1>1. phase[c] = "open" /\ g # NoUser /\ reg.host[t] \notin {NoUser, g}
      /\ reg' = StartRow(GrantGuest(reg, g, t, c), t, reg.host[t], g)
      /\ phase' = phase /\ pruned' = pruned
  BY DEF Join, CanJoin, CanGrant
<1>2. t \in User /\ g \in User /\ reg.host[t] = t
  BY <1>1 DEF TablesInv, RoomsHosted, Registry, User
<1> HIDE DEF g
<1>3. /\ TablesInv(reg')
      /\ reg'.user = reg.user
      /\ \A x, v \in User : v \in reg'.guests[x] <=> v \in reg.guests[x] \/ (x = t /\ v = g)
      /\ \A x, v \in User : reg'.grant[x][v] = IF x = t /\ v = g THEN c ELSE reg.grant[x][v]
      /\ \A x, v \in User : reg'.ledger[x][v] = IF x = t /\ v = g THEN t ELSE reg.ledger[x][v]
  <2>1. reg' = StartRow(GrantGuest(reg, g, t, c), t, t, g) /\ g # t /\ reg.user[c] = g
    BY <1>1, <1>2 DEF g
  <2> QED BY <1>2, <2>1, EnterFields
<1> QED BY <1>1, <1>2, <1>3 DEF g

LEMMA LoginStep ==
    ASSUME IInv, NEW c \in Conn, NEW u \in User, NEW k \in Device \cup {NoUser}, Login(c, u, k)
    PROVE  IInv'
<1>1. /\ TablesInv(reg')
      /\ phase[c] = "open" /\ phase' = phase /\ pruned' = pruned
      /\ reg'.guests = reg.guests /\ reg'.ledger = reg.ledger
      /\ \A d \in Conn : reg'.user[d] = IF d = c THEN u ELSE reg.user[d]
  BY LoginTables DEF IInv
<1>2. LedgerCurrent(reg')
  BY <1>1 DEF IInv, LedgerCurrent
<1>3. TypeOK'
  BY <1>1 DEF IInv, TypeOK, TablesInv
<1>4. ClosedForgotten'
  BY <1>1 DEF IInv, ClosedForgotten
<1> QED BY <1>1, <1>2, <1>3, <1>4 DEF IInv

LEMMA JoinStep ==
    ASSUME IInv, NEW c \in Conn, NEW t \in Device, Join(c, t)
    PROVE  IInv'
<1> DEFINE g == reg.user[c]
<1>1. \A x, v \in User : reg.ledger[x][v] \in {NoUser, x}
  BY DEF IInv, LedgerCurrent
<1>2. /\ TablesInv(reg')
      /\ phase' = phase /\ pruned' = pruned
      /\ reg'.user = reg.user
      /\ \A x, v \in User : v \in reg'.guests[x] <=> v \in reg.guests[x] \/ (x = t /\ v = g)
      /\ \A x, v \in User : reg'.ledger[x][v] = IF x = t /\ v = g THEN t ELSE reg.ledger[x][v]
  BY <1>1, JoinTables DEF IInv
<1>3. LedgerCurrent(reg')
  BY <1>2 DEF IInv, LedgerCurrent
<1>4. TypeOK'
  BY <1>2 DEF IInv, TypeOK, TablesInv
<1>5. ClosedForgotten'
  BY <1>2 DEF IInv, ClosedForgotten
<1> QED BY <1>2, <1>3, <1>4, <1>5 DEF IInv

(* Leave, DisconnectPeer and AdminDisconnect release one guest or one room. *)
LEMMA ReleaseGuestStep ==
    ASSUME IInv, NEW g \in User, NEW t \in Device,
           reg' = ReleaseGuest(reg, g, {t}), phase' = phase, pruned' = pruned
    PROVE  IInv'
<1>1. {t} \in SUBSET User /\ reg \in Registry
  BY DEF IInv, TablesInv, User
<1>2. TablesInv(reg')
  BY <1>1, ReleaseGuestInv DEF IInv
<1>3. LedgerCurrent(reg')
  BY <1>1, ReleaseGuestFollows, FollowLedger DEF IInv
<1>4. reg'.user = reg.user
  BY <1>1, ReleaseGuestFields
<1> QED BY <1>2, <1>3, <1>4 DEF IInv, TypeOK, ClosedForgotten, TablesInv

LEMMA ReleaseRoomStep ==
    ASSUME IInv, NEW t \in Device,
           reg' = ReleaseRooms(reg, {t}), phase' = phase, pruned' = pruned
    PROVE  IInv'
<1>1. {t} \in SUBSET User /\ reg \in Registry
  BY DEF IInv, TablesInv, User
<1>2. TablesInv(reg')
  BY <1>1, ReleaseRoomsInv DEF IInv
<1>3. LedgerCurrent(reg')
  BY <1>1, ReleaseRoomsFollows, FollowLedger DEF IInv
<1>4. reg'.user = reg.user
  BY <1>1, ReleaseRoomsFields
<1> QED BY <1>2, <1>3, <1>4 DEF IInv, TypeOK, ClosedForgotten, TablesInv

LEMMA LeaveStep ==
    ASSUME IInv, NEW c \in Conn, NEW t \in Device, Leave(c, t)
    PROVE  IInv'
<1>1. reg.user[c] \in User
  BY DEF Leave, IsConnectionInTransmission, IInv, TypeOK, Registry
<1>2. CASE reg.host[t] = reg.user[c]
  BY <1>2, ReleaseRoomStep DEF Leave
<1>3. CASE reg.host[t] # reg.user[c]
  BY <1>1, <1>3, ReleaseGuestStep DEF Leave
<1> QED BY <1>2, <1>3

(* The room an administrator disconnects: released if it has a host. *)
Closed(t) == IF reg.host[t] = NoUser THEN reg ELSE ReleaseRooms(reg, {t})

LEMMA ClosedFields ==
    ASSUME IInv, NEW t \in Device, NEW s, s = Closed(t)
    PROVE  /\ TablesInv(s) /\ LedgerCurrent(s) /\ s \in Registry
           /\ s.user = reg.user /\ s.guests[t] = {}
           /\ \A x \in User : s.host[x] \in {NoUser, reg.host[x]}
           /\ \A x \in User : s.guests[x] \subseteq reg.guests[x]
           /\ \A x, v \in User : s.grant[x][v] \in {NoConn, reg.grant[x][v]}
<1>1. {t} \in SUBSET User /\ t \in User /\ reg \in Registry
  BY DEF IInv, TablesInv, User
<1>2. CASE reg.host[t] = NoUser
  <2>1. s = reg
    BY <1>2 DEF Closed
  <2>2. reg.guests[t] = {}
    BY <1>1, <1>2, IdentityAssumption DEF IInv, TablesInv, RoomsHosted
  <2> QED BY <1>1, <2>1, <2>2 DEF IInv
<1>3. CASE reg.host[t] # NoUser
  <2>1. s = ReleaseRooms(reg, {t})
    BY <1>3 DEF Closed
  <2>2. TablesInv(s) /\ LedgerCurrent(s)
    BY <1>1, <2>1, ReleaseRoomsInv, ReleaseRoomsFollows, FollowLedger DEF IInv
  <2>3. /\ s.user = reg.user
        /\ \A x \in User : s.host[x] = IF x \in {t} THEN NoUser ELSE reg.host[x]
        /\ \A x \in User : s.guests[x] = IF x \in {t} THEN {} ELSE reg.guests[x]
        /\ \A x, v \in User : s.grant[x][v] = IF x \in {t} THEN NoConn ELSE reg.grant[x][v]
    BY <1>1, <2>1, ReleaseRoomsFields
  <2>4. s \in Registry
    BY <2>2 DEF TablesInv
  <2>5. \A x \in User : s.host[x] \in {NoUser, reg.host[x]}
    BY <2>3
  <2>6. \A x \in User : s.guests[x] \subseteq reg.guests[x]
    BY <2>3
  <2>7. \A x, v \in User : s.grant[x][v] \in {NoConn, reg.grant[x][v]}
    BY <2>3
  <2>8. s.guests[t] = {}
    BY <1>1, <2>3
  <2> QED BY <2>2, <2>3, <2>4, <2>5, <2>6, <2>7, <2>8
<1> QED BY <1>2, <1>3

LEMMA AdminDisconnectStep ==
    ASSUME IInv, NEW t \in Device, AdminDisconnect(t)
    PROVE  IInv'
<1> DEFINE s == Closed(t)
<1>0. s = Closed(t) /\ t \in User
  BY DEF User
<1>1. reg' = EndRoomRows(s, t) /\ phase' = phase /\ pruned' = pruned
  BY DEF AdminDisconnect, Closed
<1> HIDE DEF s
<1>2. TablesInv(s) /\ LedgerCurrent(s) /\ s \in Registry /\ s.user = reg.user /\ s.guests[t] = {}
  BY <1>0, ClosedFields
<1>3. TablesInv(reg') /\ LedgerCurrent(reg')
  BY <1>0, <1>1, <1>2, EndRoomRowsInv
<1>4. reg'.user = reg.user
  BY <1>0, <1>1, <1>2, EndRoomRowsFields
<1> QED BY <1>1, <1>3, <1>4 DEF IInv, TypeOK, ClosedForgotten, TablesInv

LEMMA PruneStep ==
    ASSUME IInv, Prune
    PROVE  IInv'
<1>1. reg' = PruneDisconnected(reg, Live) /\ pruned' = TRUE /\ phase' = phase
  BY DEF Prune
<1>2. reg \in Registry
  BY DEF IInv, TablesInv
<1>3. TablesInv(reg') /\ LedgerCurrent(reg')
  BY <1>1, <1>2, PruneInv, PruneFollows, FollowLedger DEF IInv
<1>4. reg'.user = reg.user
  BY <1>1, <1>2, PruneFields
<1> QED BY <1>1, <1>3, <1>4 DEF IInv, TypeOK, ClosedForgotten, TablesInv

LEMMA NextInv == IInv /\ [Next]_vars => IInv'
<1> SUFFICES ASSUME IInv, [Next]_vars PROVE IInv'
  OBVIOUS
<1>1. ASSUME NEW c \in Conn, Accept(c) \/ Close(c) \/ Expire(c) PROVE IInv'
  BY <1>1, NetworkStep
<1>2. ASSUME NEW c \in Conn, Cleanup(c) PROVE IInv'
  BY <1>2, CleanupStep
<1>3. ASSUME NEW c \in Conn, NEW u \in User, NEW k \in Device \cup {NoUser}, Login(c, u, k)
      PROVE  IInv'
  BY <1>3, LoginStep
<1>4. ASSUME NEW c \in Conn, NEW t \in Device, Join(c, t) PROVE IInv'
  BY <1>4, JoinStep
<1>5. ASSUME NEW c \in Conn, NEW t \in Device, Leave(c, t) PROVE IInv'
  BY <1>5, LeaveStep
<1>6. ASSUME NEW c \in Conn, NEW g \in User, NEW t \in Device, DisconnectPeer(c, g, t)
      PROVE  IInv'
  BY <1>6, ReleaseGuestStep DEF DisconnectPeer
<1>7. ASSUME NEW t \in Device, AdminDisconnect(t) PROVE IInv'
  BY <1>7, AdminDisconnectStep
<1>8. CASE Prune
  BY <1>8, PruneStep
<1>9. CASE UNCHANGED vars
  BY <1>9 DEF vars, IInv, TypeOK, ClosedForgotten, TablesInv, LedgerCurrent
<1> QED BY <1>1, <1>2, <1>3, <1>4, <1>5, <1>6, <1>7, <1>8, <1>9 DEF Next

LEMMA Inductive == Spec => []IInv
  BY InitInv, NextInv, PTL DEF Spec

-----------------------------------------------------------------------------
(* The theorems. *)

(* The tables of TransmissionManager keep their types through every handler. *)
THEOREM TypeCorrect == Spec => []TypeOK
  BY Inductive, PTL DEF IInv

(* A late job of a closed connection never leaves an identity bound to it:   *)
(* QueueSessionCleanup releases the connection and nothing binds it again.   *)
THEOREM Forgotten == Spec => []ClosedForgotten
  BY Inductive, PTL DEF IInv

(* Host list, guest lists, guest handles, routes, proved keys and the        *)
(* session table agree between any two jobs of the application worker.       *)
THEOREM Agreement == Spec => []TablesAgree
<1>1. IInv => TablesAgree
  BY DEF IInv, TablesInv, TablesAgree
<1> QED BY <1>1, Inductive, PTL

(* Where a signal may travel follows from the agreement of the tables alone. *)
LEMMA TablesConfine == TablesInv(reg) => SignalsStayInRoom
<1> SUFFICES ASSUME TablesInv(reg), NEW w \in Relay
             PROVE  LET guest == IF reg.user[w[1]] = w[3] THEN w[2] ELSE w[1]
                        host  == IF reg.user[w[1]] = w[3] THEN w[1] ELSE w[2]
                    IN  /\ w[1] # w[2]
                        /\ reg.user[host] = w[3]
                        /\ reg.user[guest] \notin {NoUser, w[3]}
                        /\ reg.grant[w[3]][reg.user[guest]] = guest
  BY DEF SignalsStayInRoom
<1> DEFINE c == w[1]
           d == w[2]
           t == w[3]
<1>1. c \in Conn /\ d \in Conn /\ t \in User
  BY DEF Relay, Live
<1>2. PICK remote \in User :
        IsAuthorizedPeerSignal(reg, Live, c, remote, t) /\ GetWsHandle(reg, remote, t) = d
  BY DEF Relay
<1> HIDE DEF c, d, t
<1>3. /\ reg.user[c] \notin {NoUser, remote}
      /\ reg.host[t] = t
      /\ t \in {reg.user[c], remote}
      /\ GetWsHandle(reg, reg.user[c], t) = c
  BY <1>1, <1>2 DEF IsAuthorizedPeerSignal, IsConnectionInTransmission,
                    TablesInv, RoomsHosted
<1>4. c # NoConn /\ d # NoConn /\ t # NoUser /\ remote # NoUser
  BY <1>1, IdentityAssumption
<1>5. CASE reg.user[c] = t
  <2>1. reg.grant[t][remote] = d /\ reg.user[d] = remote
    BY <1>2, <1>3, <1>4, <1>5 DEF GetWsHandle
  <2> QED BY <1>3, <1>4, <1>5, <2>1 DEF c, d, t
<1>6. CASE reg.user[c] # t
  <2>1. remote = t /\ reg.route[t] = d
    BY <1>2, <1>3, <1>4, <1>6 DEF GetWsHandle
  <2>2. reg.user[d] = t
    BY <1>1, <1>4, <2>1 DEF TablesInv, RoutesCurrent
  <2>3. reg.grant[t][reg.user[c]] = c
    BY <1>3, <1>4, <1>6 DEF GetWsHandle
  <2> QED BY <1>3, <1>6, <2>2, <2>3 DEF c, d, t
<1> QED BY <1>5, <1>6

(* Every signal IsAuthorizedPeerSignal lets through travels between a        *)
(* connection of the room's device and the connection granted to one guest.  *)
THEOREM Confinement == Spec => []SignalsStayInRoom
  BY TablesConfine, Inductive, PTL DEF IInv

(* So does who may answer. *)
LEMMA TablesAnswer == TablesInv(reg) => SignalsAnswerable
<1> SUFFICES ASSUME TablesInv(reg), NEW w \in Relay, phase[w[2]] = "open"
             PROVE  <<w[2], w[1], w[3]>> \in Relay
  BY DEF SignalsAnswerable
<1> DEFINE c == w[1]
           d == w[2]
           t == w[3]
<1>1. c \in Live /\ d \in Live /\ t \in User /\ c \in Conn /\ d \in Conn
  BY DEF Relay, Live
<1>2. PICK remote \in User :
        IsAuthorizedPeerSignal(reg, Live, c, remote, t) /\ GetWsHandle(reg, remote, t) = d
  BY DEF Relay
<1> DEFINE u == reg.user[c]
<1>3. /\ u \notin {NoUser, remote} /\ u \in User
      /\ reg.host[t] = t
      /\ t \in {u, remote}
      /\ GetWsHandle(reg, u, t) = c
  BY <1>1, <1>2 DEF IsAuthorizedPeerSignal, IsConnectionInTransmission,
                    TablesInv, RoomsHosted, Registry
<1>4. d # NoConn /\ t # NoUser /\ remote # NoUser
  BY <1>1, IdentityAssumption
<1>5. reg.user[d] = remote
  <2>1. CASE remote = t
    <3>1. reg.route[t] = d
      BY <1>2, <1>3, <1>4, <2>1 DEF GetWsHandle
    <3> QED BY <1>1, <1>4, <2>1, <3>1 DEF TablesInv, RoutesCurrent
  <2>2. CASE remote # t
    BY <1>2, <1>3, <1>4, <2>2 DEF GetWsHandle
  <2> QED BY <2>1, <2>2
<1> HIDE DEF c, d, t, u
<1>6. IsAuthorizedPeerSignal(reg, Live, d, u, t)
  BY <1>1, <1>2, <1>3, <1>4, <1>5 DEF IsAuthorizedPeerSignal, IsConnectionInTransmission
<1>7. <<d, c, t>> \in Relay
  BY <1>1, <1>3, <1>6 DEF Relay
<1> QED BY <1>7 DEF c, d, t

(* Whoever may signal may be answered: the relay of IsAuthorizedPeerSignal    *)
(* is symmetric as long as the receiver is open.  The receiver is found       *)
(* through a table and must find itself there when it sends in its turn.      *)
THEOREM Answerable == Spec => []SignalsAnswerable
  BY TablesAnswer, Inductive, PTL DEF IInv

(* QueueSessionCleanup of an old connection takes nothing from another one:   *)
(* ReleaseUserSession moves no login, no route but its own, ends no room of   *)
(* another identity, and revokes another connection's grant only when the     *)
(* host of that room has just lost its last connection.                       *)
THEOREM CleanupLocal == Spec => CleanupTouchesOnlyItself
<1>1. IInv /\ [Next]_vars =>
        [\A c \in Conn : phase[c] # "gone" /\ phase'[c] = "gone" =>
           \A d \in Conn \ {c} :
              LET u == reg.user[d]
              IN  u # NoUser =>
                  /\ reg'.user[d] = u
                  /\ reg.route[u] # c => reg'.route[u] = reg.route[u]
                  /\ reg'.host[u] = reg.host[u]
                  /\ \A t \in User : reg.grant[t][u] = d /\ reg'.grant[t][u] # d =>
                        reg.user[c] = t /\ ~HasUserConnection(reg', t)]_vars
  <2> SUFFICES ASSUME IInv, [Next]_vars, NEW c \in Conn, phase[c] # "gone", phase'[c] = "gone",
                      NEW d \in Conn \ {c}, reg.user[d] # NoUser
               PROVE  /\ reg'.user[d] = reg.user[d]
                      /\ reg.route[reg.user[d]] # c =>
                            reg'.route[reg.user[d]] = reg.route[reg.user[d]]
                      /\ reg'.host[reg.user[d]] = reg.host[reg.user[d]]
                      /\ \A t \in User :
                            reg.grant[t][reg.user[d]] = d /\ reg'.grant[t][reg.user[d]] # d =>
                            reg.user[c] = t /\ ~HasUserConnection(reg', t)
    OBVIOUS
  <2>1. Cleanup(c)
    <3>1. phase \in [Conn -> Phase] /\ phase' # phase
      BY DEF IInv, TypeOK
    <3>2. CASE \E e \in Conn : Accept(e) \/ Close(e) \/ Expire(e)
      <4>1. PICK e \in Conn : Accept(e) \/ Close(e) \/ Expire(e)
        BY <3>2
      <4>2. \E p \in {"open", "closing", "expired"} : phase' = [phase EXCEPT ![e] = p]
        BY <4>1 DEF Accept, Close, Expire
      <4> QED BY <3>1, <4>2
    <3>3. CASE \E e \in Conn : Cleanup(e)
      <4>1. PICK e \in Conn : Cleanup(e)
        BY <3>3
      <4>2. phase' = [phase EXCEPT ![e] = "gone"]
        BY <4>1 DEF Cleanup
      <4>3. e = c
        BY <3>1, <4>2
      <4> QED BY <4>1, <4>3
    <3>4. CASE ~\E e \in Conn : Accept(e) \/ Close(e) \/ Expire(e) \/ Cleanup(e)
      BY <3>1, <3>4 DEF Next, vars, Login, Join, Leave, DisconnectPeer, AdminDisconnect, Prune
    <3> QED BY <3>2, <3>3, <3>4
  <2>2. PICK next \in Successors(reg, c) : reg' = ReleaseUserSession(reg, c, next)
    BY <2>1 DEF Cleanup
  <2> QED BY <2>2, ReleaseUserSessionOthers DEF IInv
<1> QED BY <1>1, Inductive, PTL DEF Spec, CleanupTouchesOnlyItself

-----------------------------------------------------------------------------
(* After the prune, every host and every guest is logged in. *)
Settled(r) == \A t \in User :
    /\ r.host[t] # NoUser => HasUserConnection(r, r.host[t])
    /\ \A g \in r.guests[t] : HasUserConnection(r, g)

LEMMA SettledRelease ==
    ASSUME NEW r, NEW s, Settled(r), s.user = r.user,
           \A t \in User : s.host[t] \in {NoUser, r.host[t]},
           \A t \in User : s.guests[t] \subseteq r.guests[t]
    PROVE  Settled(s)
  BY DEF Settled, HasUserConnection

LEMMA SettledPrune ==
    ASSUME NEW r, TablesInv(r), NEW live
    PROVE  Settled(PruneDisconnected(r, live))
<1> DEFINE s == PruneDisconnected(r, live)
<1>0. s = PruneDisconnected(r, live) /\ r \in Registry
  BY DEF TablesInv
<1> HIDE DEF s
<1>1. /\ s \in Registry /\ s.user = r.user
      /\ \A t \in User : s.host[t] = IF t \in HostGone(r) THEN NoUser ELSE r.host[t]
      /\ \A t, g \in User : g \in s.guests[t] <=>
           g \in r.guests[t] /\ t \notin HostGone(r) /\ ~GuestGone(r, live, t, g)
  BY <1>0, PruneFields
<1>2. ASSUME NEW t \in User, s.host[t] # NoUser PROVE HasUserConnection(s, s.host[t])
  <2>1. s.host[t] = r.host[t] /\ t \notin HostGone(r)
    BY <1>1, <1>2
  <2> QED BY <1>1, <1>2, <2>1 DEF HostGone, HasUserConnection
<1>3. ASSUME NEW t \in User, NEW g \in s.guests[t] PROVE HasUserConnection(s, g)
  <2>1. g \in User
    BY <1>1, <1>3 DEF Registry
  <2>2. ~GuestGone(r, live, t, g)
    BY <1>1, <1>3, <2>1
  <2>3. CASE r.grant[t][g] # NoConn
    <3>1. r.grant[t][g] \in Conn
      BY <1>0, <2>1, <2>3 DEF Registry
    <3>2. r.user[r.grant[t][g]] = g
      BY <2>2, <2>3 DEF GuestGone
    <3> QED BY <1>1, <3>1, <3>2 DEF HasUserConnection
  <2>4. CASE r.grant[t][g] = NoConn
    BY <1>1, <2>2, <2>4 DEF GuestGone, HasUserConnection
  <2> QED BY <2>3, <2>4
<1> QED BY <1>0, <1>2, <1>3 DEF Settled

LEMMA SettledLogin ==
    ASSUME IInv, Settled(reg), NEW c \in Conn, NEW u \in User,
           NEW k \in Device \cup {NoUser}, Login(c, u, k)
    PROVE  Settled(reg')
<1> DEFINE b == BindUser(reg, u, c, k)
<1>0. b = BindUser(reg, u, c, k) /\ reg \in Registry
  BY DEF IInv, TablesInv
<1>1. reg.user[c] = NoUser /\ reg' = BindHost(b, u, u)
  BY DEF Login
<1>2. b \in Registry
  BY <1>0, BindUserType
<1> HIDE DEF b
<1>3. /\ b.host = reg.host /\ b.guests = reg.guests
      /\ \A d \in Conn : b.user[d] = IF d = c THEN u ELSE reg.user[d]
  BY <1>0, BindUserKeeps
<1>4. reg'.guests = b.guests /\ reg'.user = b.user
  BY <1>1, <1>2, BindHostFields
<1>5. \A t \in User : reg'.host[t] # b.host[t] => t = u /\ reg'.host[t] = u
  BY <1>1, <1>2 DEF BindHost, Registry
<1>6. \A v \in User : HasUserConnection(reg, v) => HasUserConnection(reg', v)
  BY <1>1, <1>3, <1>4, IdentityAssumption DEF HasUserConnection
<1>7. HasUserConnection(reg', u)
  BY <1>3, <1>4 DEF HasUserConnection
<1>8. reg.host \in [User -> User \cup {NoUser}] /\ reg.guests \in [User -> SUBSET User]
  BY <1>0 DEF Registry
<1>9. ASSUME NEW t \in User, reg'.host[t] # NoUser PROVE HasUserConnection(reg', reg'.host[t])
  <2>1. CASE reg'.host[t] # b.host[t]
    BY <1>5, <1>7, <2>1
  <2>2. CASE reg'.host[t] = b.host[t]
    <3>1. reg'.host[t] = reg.host[t] /\ reg.host[t] \in User
      BY <1>3, <1>8, <1>9, <2>2
    <3> QED BY <1>6, <1>9, <3>1 DEF Settled
  <2> QED BY <2>1, <2>2
<1>10. ASSUME NEW t \in User, NEW g \in reg'.guests[t] PROVE HasUserConnection(reg', g)
  BY <1>3, <1>4, <1>6, <1>8, <1>10 DEF Settled
<1> QED BY <1>9, <1>10 DEF Settled

LEMMA SettledJoin ==
    ASSUME IInv, Settled(reg), NEW c \in Conn, NEW t \in Device, Join(c, t)
    PROVE  Settled(reg')
<1> DEFINE g == reg.user[c]
           h == reg.host[t]
           b == GrantGuest(reg, g, t, c)
<1>0. b = GrantGuest(reg, g, t, c) /\ reg \in Registry
  BY DEF IInv, TablesInv
<1>1. g # NoUser /\ h \notin {NoUser, g} /\ reg' = StartRow(b, t, h, g)
  BY DEF Join, CanJoin, CanGrant
<1>2. t \in User /\ g \in User /\ h \in User
  BY <1>0, <1>1 DEF Registry, User
<1>3. b \in Registry
  BY <1>0, <1>2, GrantGuestType
<1> HIDE DEF b
<1>4. b.user = reg.user /\ b.host = reg.host
  BY <1>0, <1>2, GrantGuestKeeps
<1>5. \A x \in User : b.guests[x] \subseteq reg.guests[x] \cup {g}
  BY <1>0, <1>2, GrantGuestKeeps
<1>6. reg'.user = reg.user /\ reg'.host = reg.host /\ reg'.guests = b.guests
  BY <1>1, <1>2, <1>3, <1>4, StartRowKeeps
<1>7. HasUserConnection(reg, g)
  BY DEF HasUserConnection
<1> HIDE DEF g
<1> QED BY <1>5, <1>6, <1>7 DEF Settled, HasUserConnection

LEMMA SettledCleanup ==
    ASSUME IInv, Settled(reg), NEW c \in Conn, Cleanup(c)
    PROVE  Settled(reg')
<1>1. PICK next \in Successors(reg, c) : reg' = ReleaseUserSession(reg, c, next)
  BY DEF Cleanup
<1>2. /\ \A d \in Conn : reg'.user[d] = IF d = c THEN NoUser ELSE reg.user[d]
      /\ \A t \in User : reg'.host[t] \in {NoUser, reg.host[t]}
      /\ \A t \in User : reg'.guests[t] \subseteq reg.guests[t]
      /\ LoggedOut(reg, c) =>
           \A t \in User : reg'.host[t] # reg.user[c] /\ reg.user[c] \notin reg'.guests[t]
  BY <1>1, ReleaseUserSessionFields DEF IInv
<1>3. ASSUME NEW u \in User, HasUserConnection(reg, u), ~(LoggedOut(reg, c) /\ u = reg.user[c])
      PROVE  HasUserConnection(reg', u)
  <2>1. CASE \E d \in Conn \ {c} : reg.user[d] = u
    BY <1>2, <2>1 DEF HasUserConnection
  <2>2. CASE ~\E d \in Conn \ {c} : reg.user[d] = u
    <3>1. reg.user[c] = u /\ u # NoUser
      BY <1>3, <2>2, IdentityAssumption DEF HasUserConnection
    <3>2. Successors(reg, c) = {NoConn}
      BY <2>2, <3>1 DEF Successors
    <3> QED BY <1>3, <3>1, <3>2 DEF LoggedOut
  <2> QED BY <2>1, <2>2
<1>4. reg.host \in [User -> User \cup {NoUser}] /\ reg.guests \in [User -> SUBSET User]
  BY DEF IInv, TablesInv, Registry
<1>5. ASSUME NEW t \in User, reg'.host[t] # NoUser PROVE HasUserConnection(reg', reg'.host[t])
  <2>1. reg'.host[t] = reg.host[t] /\ reg.host[t] \in User
    BY <1>2, <1>4, <1>5
  <2>2. HasUserConnection(reg, reg.host[t])
    BY <1>5, <2>1 DEF Settled
  <2>3. ~(LoggedOut(reg, c) /\ reg.host[t] = reg.user[c])
    BY <1>2, <2>1
  <2> QED BY <1>3, <2>1, <2>2, <2>3
<1>6. ASSUME NEW t \in User, NEW g \in reg'.guests[t] PROVE HasUserConnection(reg', g)
  <2>1. g \in reg.guests[t] /\ g \in User
    BY <1>2, <1>4, <1>6
  <2>2. HasUserConnection(reg, g)
    BY <2>1 DEF Settled
  <2>3. ~(LoggedOut(reg, c) /\ g = reg.user[c])
    BY <1>2, <1>6
  <2> QED BY <1>3, <2>1, <2>2, <2>3
<1> QED BY <1>5, <1>6 DEF Settled

(* PruneDisconnectedTransmissions runs once, ten minutes after the start, and *)
(* from then on no handler leaves a room or a membership without its member.  *)
THEOREM Settlement == Spec => []RestoredSettled
<1>1. Init => RestoredSettled
  BY DEF Init, RestoredSettled
<1>2. RestoredSettled <=> (pruned => Settled(reg))
  BY DEF RestoredSettled, Settled
<1>3. IInv /\ RestoredSettled /\ [Next]_vars => RestoredSettled'
  <2> SUFFICES ASSUME IInv, RestoredSettled, [Next]_vars, pruned' PROVE Settled(reg')
    BY DEF RestoredSettled, Settled
  <2>1. CASE Prune
    BY <2>1, SettledPrune DEF Prune, IInv
  <2>2. CASE UNCHANGED vars
    BY <2>2, <1>2 DEF vars
  <2>3. ASSUME ~Prune, Next PROVE pruned
    BY <2>3 DEF Next, Accept, Close, Expire, Cleanup, Login, Join, Leave, DisconnectPeer,
                AdminDisconnect
  <2>4. CASE ~Prune /\ Next
    <3>1. Settled(reg) /\ reg \in Registry
      BY <1>2, <2>3, <2>4 DEF IInv, TablesInv
    <3>2. \A t \in Device : {t} \in SUBSET User /\ t \in User
      BY DEF User
    <3>3. ASSUME NEW c \in Conn, Accept(c) \/ Close(c) \/ Expire(c) PROVE Settled(reg')
      BY <3>1, <3>3 DEF Accept, Close, Expire
    <3>4. ASSUME NEW t \in Device, reg' = ReleaseRooms(reg, {t}) PROVE Settled(reg')
      <4>1. /\ reg'.user = reg.user
            /\ \A x \in User : reg'.host[x] = IF x \in {t} THEN NoUser ELSE reg.host[x]
            /\ \A x \in User : reg'.guests[x] = IF x \in {t} THEN {} ELSE reg.guests[x]
        BY <3>1, <3>2, <3>4, ReleaseRoomsFields
      <4>2. \A x \in User : reg'.host[x] \in {NoUser, reg.host[x]}
        BY <4>1
      <4>3. \A x \in User : reg'.guests[x] \subseteq reg.guests[x]
        BY <4>1
      <4> QED BY <3>1, <4>1, <4>2, <4>3, SettledRelease
    <3>5. ASSUME NEW g \in User, NEW t \in Device, reg' = ReleaseGuest(reg, g, {t})
          PROVE  Settled(reg')
      <4>1. /\ reg'.user = reg.user /\ reg'.host = reg.host /\ reg' \in Registry
            /\ \A x, u \in User : u \in reg'.guests[x] <=>
                 u \in reg.guests[x] /\ ~(x \in {t} /\ u = g)
        BY <3>1, <3>2, <3>5, ReleaseGuestFields, ReleaseGuestType
      <4>2. \A x \in User : reg'.host[x] \in {NoUser, reg.host[x]}
        BY <4>1
      <4>3. \A x \in User : reg'.guests[x] \subseteq reg.guests[x]
        BY <4>1 DEF Registry
      <4> QED BY <3>1, <4>1, <4>2, <4>3, SettledRelease
    <3>6. ASSUME NEW c \in Conn, NEW t \in Device, Leave(c, t) PROVE Settled(reg')
      <4>1. reg.user[c] \in User
        BY <3>1, <3>6 DEF Leave, IsConnectionInTransmission, Registry
      <4> QED BY <3>4, <3>5, <3>6, <4>1 DEF Leave
    <3>7. ASSUME NEW t \in Device, AdminDisconnect(t) PROVE Settled(reg')
      <4> DEFINE s == Closed(t)
      <4>0. s = Closed(t) /\ reg' = EndRoomRows(s, t)
        BY <3>7 DEF AdminDisconnect, Closed
      <4> HIDE DEF s
      <4>1. /\ s \in Registry /\ s.user = reg.user
            /\ \A x \in User : s.host[x] \in {NoUser, reg.host[x]}
            /\ \A x \in User : s.guests[x] \subseteq reg.guests[x]
        BY <4>0, ClosedFields
      <4>2. Settled(s)
        BY <3>1, <4>1, SettledRelease
      <4>3. reg'.user = s.user /\ reg'.host = s.host /\ reg'.guests = s.guests
        BY <3>2, <4>0, <4>1, EndRoomRowsFields
      <4> QED BY <4>2, <4>3 DEF Settled, HasUserConnection
    <3>8. ASSUME NEW c \in Conn, NEW g \in User, NEW t \in Device, DisconnectPeer(c, g, t)
          PROVE  Settled(reg')
      BY <3>5, <3>8 DEF DisconnectPeer
    <3> QED BY <2>4, <3>1, <3>3, <3>6, <3>7, <3>8, SettledCleanup, SettledLogin, SettledJoin
            DEF Next
  <2> QED BY <2>1, <2>2, <2>4
<1> QED BY <1>1, <1>3, Inductive, PTL DEF Spec

(* A room whose host is gone always has the job ahead that will end it: a    *)
(* closed connection stays logged in until its cleanup, and after the prune  *)
(* every room has a logged-in host (QueueSessionCleanup,                     *)
(* ScheduleRecoveredSessionCleanup).                                         *)
THEOREM RoomsEnd == Spec => []NoAbandonedRoom
<1>1. IInv /\ RestoredSettled => NoAbandonedRoom
  <2> SUFFICES ASSUME IInv, RestoredSettled, NEW t \in User,
                      reg.guests[t] # {}, ~HostOpen(t), pruned
               PROVE  HostClosing(t)
    BY DEF NoAbandonedRoom
  <2>1. reg.host[t] = t /\ t # NoUser
    BY IdentityAssumption DEF IInv, TablesInv, RoomsHosted
  <2>2. PICK c \in Conn : reg.user[c] = t
    BY <2>1 DEF RestoredSettled, HasUserConnection
  <2>3. phase[c] \in {"open", "closing", "expired"}
    BY <2>1, <2>2 DEF IInv, ClosedForgotten
  <2> QED BY <2>2, <2>3 DEF HostOpen, HostClosing
<1> QED BY <1>1, Inductive, Settlement, PTL

-----------------------------------------------------------------------------
(* The refinement of RoomAccess. *)

(* Grants that only disappear, under unchanged identities, revoke access. *)
LEMMA RevokeStep ==
    ASSUME reg \in Registry, reg' \in Registry, \A c \in Conn : reg'.user[c] = reg.user[c],
           \A t, g \in User : reg'.grant[t][g] \in {NoConn, reg.grant[t][g]}
    PROVE  Rules!Revoke
<1>1. reg'.user = reg.user
  BY DEF Registry
<1>2. ASSUME NEW a \in Access' PROVE a \in Access
  <2>1. /\ a \in Conn \X Device /\ reg'.user[a[1]] # NoUser
        /\ reg'.grant[a[2]][reg'.user[a[1]]] = a[1]
    BY DEF Access
  <2>2. a[1] \in Conn /\ a[1] # NoConn /\ a[2] \in User /\ reg.user[a[1]] \in User
    BY <1>1, <2>1, IdentityAssumption DEF User, Registry
  <2>3. reg.grant[a[2]][reg.user[a[1]]] = a[1]
    BY <1>1, <2>1, <2>2
  <2> QED BY <1>1, <2>1, <2>3 DEF Access
<1> QED BY <1>1, <1>2 DEF Rules!Revoke

LEMMA LogoutStep ==
    ASSUME IInv, NEW c \in Conn, Cleanup(c)
    PROVE  Rules!Logout(c) \/ Rules!Revoke
<1>1. PICK next \in Successors(reg, c) : reg' = ReleaseUserSession(reg, c, next)
  BY DEF Cleanup
<1>2. reg \in Registry /\ reg' \in Registry
  BY <1>1, ReleaseUserSessionInv DEF IInv, TablesInv
<1>3. /\ \A d \in Conn : reg'.user[d] = IF d = c THEN NoUser ELSE reg.user[d]
      /\ \A t, g \in User : reg'.grant[t][g] \in {NoConn, reg.grant[t][g]}
  BY <1>1, ReleaseUserSessionFields DEF IInv
<1>4. CASE reg.user[c] = NoUser
  BY <1>2, <1>3, <1>4, RevokeStep
<1>5. CASE reg.user[c] # NoUser
  <2>1. reg'.user = [reg.user EXCEPT ![c] = NoUser]
    BY <1>2, <1>3 DEF Registry
  <2>2. ASSUME NEW a \in Access' PROVE a \in Access /\ a[1] # c
    <3>1. /\ a \in Conn \X Device /\ reg'.user[a[1]] # NoUser
          /\ reg'.grant[a[2]][reg'.user[a[1]]] = a[1]
      BY DEF Access
    <3>2. a[1] \in Conn /\ a[1] # c /\ reg'.user[a[1]] = reg.user[a[1]]
      BY <1>3, <3>1
    <3>3. a[1] # NoConn /\ a[2] \in User /\ reg.user[a[1]] \in User
      BY <1>2, <3>1, <3>2, IdentityAssumption DEF User, Registry
    <3>4. reg.grant[a[2]][reg.user[a[1]]] = a[1]
      BY <1>3, <3>1, <3>2, <3>3
    <3> QED BY <3>1, <3>2, <3>4 DEF Access
  <2> QED BY <1>5, <2>1, <2>2 DEF Rules!Logout
<1> QED BY <1>4, <1>5

LEMMA LoginAccess ==
    ASSUME IInv, NEW c \in Conn, NEW u \in User, NEW k \in Device \cup {NoUser}, Login(c, u, k)
    PROVE  Rules!Login(c, u)
<1> DEFINE b == BindUser(reg, u, c, k)
<1>0. b = BindUser(reg, u, c, k) /\ reg \in Registry
  BY DEF IInv, TablesInv
<1>1. reg.user[c] = NoUser /\ reg' = BindHost(b, u, u)
  BY DEF Login
<1>2. b \in Registry
  BY <1>0, BindUserType
<1> HIDE DEF b
<1>3. reg' \in Registry
  BY <1>1, <1>2, BindHostType
<1>4. /\ reg'.grant = reg.grant
      /\ \A d \in Conn : reg'.user[d] = IF d = c THEN u ELSE reg.user[d]
  BY <1>0, <1>1, <1>2, BindUserKeeps, BindHostFields
<1>5. reg'.user = [reg.user EXCEPT ![c] = u]
  BY <1>0, <1>3, <1>4 DEF Registry
<1>6. \A t \in Device : reg.grant[t][u] # c
  BY <1>1, IdentityAssumption DEF IInv, TablesInv, GrantsCurrent, User
<1>7. ASSUME NEW a \in Conn \X Device PROVE a \in Access' <=> a \in Access
  <2>1. CASE a[1] = c
    BY <1>1, <1>4, <1>6, <2>1 DEF Access
  <2>2. CASE a[1] # c
    BY <1>4, <2>2 DEF Access
  <2> QED BY <2>1, <2>2
<1>8. Access' = Access
  BY <1>7 DEF Access
<1> QED BY <1>1, <1>5, <1>8 DEF Rules!Login

LEMMA EnterStep ==
    ASSUME IInv, NEW c \in Conn, NEW t \in Device, Join(c, t)
    PROVE  Rules!Enter(c, t)
<1> DEFINE g == reg.user[c]
           h == reg.host[t]
           b == GrantGuest(reg, g, t, c)
<1>0. b = GrantGuest(reg, g, t, c) /\ reg \in Registry
  BY DEF IInv, TablesInv
<1>1. g # NoUser /\ h \notin {NoUser, g} /\ reg' = StartRow(b, t, h, g)
  BY DEF Join, CanJoin, CanGrant
<1>2. t \in User /\ g \in User /\ h \in User /\ h = t
  BY <1>0, <1>1 DEF IInv, TablesInv, RoomsHosted, Registry, User
<1>3. b \in Registry
  BY <1>0, <1>2, GrantGuestType
<1> HIDE DEF b
<1>4. /\ b.user = reg.user
      /\ \A x, v \in User : b.grant[x][v] = IF x = t /\ v = g THEN c ELSE reg.grant[x][v]
  BY <1>0, <1>2, GrantGuestKeeps
<1>5. reg'.user = reg.user /\ reg'.grant = b.grant
  BY <1>1, <1>2, <1>3, <1>4, StartRowKeeps
<1>6. Device \subseteq User /\ reg.user \in [Conn -> User \cup {NoUser}]
  BY <1>0 DEF User, Registry
<1>7. ASSUME NEW d \in Conn, NEW x \in Device
      PROVE  <<d, x>> \in Access' <=>
               \/ <<d, x>> \in Access /\ (x # t \/ reg.user[d] # g)
               \/ d = c /\ x = t
  <2>1. <<d, x>> \in Access' <=> reg.user[d] # NoUser /\ reg'.grant[x][reg.user[d]] = d
    BY <1>5 DEF Access
  <2>2. <<d, x>> \in Access <=> reg.user[d] # NoUser /\ reg.grant[x][reg.user[d]] = d
    BY DEF Access
  <2>3. CASE reg.user[d] = NoUser
    BY <1>1, <2>1, <2>2, <2>3
  <2>4. CASE reg.user[d] \in User
    <3>1. reg'.grant[x][reg.user[d]] =
            IF x = t /\ reg.user[d] = g THEN c ELSE reg.grant[x][reg.user[d]]
      BY <1>4, <1>5, <1>6, <2>4
    <3>2. reg.user[d] # NoUser
      BY <2>4, IdentityAssumption
    <3>3. CASE x = t /\ reg.user[d] = g
      BY <2>1, <2>2, <3>1, <3>2, <3>3
    <3>4. CASE ~(x = t /\ reg.user[d] = g)
      BY <2>1, <2>2, <3>1, <3>2, <3>4
    <3> QED BY <3>3, <3>4
  <2> QED BY <1>6, <2>3, <2>4
<1>8. Access' = {a \in Access : a[2] # t \/ reg.user[a[1]] # g} \cup {<<c, t>>}
  <2>1. Access \subseteq Conn \X Device /\ Access' \subseteq Conn \X Device
    BY DEF Access
  <2> HIDE DEF g
  <2>2. ASSUME NEW a \in Conn \X Device
        PROVE  a \in Access' <=> a \in {e \in Access : e[2] # t \/ reg.user[e[1]] # g} \cup {<<c, t>>}
    <3>1. PICK d \in Conn, x \in Device : a = <<d, x>>
      OBVIOUS
    <3> QED BY <1>7, <3>1
  <2> QED BY <2>1, <2>2
<1> QED BY <1>1, <1>2, <1>5, <1>8 DEF Rules!Enter

(* Whatever the tables do, a connection gains access to a room only by its   *)
(* own join, and loses all of it when it is cleaned up: the detailed rooms    *)
(* implement RoomAccess.                                                     *)
THEOREM Refinement == Spec => AccessRules
<1>1. Init => Rules!Init
  <2> SUFFICES ASSUME Init PROVE Rules!Init
    OBVIOUS
  <2>1. PICK rows \in LedgerRows : reg = Restore(rows, {})
    BY DEF Init
  <2>2. reg \in Registry /\ \A c \in Conn : reg.user[c] = NoUser
    BY <2>1, RestoreFields DEF TablesInv
  <2>3. reg.user = [c \in Conn |-> NoUser]
    BY <2>2 DEF Registry
  <2>4. Access = {}
    BY <2>2 DEF Access
  <2> QED BY <2>3, <2>4 DEF Rules!Init
<1>2. IInv /\ IInv' /\ [Next]_vars => [Rules!Next]_(Rules!vars)
  <2> SUFFICES ASSUME IInv, IInv', [Next]_vars PROVE [Rules!Next]_(Rules!vars)
    OBVIOUS
  <2>1. reg \in Registry /\ reg' \in Registry
    BY DEF IInv, TablesInv
  <2>2. ASSUME reg' = reg PROVE [Rules!Next]_(Rules!vars)
    BY <2>2 DEF Rules!vars, Access
  <2>3. ASSUME NEW g \in User, NEW t \in Device, reg' = ReleaseGuest(reg, g, {t})
        PROVE  Rules!Revoke
    <3>1. {t} \in SUBSET User
      BY DEF User
    <3>2. /\ reg'.user = reg.user
          /\ \A x, v \in User : reg'.grant[x][v] =
               IF x \in {t} /\ v = g /\ g \in reg.guests[x] THEN NoConn ELSE reg.grant[x][v]
      BY <2>1, <2>3, <3>1, ReleaseGuestFields
    <3> QED BY <2>1, <3>2, RevokeStep
  <2>4. ASSUME NEW t \in Device, reg' = ReleaseRooms(reg, {t})
        PROVE  Rules!Revoke
    <3>1. {t} \in SUBSET User
      BY DEF User
    <3>2. /\ reg'.user = reg.user
          /\ \A x, v \in User : reg'.grant[x][v] = IF x \in {t} THEN NoConn ELSE reg.grant[x][v]
      BY <2>1, <2>4, <3>1, ReleaseRoomsFields
    <3> QED BY <2>1, <3>2, RevokeStep
  <2>5. ASSUME NEW c \in Conn, NEW t \in Device, Leave(c, t) PROVE Rules!Revoke
    <3>1. reg.user[c] \in User
      BY <2>1, <2>5 DEF Leave, IsConnectionInTransmission, Registry
    <3> QED BY <2>3, <2>4, <2>5, <3>1 DEF Leave
  <2>6. ASSUME NEW t \in Device, AdminDisconnect(t) PROVE Rules!Revoke
    <3> DEFINE s == Closed(t)
    <3>0. s = Closed(t) /\ reg' = EndRoomRows(s, t) /\ t \in User
      BY <2>6 DEF AdminDisconnect, User, Closed
    <3> HIDE DEF s
    <3>1. /\ s \in Registry /\ s.user = reg.user
          /\ \A x, v \in User : s.grant[x][v] \in {NoConn, reg.grant[x][v]}
      BY <3>0, ClosedFields
    <3>2. reg'.user = s.user /\ reg'.grant = s.grant
      BY <3>0, <3>1, EndRoomRowsFields
    <3> QED BY <2>1, <3>1, <3>2, RevokeStep
  <2>7. CASE Prune
    <3>1. reg' = PruneDisconnected(reg, Live)
      BY <2>7 DEF Prune
    <3>2. /\ reg'.user = reg.user
          /\ \A t, g \in User : reg'.grant[t][g] # NoConn => reg'.grant[t][g] = reg.grant[t][g]
      BY <2>1, <3>1, PruneFields
    <3>3. Rules!Revoke
      BY <2>1, <3>2, RevokeStep
    <3> QED BY <3>3 DEF Rules!Next
  <2>8. ASSUME NEW c \in Conn, Cleanup(c) PROVE Rules!Logout(c) \/ Rules!Revoke
    BY <2>8, LogoutStep
  <2>9. ASSUME NEW c \in Conn, NEW u \in User, NEW k \in Device \cup {NoUser}, Login(c, u, k)
        PROVE  Rules!Login(c, u)
    BY <2>9, LoginAccess
  <2>10. ASSUME NEW c \in Conn, NEW t \in Device, Join(c, t) PROVE Rules!Enter(c, t)
    BY <2>10, EnterStep
  <2>11. ASSUME NEW c \in Conn, NEW g \in User, NEW t \in Device, DisconnectPeer(c, g, t)
         PROVE  Rules!Revoke
    BY <2>3, <2>11 DEF DisconnectPeer
  <2>12. ASSUME NEW c \in Conn, Accept(c) \/ Close(c) \/ Expire(c) PROVE reg' = reg
    BY <2>12 DEF Accept, Close, Expire
  <2>13. CASE UNCHANGED vars
    BY <2>2, <2>13 DEF vars
  <2>14. CASE Next
    BY <2>2, <2>5, <2>6, <2>7, <2>8, <2>9, <2>10, <2>11, <2>12, <2>14 DEF Next, Rules!Next
  <2> QED BY <2>13, <2>14
<1> QED BY <1>1, <1>2, Inductive, PTL DEF Spec, AccessRules, Rules!Spec
=============================================================================
