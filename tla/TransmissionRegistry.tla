------------------------ MODULE TransmissionRegistry ------------------------
(***************************************************************************)
(* The tables of TransmissionManager (src/src/transmission_manager.cpp)    *)
(* and its member functions, as operators from one value of the tables to  *)
(* the next.  A handler of the server runs on the single application       *)
(* worker and composes several of these functions in one step, so the      *)
(* modules that describe handlers compose the operators.                   *)
(*                                                                         *)
(* A map without an entry is modelled by the sentinel NoUser or NoConn.    *)
(* The guest list and the guest handles of a room are erased when they     *)
(* become empty, so an empty set and an absent entry are the same thing.   *)
(*                                                                         *)
(* The field `ledger' is the remote_control_sessions table: SignalServer   *)
(* installs a callback through which every guest that enters or leaves a   *)
(* room starts or ends a row.  The notifications run when the outermost    *)
(* StateLock is released; they touch the table only, so applying them with *)
(* the mutation that queued them gives the same tables.                    *)
(***************************************************************************)
EXTENDS FiniteSets

CONSTANTS
    Device,      \* identities of installed devices ("123456789")
    Clone,       \* controller identities of devices ("C-123456789")
    Temporary,   \* one-connection controllers ("web-...", "cli-...")
    Owner,       \* the device a controller identity names, without "C-"
    Conn,        \* connection handles; a handle is never reused
    NoUser,      \* the empty string as a user id
    NoConn       \* an empty connection_hdl

User == Device \cup Clone \cup Temporary

ASSUME IdentityAssumption ==
    /\ Device \cap Clone = {}
    /\ Device \cap Temporary = {}
    /\ Clone \cap Temporary = {}
    /\ NoUser \notin User
    /\ NoConn \notin Conn
    /\ Owner \in [Clone -> Device]

Registry ==
    [host     : [User -> User \cup {NoUser}],              \* transmission_host_id_list_
     guests   : [User -> SUBSET User],                     \* transmission_guest_id_list_
     grant    : [User -> [User -> Conn \cup {NoConn}]],    \* transmission_guest_handles_
     route    : [User -> Conn \cup {NoConn}],              \* user_id_ws_hdl_list_
     user     : [Conn -> User \cup {NoUser}],              \* ws_hdl_user_id_list_
     verified : [Conn -> Device \cup {NoUser}],            \* ws_hdl_verified_device_ids_
     ledger   : [User -> [User -> User \cup {NoUser}]]]    \* remote_control_sessions

NoRows == [t \in User |-> [g \in User |-> NoUser]]

EmptyRegistry(rows) ==
    [host     |-> [t \in User |-> NoUser],
     guests   |-> [t \in User |-> {}],
     grant    |-> [t \in User |-> [g \in User |-> NoConn]],
     route    |-> [u \in User |-> NoConn],
     user     |-> [c \in Conn |-> NoUser],
     verified |-> [c \in Conn |-> NoUser],
     ledger   |-> rows]

-----------------------------------------------------------------------------
(* Queries. *)

HasUserConnection(r, u) == \E c \in Conn : r.user[c] = u

HostedRooms(r, u) == {t \in User : r.host[t] = u}

(* IsHost returns the first room in map order; RoomsHosted below is why the order does not matter. *)
IsHost(r, u) ==
    IF HostedRooms(r, u) = {} THEN NoUser ELSE CHOOSE t \in HostedRooms(r, u) : TRUE

(* The handle of a member of a room: the newest route of the host, or the connection granted to the guest. *)
GetWsHandle(r, u, t) ==
    IF r.host[t] = NoUser THEN NoConn
    ELSE IF r.host[t] = u THEN r.route[u]
    ELSE LET c == r.grant[t][u]
         IN  IF c # NoConn /\ r.user[c] = u THEN c ELSE NoConn

IsConnectionInTransmission(r, live, c, t) ==
    /\ c \in live
    /\ r.user[c] # NoUser
    /\ GetWsHandle(r, r.user[c], t) = c

(* Mutants: any two members may signal; the sender's own membership is not asked for. *)
AnyTwoMembers(r, live, c, remote, t) ==
    /\ r.user[c] # remote
    /\ IsConnectionInTransmission(r, live, c, t)
    /\ GetWsHandle(r, remote, t) \in live
AnySenderOfTheRoom(r, live, c, remote, t) ==
    /\ c \in live
    /\ r.user[c] # remote
    /\ r.host[t] # NoUser
    /\ r.host[t] \in {r.user[c], remote}
    /\ GetWsHandle(r, remote, t) \in live

(* The sender and the receiver of a signal are the host of the room and one granted guest. *)
IsAuthorizedPeerSignal(r, live, c, remote, t) ==
    /\ r.user[c] # remote
    /\ r.host[t] # NoUser
    /\ r.host[t] \in {r.user[c], remote}
    /\ IsConnectionInTransmission(r, live, c, t)
    /\ GetWsHandle(r, remote, t) \in live

-----------------------------------------------------------------------------
(* The session ledger. *)

StartRow(r, t, h, g) ==
    IF h \in {NoUser, g} THEN r
    ELSE [r EXCEPT !.ledger[t][g] = IF @ = NoUser THEN h ELSE @]

EndRow(r, t, g) == [r EXCEPT !.ledger[t][g] = NoUser]

EndRoomRows(r, t) == [r EXCEPT !.ledger[t] = [g \in User |-> NoUser]]

-----------------------------------------------------------------------------
(* Rooms. *)

BindHost(r, h, t) ==
    IF h \in Temporary \/ t \in Temporary \/ r.host[t] # NoUser THEN r
    ELSE [r EXCEPT !.host[t] = h]

CanBindGuest(r, g, t) ==
    /\ r.host[t] \notin {NoUser, g}
    /\ g \notin r.guests[t]

(* Without the callback: how restored rows enter the tables at startup. *)
EnterGuest(r, g, t) ==
    IF CanBindGuest(r, g, t) THEN [r EXCEPT !.guests[t] = @ \cup {g}] ELSE r

BindGuest(r, g, t) ==
    IF CanBindGuest(r, g, t) THEN StartRow(EnterGuest(r, g, t), t, r.host[t], g) ELSE r

CanGrant(r, live, g, t, c) ==
    /\ c \in live
    /\ r.user[c] = g
    /\ r.host[t] \notin {NoUser, g}

(* Rejoining moves the grant of this room to the new connection, never another room's. *)
GrantGuest(r, g, t, c) == [BindGuest(r, g, t) EXCEPT !.grant[t][g] = c]

(* Mutant: the guest leaves the list and the session table, its handle stays. *)
ReleaseGuestKeepGrant(r, g, rooms) ==
    LET left(t) == t \in rooms /\ g \in r.guests[t]
    IN  [r EXCEPT
          !.guests = [t \in User |-> IF left(t) THEN @[t] \ {g} ELSE @[t]],
          !.ledger = [t \in User |-> [u \in User |->
                        IF left(t) /\ u = g THEN NoUser ELSE @[t][u]]]]

(* ReleaseGuestFromTransmission, for one room or looped over every room. *)
ReleaseGuest(r, g, rooms) ==
    LET left(t) == t \in rooms /\ g \in r.guests[t]
    IN  [r EXCEPT
          !.guests = [t \in User |-> IF left(t) THEN r.guests[t] \ {g} ELSE r.guests[t]],
          !.grant  = [t \in User |-> [u \in User |->
                        IF left(t) /\ u = g THEN NoConn ELSE r.grant[t][u]]],
          !.ledger = [t \in User |-> [u \in User |->
                        IF left(t) /\ u = g THEN NoUser ELSE r.ledger[t][u]]]]

(* ReleaseTransmission, for one room or for every room a prune found dead. *)
ReleaseRooms(r, rooms) ==
    [r EXCEPT
      !.host   = [t \in User |-> IF t \in rooms THEN NoUser ELSE r.host[t]],
      !.guests = [t \in User |-> IF t \in rooms THEN {} ELSE r.guests[t]],
      !.grant  = [t \in User |-> [u \in User |->
                    IF t \in rooms THEN NoConn ELSE r.grant[t][u]]],
      !.ledger = [t \in User |-> [u \in User |->
                    IF t \in rooms /\ u \in r.guests[t] THEN NoUser ELSE r.ledger[t][u]]]]

-----------------------------------------------------------------------------
(* Connections. *)

CanBindUser(r, live, u, c) == c \in live /\ r.user[c] \in {NoUser, u}

(* Controllers may share an identity: a later login keeps the existing route. *)
BindUser(r, u, c, key) ==
    [r EXCEPT
      !.route[u]    = IF u \in Clone /\ @ # NoConn THEN @ ELSE c,
      !.user[c]     = u,
      !.verified[c] = IF key = NoUser THEN @ ELSE key]

(* Other connections of the same identity; the route falls back to the first in pointer order, any of them. *)
Successors(r, c) ==
    LET others == {o \in Conn \ {c} : r.user[o] = r.user[c]}
    IN  IF others = {} THEN {NoConn} ELSE others

(* ReleaseUserFromWsHandle. *)
ReleaseHandle(r, c, next) ==
    LET u == r.user[c]
        s == [r EXCEPT !.verified[c] = NoUser, !.user[c] = NoUser]
    IN  IF u # NoUser /\ r.route[u] = c THEN [s EXCEPT !.route[u] = next] ELSE s

(* ReleaseUserSession returns the identity exactly when its last connection is gone. *)
LoggedOut(r, c) == r.user[c] # NoUser /\ Successors(r, c) = {NoConn}

(* Mutants: every logout leaves all rooms of the identity; the last logout keeps the room; *)
(* the grants of a logout fall back to another connection, as the route does.              *)
LeaveAllRooms(r, c, next) ==
    LET u == r.user[c]
        g == ReleaseGuest(ReleaseHandle(r, c, next), u, User)
    IN  IF u = NoUser THEN ReleaseHandle(r, c, next)
        ELSE IF LoggedOut(r, c) THEN ReleaseRooms(g, {IsHost(g, u)} \ {NoUser})
        ELSE g
KeepHostedRoom(r, c, next) ==
    LET u == r.user[c]
        s == ReleaseHandle(r, c, next)
    IN  IF u = NoUser THEN s
        ELSE ReleaseGuest(s, u, IF LoggedOut(r, c) THEN User
                                ELSE {t \in User : r.grant[t][u] = c})
InheritGrants(r, c, next) ==
    LET u == r.user[c]
        s == ReleaseHandle(r, c, next)
        g == ReleaseGuest(s, u, User)
    IN  IF u = NoUser THEN s
        ELSE IF LoggedOut(r, c) THEN ReleaseRooms(g, {IsHost(g, u)} \ {NoUser})
        ELSE [s EXCEPT !.grant = [t \in User |->
                [v \in User |-> IF v = u /\ @[t][v] = c THEN next ELSE @[t][v]]]]

ReleaseUserSession(r, c, next) ==
    LET u      == r.user[c]
        s      == ReleaseHandle(r, c, next)
        joined == {t \in User : r.grant[t][u] = c}
        g      == ReleaseGuest(s, u, IF LoggedOut(r, c) THEN User ELSE joined)
    IN  IF u = NoUser THEN s
        ELSE IF LoggedOut(r, c) THEN ReleaseRooms(g, {IsHost(g, u)} \ {NoUser})
        ELSE g

-----------------------------------------------------------------------------
(* Rooms whose host, and guests whose connection, did not come back after a restart. *)

HostGone(r) == {t \in User : r.host[t] # NoUser /\ ~HasUserConnection(r, r.host[t])}

GuestGone(r, live, t, g) ==
    IF r.grant[t][g] # NoConn
    THEN ~(r.grant[t][g] \in live /\ r.user[r.grant[t][g]] = g)
    ELSE ~HasUserConnection(r, g)

(* Mutant: only rooms without a host are pruned. *)
PruneHosts(r, live) == ReleaseRooms(r, HostGone(r))

PruneDisconnected(r, live) ==
    LET s    == ReleaseRooms(r, HostGone(r))
        gone == [t \in User |-> {g \in s.guests[t] : GuestGone(s, live, t, g)}]
    IN  [s EXCEPT
          !.guests = [t \in User |-> s.guests[t] \ gone[t]],
          !.grant  = [t \in User |-> [g \in User |->
                        IF g \in gone[t] THEN NoConn ELSE s.grant[t][g]]],
          !.ledger = [t \in User |-> [g \in User |->
                        IF g \in gone[t] THEN NoUser ELSE s.ledger[t][g]]]]

(***************************************************************************)
(* RestorePersistedRemoteControlSessions: rows without a recovery ticket   *)
(* (those outside `managed') re-enter their room; every host is bound.     *)
(* Rows of one room name one host, so the order of the rows is irrelevant. *)
(***************************************************************************)
Restore(rows, managed) ==
    LET hosts(t)  == {rows[t][g] : g \in User} \ {NoUser}
        host(t)   == IF hosts(t) = {} \/ t \in Temporary THEN NoUser
                     ELSE CHOOSE h \in hosts(t) : TRUE
        guests(t) == {g \in User : rows[t][g] # NoUser /\ <<t, g>> \notin managed}
    IN  [EmptyRegistry(rows) EXCEPT
          !.host   = [t \in User |-> host(t)],
          !.guests = [t \in User |-> IF host(t) = NoUser THEN {} ELSE guests(t) \ {host(t)}]]

-----------------------------------------------------------------------------
(***************************************************************************)
(* What the tables promise between two jobs of the application worker.     *)
(* The modules of the handlers state these as invariants of their steps.   *)
(***************************************************************************)

(* The newest route of an identity is a connection that is logged in as it, *)
(* and an identity that is logged in somewhere always has a route: the      *)
(* fallback in ReleaseUserFromWsHandle never leaves a live login unreachable. *)
RoutesCurrent(r) ==
    /\ \A u \in User : r.route[u] # NoConn => r.user[r.route[u]] = u
    /\ \A c \in Conn : r.user[c] # NoUser => r.route[r.user[c]] # NoConn

(* A grant belongs to a member of the room and to a connection that is      *)
(* logged in as that member: a reused identity never inherits a grant.      *)
GrantsCurrent(r) ==
    \A t, g \in User : r.grant[t][g] # NoConn =>
        /\ r.user[r.grant[t][g]] = g
        /\ g \in r.guests[t]

(* A room is hosted by the device it is named after, never by a temporary   *)
(* controller, and a room without a host has no guests.                     *)
RoomsHosted(r) == \A t \in User :
    /\ r.host[t] \in {NoUser, t}
    /\ t \in Temporary => r.host[t] = NoUser
    /\ t \notin r.guests[t]
    /\ r.guests[t] # {} => r.host[t] = t

(* The key a connection proved belongs to the identity it is logged in as.  *)
KeysOwned(r) == \A c \in Conn : r.verified[c] # NoUser =>
    \/ r.user[c] = r.verified[c]
    \/ r.user[c] \in Clone /\ Owner[r.user[c]] = r.verified[c]

(* The session table has exactly the guests of the rooms, under their host. *)
LedgerCurrent(r) ==
    \A t, g \in User : r.ledger[t][g] = IF g \in r.guests[t] THEN t ELSE NoUser
=============================================================================
