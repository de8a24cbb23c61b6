------------------------- MODULE TransmissionManager -------------------------
(***************************************************************************)
(* One lifetime of the server, seen from the rooms: connections open, log  *)
(* in, enter rooms, signal, leave and close, while the rooms restored from *)
(* remote_control_sessions wait for their members.                         *)
(*                                                                         *)
(* Every step is one job of the application worker (signal_server.cpp), the*)
(* only thread that writes these tables, except Accept, Close and Expire,  *)
(* which are the network thread's: a connection is closed there, and its   *)
(* handle may even be destroyed, before the cleanup job that releases it   *)
(* reaches the head of the worker's queue.                                 *)
(*                                                                         *)
(* The password or key check that precedes Login and Join is not modelled  *)
(* here: any attempt may succeed at any time, which includes every answer  *)
(* of the credential workers.  ExpireInactiveSessions is not modelled: the *)
(* server builds its TransmissionManager without the expiry thread.        *)
(***************************************************************************)
EXTENDS TransmissionRegistry

VARIABLES
    reg,      \* the tables of TransmissionManager and the session table
    phase,    \* where a connection is between accept and cleanup
    pruned    \* the one-shot timer of ScheduleRecoveredSessionCleanup has run

vars == <<reg, phase, pruned>>

Phase == {"new", "open", "closing", "expired", "gone"}

(* Connections whose handle can still be locked: !hdl.expired(). *)
Live == {c \in Conn : phase[c] \in {"open", "closing"}}

TypeOK ==
    /\ reg \in Registry
    /\ phase \in [Conn -> Phase]
    /\ pruned \in BOOLEAN

-----------------------------------------------------------------------------
(* Rows a previous process may have left: a room is named after its host. *)
LedgerRows ==
    {[t \in User |-> [g \in User |-> IF <<t, g>> \in s THEN t ELSE NoUser]] :
        s \in SUBSET {p \in Device \X User : p[1] # p[2]}}

Init ==
    /\ \E rows \in LedgerRows : reg = Restore(rows, {})
    /\ phase = [c \in Conn |-> "new"]
    /\ pruned = FALSE

-----------------------------------------------------------------------------
(* The network thread. *)

(* OnOpen. *)
Accept(c) ==
    /\ phase[c] = "new"
    /\ phase' = [phase EXCEPT ![c] = "open"]
    /\ UNCHANGED <<reg, pruned>>

(* CloseConnection, FinishConnection and the maintenance tick all queue one cleanup job. *)
Close(c) ==
    /\ phase[c] = "open"
    /\ phase' = [phase EXCEPT ![c] = "closing"]
    /\ UNCHANGED <<reg, pruned>>

(* The last reference to the connection is dropped while its cleanup still waits. *)
Expire(c) ==
    /\ phase[c] = "closing"
    /\ phase' = [phase EXCEPT ![c] = "expired"]
    /\ UNCHANGED <<reg, pruned>>

-----------------------------------------------------------------------------
(* The application worker. *)

(* The cleanup job of QueueSessionCleanup. *)
Cleanup(c) ==
    /\ phase[c] \in {"closing", "expired"}
    /\ \E next \in Successors(reg, c) : reg' = ReleaseUserSession(reg, c, next)
    /\ phase' = [phase EXCEPT ![c] = "gone"]
    /\ UNCHANGED pruned

(* RegisterDevice draws an identity no device row has; a temporary row lives as long as its session. *)
Fresh(u) ==
    /\ ~HasUserConnection(reg, u)
    /\ \A t \in User : u \notin reg.guests[t] /\ reg.ledger[t][u] = NoUser

(* A key is proved for a device or for the device that owns a controller identity. *)
KeyOf(u) ==
    CASE u \in Device -> u
      [] u \in Clone  -> Owner[u]
      [] OTHER        -> NoUser

(* CompleteLogin: the socket is bound first, then the device becomes the host of its own room. *)
Login(c, u, key) ==
    /\ phase[c] = "open"
    /\ reg.user[c] = NoUser
    /\ u \in Temporary => Fresh(u)
    /\ key \in {NoUser, KeyOf(u)}
    /\ CanBindUser(reg, Live, u, c)
    /\ reg' = BindHost(BindUser(reg, u, c, key), u, u)
    /\ UNCHANGED <<phase, pruned>>

(* The continuation of join_transmission after the password was verified. *)
CanJoin(c, t) ==
    LET h == reg.host[t]
    IN  /\ phase[c] = "open"
        /\ reg.user[c] # NoUser
        /\ h # NoUser
        /\ reg.route[h] \in Live
        /\ CanGrant(reg, Live, reg.user[c], t, c)

Join(c, t) ==
    LET g == reg.user[c]
    IN  /\ CanJoin(c, t)
        /\ reg' = StartRow(GrantGuest(reg, g, t, c), t, reg.host[t], g)
        /\ UNCHANGED <<phase, pruned>>

(* leave_transmission: a host ends its room, a guest only its own membership. *)
Leave(c, t) ==
    LET u == reg.user[c]
    IN  /\ phase[c] = "open"
        /\ IsConnectionInTransmission(reg, Live, c, t)
        /\ reg' = IF reg.host[t] = u THEN ReleaseRooms(reg, {t})
                  ELSE ReleaseGuest(reg, u, {t})
        /\ UNCHANGED <<phase, pruned>>

(* disconnect_peer: only the host, and only one guest. *)
DisconnectPeer(c, g, t) ==
    /\ phase[c] = "open"
    /\ IsAuthorizedPeerSignal(reg, Live, c, g, t)
    /\ reg.host[t] = reg.user[c]
    /\ g \in reg.guests[t]
    /\ reg' = ReleaseGuest(reg, g, {t})
    /\ UNCHANGED <<phase, pruned>>

(* HandleDisconnect of the administration API: the room if there is one, then any row left. *)
AdminDisconnect(t) ==
    /\ reg' = EndRoomRows(IF reg.host[t] = NoUser THEN reg ELSE ReleaseRooms(reg, {t}), t)
    /\ UNCHANGED <<phase, pruned>>

(* PruneDisconnectedTransmissions, once per process. *)
Prune ==
    /\ ~pruned
    /\ reg' = PruneDisconnected(reg, Live)
    /\ pruned' = TRUE
    /\ UNCHANGED phase

Next ==
    \/ \E c \in Conn : Accept(c) \/ Close(c) \/ Expire(c) \/ Cleanup(c)
    \/ \E c \in Conn, u \in User, k \in Device \cup {NoUser} : Login(c, u, k)
    \/ \E c \in Conn, t \in Device : Join(c, t) \/ Leave(c, t)
    \/ \E c \in Conn, g \in User, t \in Device : DisconnectPeer(c, g, t)
    \/ \E t \in Device : AdminDisconnect(t)
    \/ Prune

Spec == Init /\ [][Next]_vars

-----------------------------------------------------------------------------
(* Safety. *)

(* Only a connection between open and cleanup is logged in: a late job of a *)
(* closed connection never leaves an identity bound to it.                  *)
ClosedForgotten == \A c \in Conn : reg.user[c] # NoUser =>
    phase[c] \in {"open", "closing", "expired"}

(* The tables agree with each other and with the session table. *)
TablesAgree ==
    /\ RoutesCurrent(reg)
    /\ GrantsCurrent(reg)
    /\ RoomsHosted(reg)
    /\ KeysOwned(reg)
    /\ LedgerCurrent(reg)

(* After the one prune of this process no room waits for a host and no      *)
(* guest for a connection: nothing restored survives without its member.    *)
RestoredSettled == pruned => \A t \in User :
    /\ reg.host[t] # NoUser => HasUserConnection(reg, reg.host[t])
    /\ \A g \in reg.guests[t] : HasUserConnection(reg, g)

(* The relay of offer, answer, new_candidate and new_candidate_mid, as the  *)
(* set of <<from, to, room>> it would carry now.                            *)
Relay ==
    {w \in Live \X Live \X User :
        \E remote \in User :
            /\ IsAuthorizedPeerSignal(reg, Live, w[1], remote, w[3])
            /\ GetWsHandle(reg, remote, w[3]) = w[2]}

(* A signal travels between a connection of the room's own device and a     *)
(* connection that was itself granted the room, never between two guests,   *)
(* never to a stale route and never back to its sender.                     *)
SignalsStayInRoom == \A w \in Relay :
    LET guest == IF reg.user[w[1]] = w[3] THEN w[2] ELSE w[1]
        host  == IF reg.user[w[1]] = w[3] THEN w[1] ELSE w[2]
    IN  /\ w[1] # w[2]
        /\ reg.user[host] = w[3]
        /\ reg.user[guest] \notin {NoUser, w[3]}
        /\ reg.grant[w[3]][reg.user[guest]] = guest

(* A signal can always be answered: authority is symmetric. *)
SignalsAnswerable ==
    \A w \in Relay : phase[w[2]] = "open" => <<w[2], w[1], w[3]>> \in Relay

(* The cleanup of an old connection takes nothing from another connection:  *)
(* it stays reachable, keeps the rooms it hosts, and keeps its grants       *)
(* unless the host of the room is the identity that logged out.             *)
CleanupTouchesOnlyItself ==
    [][\A c \in Conn : phase[c] # "gone" /\ phase'[c] = "gone" =>
         \A d \in Conn \ {c} :
            LET u == reg.user[d]
            IN  u # NoUser =>
                /\ reg'.user[d] = u
                /\ reg.route[u] # c => reg'.route[u] = reg.route[u]
                /\ reg'.host[u] = reg.host[u]
                /\ \A t \in User : reg.grant[t][u] = d /\ reg'.grant[t][u] # d =>
                      reg.user[c] = t /\ ~HasUserConnection(reg', t)]_vars

(* Guests never wait for ever for a host that is gone: while a room has     *)
(* guests and no open connection of its device, the job that will end the   *)
(* room is still to run, a cleanup queued for such a connection or the      *)
(* prune of the restored rooms.                                             *)
HostOpen(t)    == \E c \in Conn : reg.user[c] = t /\ phase[c] = "open"
HostClosing(t) == \E c \in Conn : reg.user[c] = t /\ phase[c] \in {"closing", "expired"}
NoAbandonedRoom == \A t \in User :
    reg.guests[t] # {} /\ ~HostOpen(t) => ~pruned \/ HostClosing(t)

-----------------------------------------------------------------------------
(* The rooms implement the access rules of RoomAccess. *)
Access == {a \in Conn \X Device :
              reg.user[a[1]] # NoUser /\ reg.grant[a[2]][reg.user[a[1]]] = a[1]}
Rules == INSTANCE RoomAccess
             WITH Room <- Device, Nobody <- NoUser, who <- reg.user, access <- Access
AccessRules == Rules!Spec
=============================================================================
