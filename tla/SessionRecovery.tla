--------------------------- MODULE SessionRecovery ---------------------------
(***************************************************************************)
(* Recovery of remote-control sessions over a restart of the server        *)
(* (src/src/session_recovery.cpp) together with the rooms.                 *)
(*                                                                         *)
(* Two tables survive a crash: remote_control_sessions (reg.ledger) and    *)
(* session_recovery (token), whose rows a trigger deletes with the session *)
(* row.  A session whose two clients can resume waits for both of them to  *)
(* report the token; any other session re-enters its room as a routing     *)
(* entry and is only counted again once both identities are back.          *)
(*                                                                         *)
(* Every handler of TransmissionManager is taken as it is, with what it    *)
(* does to the recovery state added.  A crash may come between two jobs or *)
(* between two statements of one job (Torn).                               *)
(***************************************************************************)
EXTENDS TransmissionManager, Naturals

CONSTANTS
    ProvedKey,     \* bound on the keys a login proves; recovery never reads them
    MaxToken,      \* bound on the tickets issued in a behaviour
    MaxCrash       \* bound on the restarts in a behaviour

VARIABLES
    token,         \* the session_recovery table: the token of a session, or 0
    ticket,        \* tickets_ in memory
    legacy,        \* legacy_ in memory: sessions restored without a ticket
    capable,       \* connections that announced session_resume_version 1
    late,          \* recovery_timeout_seconds have passed since the start
    issued,        \* tokens drawn so far; RAND_bytes never repeats one
    crashes

recovery == <<token, ticket, legacy, capable, late, issued, crashes>>
allvars  == <<vars, recovery>>

ASSUME BoundAssumption ==
    /\ ProvedKey \subseteq Device \cup {NoUser}
    /\ MaxToken \in Nat /\ MaxCrash \in Nat

Token    == 1..MaxToken
NoTicket == [tok |-> 0, recovering |-> FALSE, host |-> NoConn, guest |-> NoConn]

(* host and guest are the connections that reported; they are only read once both are ready. *)
Ticket == [tok : Token \cup {0}, recovering : BOOLEAN,
           host : Conn \cup {NoConn}, guest : Conn \cup {NoConn}]

RecoveryTypeOK ==
    /\ TypeOK
    /\ token \in [User -> [User -> Token \cup {0}]]
    /\ ticket \in [User -> [User -> Ticket]]
    /\ legacy \subseteq User \X User
    /\ capable \subseteq Conn
    /\ late \in BOOLEAN
    /\ issued \in 0..MaxToken
    /\ crashes \in 0..MaxCrash

Manages(t, g)    == ticket[t][g].tok # 0
Recovering(t, g) == Manages(t, g) /\ ticket[t][g].recovering
Exists(r, t, g)  == r.ledger[t][g] = t

(* The trigger session_recovery_cleanup: a token goes with its session row. *)
Triggered(tok, rows) ==
    [t \in User |-> [g \in User |-> IF rows[t][g] = NoUser THEN 0 ELSE tok[t][g]]]

-----------------------------------------------------------------------------
(* The constructor on the tables a process left, after the orphan DELETE. *)
Startup(rows, tok) ==
    LET kept    == Triggered(tok, rows)
        managed == {p \in User \X User : kept[p[1]][p[2]] # 0}
    IN  /\ token' = kept
        /\ ticket' = [t \in User |-> [g \in User |->
              IF <<t, g>> \in managed THEN [NoTicket EXCEPT !.tok = kept[t][g], !.recovering = TRUE]
              ELSE NoTicket]]
        /\ legacy' = {p \in User \X User : rows[p[1]][p[2]] # NoUser /\ p \notin managed}
        /\ reg' = Restore(rows, managed)
        /\ phase' = [c \in Conn |-> "new"]
        /\ capable' = {}
        /\ late' = FALSE
        /\ pruned' = FALSE

RecoveryInit ==
    /\ reg = EmptyRegistry(NoRows)
    /\ phase = [c \in Conn |-> "new"]
    /\ pruned = FALSE
    /\ token = [t \in User |-> [g \in User |-> 0]]
    /\ ticket = [t \in User |-> [g \in User |-> NoTicket]]
    /\ legacy = {}
    /\ capable = {}
    /\ late = FALSE
    /\ issued = 0
    /\ crashes = 0

-----------------------------------------------------------------------------
(* Handlers of the rooms. *)

OnNetwork(c) ==
    /\ Accept(c) \/ Close(c) \/ Expire(c)
    /\ UNCHANGED recovery

(* Steps that end session rows and leave tickets in memory until the next Expire. *)
EndsRows ==
    /\ token' = Triggered(token, reg'.ledger)
    /\ UNCHANGED <<ticket, legacy, capable, late, issued, crashes>>

OnCleanup(c)                == Cleanup(c) /\ EndsRows
OnLeave(c, t)               == Leave(c, t) /\ EndsRows
OnDisconnectPeer(c, g, t)   == DisconnectPeer(c, g, t) /\ EndsRows
OnPrune                     == Prune /\ EndsRows

(* Mutant: the administrator is not refused. *)
AdminAlways(t) == AdminDisconnect(t) /\ EndsRows

(* The administrator is refused while a session of the room is being recovered. *)
OnAdminDisconnect(t) ==
    /\ \A g \in User : reg.ledger[t][g] # NoUser => ~Recovering(t, g) /\ <<t, g>> \notin legacy
    /\ AdminDisconnect(t)
    /\ EndsRows

(* Both identities are back within the window: counted again, but granted nothing. *)
ConfirmLegacy(r, p) ==
    /\ ~late
    /\ Exists(r, p[1], p[2])
    /\ \A u \in {p[1], p[2]} : r.route[u] \in Live /\ r.user[r.route[u]] = u

(* SessionRecovery::Login runs after CompleteLogin, on the tables it left. *)
OnLogin(c, u, key, resume) ==
    /\ Login(c, u, key)
    /\ capable' = IF resume THEN capable \cup {c} ELSE capable \ {c}
    /\ legacy' = {p \in legacy : ~(u \in {p[1], p[2]} /\ ConfirmLegacy(reg', p))}
    /\ UNCHANGED <<token, ticket, late, issued, crashes>>

(* Issue, at the end of a join: a fresh ticket if both clients can resume, none otherwise. *)
OnJoin(c, t) ==
    LET g     == reg.user[c]
        ready == reg.route[t] \in capable /\ c \in capable
    IN  /\ Join(c, t)
        /\ ready => issued < MaxToken
        /\ legacy' = legacy \ {<<t, g>>}
        /\ issued' = IF ready THEN issued + 1 ELSE issued
        /\ ticket' = [ticket EXCEPT ![t][g] =
                        IF ready THEN [NoTicket EXCEPT !.tok = issued + 1] ELSE NoTicket]
        /\ token' = [token EXCEPT ![t][g] = IF ready THEN issued + 1
                                            ELSE IF Manages(t, g) THEN 0 ELSE @]
        /\ UNCHANGED <<capable, late, crashes>>

-----------------------------------------------------------------------------
(* A client reports whether its transport of the session still exists. *)

(* Mutant: the session row and the deadline are not looked at. *)
AcceptedByToken(c, t, g, tok) ==
    /\ phase[c] = "open"
    /\ Manages(t, g)
    /\ tok = ticket[t][g].tok
    /\ reg.user[c] \in {t, g}

(* The checks every report passes before it changes anything. *)
Accepted(c, t, g, tok) ==
    /\ phase[c] = "open"
    /\ Manages(t, g)
    /\ tok = ticket[t][g].tok
    /\ reg.user[c] \in {t, g}
    /\ Exists(reg, t, g)
    /\ ticket[t][g].recovering => ~late

(* A transport that is gone ends the session for both sides. *)
ReportDead(c, t, g, tok) ==
    /\ Accepted(c, t, g, tok)
    /\ reg' = EndRow(ReleaseGuest(reg, g, {t}), t, g)
    /\ token' = [Triggered(token, reg'.ledger) EXCEPT ![t][g] = 0]
    /\ ticket' = [ticket EXCEPT ![t][g] = NoTicket]
    /\ legacy' = legacy \ {<<t, g>>}
    /\ UNCHANGED <<phase, pruned, capable, late, issued, crashes>>

(* Mutant: one side's report is enough. *)
ReportAliveOneSided(c, t, g, tok) ==
    LET new   == IF reg.user[c] = t THEN [ticket[t][g] EXCEPT !.host = c]
                 ELSE [ticket[t][g] EXCEPT !.guest = c]
    IN  /\ Accepted(c, t, g, tok)
        /\ reg' = IF reg.user[c] = g THEN StartRow(GrantGuest(BindHost(reg, t, t), g, t, c), t, t, g)
                  ELSE reg
        /\ ticket' = [ticket EXCEPT ![t][g] = [new EXCEPT !.recovering = @ /\ reg.user[c] = t]]
        /\ UNCHANGED <<phase, pruned, token, legacy, capable, late, issued, crashes>>

(* Only once both sides reported, over connections still logged in, is the guest's socket granted. *)
ReportAlive(c, t, g, tok) ==
    LET old   == ticket[t][g]
        new   == IF reg.user[c] = t THEN [old EXCEPT !.host = c] ELSE [old EXCEPT !.guest = c]
        both  == /\ {new.host, new.guest} \subseteq Live
                 /\ reg.user[new.host] = t
                 /\ reg.user[new.guest] = g
        hosted == BindHost(reg, t, t)
        bound  == both /\ CanGrant(hosted, Live, g, t, new.guest)
    IN  /\ Accepted(c, t, g, tok)
        /\ reg' = IF ~both THEN reg
                  ELSE IF bound THEN StartRow(GrantGuest(hosted, g, t, new.guest), t, t, g)
                  ELSE hosted
        /\ ticket' = [ticket EXCEPT ![t][g] = [new EXCEPT !.recovering = @ /\ ~bound]]
        /\ UNCHANGED <<phase, pruned, token, legacy, capable, late, issued, crashes>>

-----------------------------------------------------------------------------
(* SessionRecovery::Expire, from the runtime heartbeat: overdue and orphaned records. *)

Overdue(t, g) == Manages(t, g) /\ (~Exists(reg, t, g) \/ (Recovering(t, g) /\ late))

(* Mutant: sessions without a ticket are never given up. *)
GivenUpTickets == {p \in User \X User : Overdue(p[1], p[2]) /\ Recovering(p[1], p[2])}

(* A session nobody resumed in time is ended for both sides. *)
GivenUp ==
    {p \in User \X User :
        \/ Overdue(p[1], p[2]) /\ Recovering(p[1], p[2])
        \/ p \in legacy /\ Exists(reg, p[1], p[2]) /\ late}

ExpireTickets ==
    LET out == GivenUp
    IN  /\ reg' = [reg EXCEPT
                    !.guests = [t \in User |-> @[t] \ {g \in User : <<t, g>> \in out}],
                    !.grant  = [t \in User |-> [g \in User |->
                                  IF <<t, g>> \in out THEN NoConn ELSE @[t][g]]],
                    !.ledger = [t \in User |-> [g \in User |->
                                  IF <<t, g>> \in out THEN NoUser ELSE @[t][g]]]]
        /\ ticket' = [t \in User |-> [g \in User |->
                        IF Overdue(t, g) THEN NoTicket ELSE ticket[t][g]]]
        /\ token' = [t \in User |-> [g \in User |->
                        IF Overdue(t, g) THEN 0 ELSE Triggered(token, reg'.ledger)[t][g]]]
        /\ legacy' = {p \in legacy :
                        /\ Exists(reg, p[1], p[2])
                        /\ p \notin out
                        /\ ~Overdue(p[1], p[2])
                        /\ ~ConfirmLegacy(reg, p)}
        /\ capable' = capable \cap Live
        /\ UNCHANGED <<phase, pruned, late, issued, crashes>>

(* recovery_timeout_seconds pass. *)
Deadline ==
    /\ ~late
    /\ late' = TRUE
    /\ UNCHANGED <<vars, token, ticket, legacy, capable, issued, crashes>>

-----------------------------------------------------------------------------
(* Crashes. *)

(* What a crash in the middle of a job leaves: the session row of a join without its ticket, *)
(* or a room some of whose rows are ended.                                                    *)
TornRows ==
    {StartRow(reg, p[2], p[2], reg.user[p[1]]).ledger :
        p \in {q \in Conn \X Device : CanJoin(q[1], q[2])}}
    \cup
    {[reg.ledger EXCEPT ![p[1]] = [g \in User |-> IF g \in p[2] THEN NoUser ELSE @[g]]] :
        p \in {q \in Device \X SUBSET User : q[2] \subseteq reg.guests[q[1]]}}

Crash ==
    /\ crashes < MaxCrash
    /\ crashes' = crashes + 1
    /\ \E rows \in TornRows \cup {reg.ledger} : Startup(rows, token)
    /\ UNCHANGED issued

RecoveryNext ==
    \/ \E c \in Conn : OnNetwork(c) \/ OnCleanup(c)
    \/ \E c \in Conn, u \in User, k \in ProvedKey, resume \in BOOLEAN :
          OnLogin(c, u, k, resume)
    \/ \E c \in Conn, t \in Device : OnJoin(c, t) \/ OnLeave(c, t)
    \/ \E c \in Conn, g \in User, t \in Device : OnDisconnectPeer(c, g, t)
    \/ \E t \in Device : OnAdminDisconnect(t)
    \/ OnPrune
    \/ \E c \in Conn, t \in Device, g \in User, tok \in Token :
          ReportDead(c, t, g, tok) \/ ReportAlive(c, t, g, tok)
    \/ ExpireTickets
    \/ Deadline
    \/ Crash

(* The runtime heartbeat runs Expire for as long as the process lives; time passes. *)
RecoveryFairness ==
    /\ WF_allvars(ExpireTickets)
    /\ WF_allvars(Deadline)

RecoverySpec     == RecoveryInit /\ [][RecoveryNext]_allvars
FairRecoverySpec == RecoverySpec /\ RecoveryFairness

-----------------------------------------------------------------------------
(* The tables agree as they do without recovery, and every session row has  *)
(* a reason: a guest of the room, or a ticket whose two clients may still    *)
(* resume.  Nothing else ever leaves a row behind, crashes included.         *)
RecoveredTablesAgree ==
    /\ RoutesCurrent(reg)
    /\ GrantsCurrent(reg)
    /\ RoomsHosted(reg)
    /\ KeysOwned(reg)
    /\ \A t, g \in User : reg.ledger[t][g] =
          IF g \in reg.guests[t] \/ Recovering(t, g) THEN t ELSE NoUser

(* A persisted token belongs to a session row and is the one in memory, so a *)
(* restart brings back exactly the tickets that clients can still report.    *)
TokensHaveRows == \A t, g \in User :
    /\ token[t][g] # 0 => reg.ledger[t][g] = t /\ Manages(t, g)
    /\ reg.ledger[t][g] # NoUser /\ Manages(t, g) => token[t][g] = ticket[t][g].tok
    /\ Recovering(t, g) => token[t][g] # 0 /\ <<t, g>> \notin legacy

(* Rooms, session rows, tickets in memory and persisted tokens are one       *)
(* account of the same sessions after every statement and every restart.     *)
RecoveryConsistent == RecoveredTablesAgree /\ TokensHaveRows

(* A session that ended is never brought back by a late report, a ticket left *)
(* in memory or an identity that logs in again: only a join starts one.       *)
NoResurrection ==
    [][\A t, g \in User : reg.ledger[t][g] = NoUser /\ reg'.ledger[t][g] # NoUser =>
          \/ \E c \in Conn : reg.user[c] = g /\ OnJoin(c, t)
          \/ Crash]_allvars

(* A connection is granted a room by its own join, or, for a session that     *)
(* survived, after it reported the session's token and so did a connection    *)
(* that is still logged in as the host.                                       *)
GrantsProved ==
    [][\A t, g \in User :
         LET c == reg'.grant[t][g]
             k == ticket'[t][g]
         IN  c \notin {NoConn, reg.grant[t][g]} =>
                \/ OnJoin(c, t)
                \/ /\ k.tok = token[t][g]
                   /\ k.guest = c
                   /\ k.host \in Live /\ reg.user[k.host] = t]_allvars

(* Every session left by a crash is settled: resumed, rejoined, confirmed or ended. *)
RecoveryEnds == \A t, g \in User :
    Recovering(t, g) \/ <<t, g>> \in legacy ~> ~Recovering(t, g) /\ <<t, g>> \notin legacy
=============================================================================
