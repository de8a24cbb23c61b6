-------------------------- MODULE DeviceCredentials --------------------------
(***************************************************************************)
(* What proves an identity: the password record, the login key and the     *)
(* reconnect token of a device, and the requests that check or change them.*)
(*                                                                         *)
(* A password is hashed on another thread between two jobs of the          *)
(* application worker: the first reads the record, the second, Finish...,  *)
(* acts on the result.  Hashing depends only on what the first job read,   *)
(* so it is part of the second step; whatever happens while it runs happens*)
(* between the two.  Refuse stands for every reason to give up a request   *)
(* that leaves no trace: a wrong password, the failure limiter, a full or  *)
(* overdue credential queue, a rule met by the hashing thread.             *)
(*                                                                         *)
(* A record is its password with a random salt; a salt that no stored      *)
(* record and no request under way mentions may be drawn again.  A token is*)
(* the record under which it was issued; one presented matches or not.     *)
(***************************************************************************)
EXTENDS Naturals, FiniteSets

CONSTANTS
    Device,      \* device ids, present or not
    Conn,        \* connections
    Key,         \* login public keys
    Password,
    Salt,        \* bound on the salts in use at once
    Request,     \* request ids of change_password
    CacheLimit,  \* 4096 in the code
    Source,      \* sources that a rule may block, each as its connections
    NoUser, NoKey, NoRecord

VARIABLES
    phase,      \* a connection: open, closing (cleanup queued), expired (freed), gone
    user,       \* ws_hdl_user_id_list_
    db,         \* devices and device_reconnect_credentials
    challenge,  \* login_challenges_
    work,       \* the credential request of a connection, at most one
    cache,      \* password_change_results_, with the order they were added in
    ruled,      \* auth_source_rules: the connections of the blocked sources
    outcome     \* what the last step decided about a credential, if anything

vars == <<phase, user, db, challenge, work, cache, ruled, outcome>>

Phase == {"open", "closing", "expired", "gone"}

(* The device itself, or the controller identity "C-" of it. *)
Identity == [device : Device, clone : BOOLEAN]
As(d)     == [device |-> d, clone |-> FALSE]
CloneOf(d) == [device |-> d, clone |-> TRUE]

ASSUME CredentialAssumption ==
    /\ CacheLimit \in Nat \ {0}
    /\ Salt # {}
    /\ Source \subseteq (SUBSET Conn) \ {{}}
    /\ \A s, r \in Source : s # r => s \cap r = {}
    /\ NoUser \notin Identity
    /\ NoKey \notin Key
    /\ NoRecord \notin [secret : Password, salt : Salt, current : BOOLEAN]

Record  == [secret : Password, salt : Salt, current : BOOLEAN]
Records == Record \cup {NoRecord}

Database == [record : [Device -> Records],
             key    : [Device -> Key \cup {NoKey}],
             token  : [Device -> Records]]

Idle == [op |-> "none"]
Work ==
    {Idle}
    \cup [op : {"register"}, key : Key \cup {NoKey}]
    \cup [op : {"login", "bind", "join"}, device : Device, secret : Password,
          read : Records, key : Key \cup {NoKey}]
    \cup [op : {"change"}, device : Device, secret : Password,
          read : Records, request : Request]

(* id is NoUser when the client asks for a new device. *)
NoChallenge == [id |-> NoUser, key |-> NoKey]
Challenge   == [id : Identity \cup {NoUser}, key : Key \cup {NoKey}]

Result == [device : Device, request : Request, secret : Password]

(* <<r, s>> in older: r was added before s. *)
Cache     == [results : SUBSET Result, older : SUBSET (Result \X Result)]
NoResults == [results |-> {}, older |-> {}]

Nothing == [op |-> "none"]
Outcome ==
    {Nothing}
    \cup [op : {"login", "bind", "join", "register", "key", "token", "clone"}, conn : Conn,
          device : Device, secret : Password \cup {NoRecord}, key : Key \cup {NoKey}]
    \cup [op : {"change"}, conn : Conn, result : Result, status : {"success", "fail"}]

Live(c) == phase[c] \in {"open", "closing"}

-----------------------------------------------------------------------------
(* The database. *)

Exists(d) == db.record[d] # NoRecord

(* ReadLoginPublicKey: of an existing device; NoKey is the empty column. *)
HasKey(d, k) == Exists(d) /\ db.key[d] = k

(* Mutant: the record is looked up, not compared. *)
CanCommitAny(s, d, expected) == s.record[d] # NoRecord /\ expected # NoRecord

(* CommitPassword: compare-and-set against the record the work was computed from. *)
CanCommit(s, d, expected) == s.record[d] = expected /\ expected # NoRecord

(* Mutant: no trigger on the password. *)
SetRecordKeepToken(s, d, new) == [s EXCEPT !.record[d] = new]

(* The trigger reconnect_credential_password_change. *)
SetRecord(s, d, new) ==
    [s EXCEPT !.record[d] = new,
              !.token[d]  = IF s.record[d] = new THEN @ ELSE NoRecord]

(* Mutant: a later binding replaces the key. *)
CanBindAnyKey(s, d, verified) == s.record[d] = verified

(* BindLoginPublicKey: only a first key, and only with the verified record. *)
CanBindKey(s, d, verified) == s.key[d] = NoKey /\ s.record[d] = verified

(* The trigger reconnect_credential_key_binding. *)
BindLoginPublicKey(s, d, k) == [s EXCEPT !.key[d] = k, !.token[d] = NoRecord]

InsertDevice(s, d, new, k) == [s EXCEPT !.record[d] = new, !.key[d] = k]

(* Deleting a device deletes its token: reconnect_credential_delete. *)
DeleteDevice(s, d) ==
    [s EXCEPT !.record[d] = NoRecord, !.key[d] = NoKey, !.token[d] = NoRecord]

(* IssueReconnectCredential: one per device, the newest. *)
IssueToken(s, d) ==
    IF s.key[d] = NoKey THEN [s EXCEPT !.token[d] = s.record[d]] ELSE s

RevokeToken(s, d) == [s EXCEPT !.token[d] = NoRecord]

-----------------------------------------------------------------------------
(* DevicePassword *)

SaltsIn(set) == {r.salt : r \in set \ {NoRecord}}
ReadBy(c)    == IF work[c].op \in {"login", "bind", "join", "change"} THEN {work[c].read} ELSE {}
SaltsInUse   ==
    SaltsIn({db.record[d] : d \in Device} \cup {db.token[d] : d \in Device}
                \cup UNION {ReadBy(c) : c \in Conn})

HasSalt == SaltsInUse # Salt
Hash(p) == [secret |-> p, salt |-> CHOOSE s \in Salt : s \notin SaltsInUse, current |-> TRUE]

(* Verify: a record of the current format is returned as it is, a legacy one migrated. *)
Matches(record, p) == record # NoRecord /\ record.secret = p
Verified(record)   == IF record.current THEN record ELSE Hash(record.secret)
Verifiable(record) == record.current \/ HasSalt

-----------------------------------------------------------------------------
Init ==
    /\ phase = [c \in Conn |-> "open"]
    /\ user = [c \in Conn |-> NoUser]
    /\ \E old \in [Device -> {NoRecord} \cup
                     [secret : Password, salt : {CHOOSE s \in Salt : TRUE}, current : BOOLEAN]] :
          db = [record |-> old,
                key    |-> [d \in Device |-> NoKey],
                token  |-> [d \in Device |-> NoRecord]]
    /\ challenge = [c \in Conn |-> NoChallenge]
    /\ work = [c \in Conn |-> Idle]
    /\ cache = NoResults
    /\ ruled = {}
    /\ outcome = Nothing

-----------------------------------------------------------------------------
(* Connections: closed by the network thread, released by their cleanup job. *)

Close(c) ==
    /\ phase[c] = "open"
    /\ phase' = [phase EXCEPT ![c] = "closing"]
    /\ outcome' = Nothing
    /\ UNCHANGED <<user, db, challenge, work, cache, ruled>>

Expire(c) ==
    /\ phase[c] = "closing"
    /\ phase' = [phase EXCEPT ![c] = "expired"]
    /\ outcome' = Nothing
    /\ UNCHANGED <<user, db, challenge, work, cache, ruled>>

(* The cleanup job cancels the request; its challenge waits for the next sweep. *)
Cleanup(c) ==
    /\ phase[c] \in {"closing", "expired"}
    /\ phase' = [phase EXCEPT ![c] = "gone"]
    /\ user' = [user EXCEPT ![c] = NoUser]
    /\ work' = [work EXCEPT ![c] = Idle]
    /\ outcome' = Nothing
    /\ UNCHANGED <<db, challenge, cache, ruled>>

-----------------------------------------------------------------------------
(* Requests of a connection are handled one at a time: the next message is   *)
(* deferred until the credential request under way is answered.              *)
Ready(c) == Live(c) /\ work[c] = Idle

Begin(c, w) ==
    /\ work' = [work EXCEPT ![c] = w]
    /\ outcome' = Nothing

(* AuthenticateDevice: a rule in force refuses at once; the record is read before the hash. *)
Authenticate(c, op, d, p, k) ==
    /\ c \notin ruled
    /\ Begin(c, [op |-> op, device |-> d, secret |-> p, read |-> db.record[d], key |-> k])

(* login_user with a password; a device with a key must use it. *)
LoginPassword(c, d, p) ==
    /\ Ready(c) /\ user[c] = NoUser
    /\ db.key[d] = NoKey
    /\ Authenticate(c, "login", d, p, NoKey)
    /\ UNCHANGED <<phase, user, db, challenge, cache, ruled>>

(* login_user with an empty id. *)
LoginNew(c) ==
    /\ Ready(c) /\ user[c] = NoUser
    /\ Begin(c, [op |-> "register", key |-> NoKey])
    /\ UNCHANGED <<phase, user, db, challenge, cache, ruled>>

(* join_transmission and query_user_id_list check the password of another device's room. *)
JoinRoom(c, d, p) ==
    /\ Ready(c) /\ user[c] # NoUser
    /\ Authenticate(c, "join", d, p, NoKey)
    /\ UNCHANGED <<phase, user, db, challenge, cache, ruled>>

-----------------------------------------------------------------------------
(* Mutant: the key is only checked when the login is queued. *)
KeyHeldBefore(s, d, k) == s.record[d] # NoRecord

(* CompleteLogin rechecks the key where the connection is bound: a queued    *)
(* password login must not cross the binding of a key or a deletion.         *)
KeyHolds(s, d, k) == s.record[d] # NoRecord /\ s.key[d] = k

(* A successful login; issue is whether the client asked for a reconnect token. *)
CompleteLogin(s, c, d, op, p, k, issue) ==
    /\ user' = [user EXCEPT ![c] = As(d)]
    /\ db' = IF issue THEN IssueToken(s, d) ELSE s
    /\ outcome' = [op |-> op, conn |-> c, device |-> d, secret |-> p, key |-> k]

(* The controller identity of a device: without a key only while the device has none. *)
ControllerHolds(d, k) ==
    IF k = NoKey THEN db.key[d] = NoKey ELSE KeyHolds(db, d, k)

CompleteController(c, d, k) ==
    /\ ControllerHolds(d, k)
    /\ user' = [user EXCEPT ![c] = CloneOf(d)]
    /\ outcome' = [op |-> "clone", conn |-> c, device |-> d, secret |-> NoRecord, key |-> k]
    /\ UNCHANGED db

(* login_user as "C-" of a device needs no password. *)
LoginController(c, d) ==
    /\ Ready(c) /\ user[c] = NoUser
    /\ CompleteController(c, d, NoKey)
    /\ UNCHANGED <<phase, challenge, work, cache, ruled>>

(* VerifyReconnectCredential answers without hashing and does not rotate the token. *)
LoginToken(c, d) ==
    /\ Ready(c) /\ user[c] = NoUser
    /\ db.token[d] # NoRecord /\ HasKey(d, NoKey)
    /\ KeyHolds(db, d, NoKey)
    /\ CompleteLogin(db, c, d, "token", NoRecord, NoKey, FALSE)
    /\ UNCHANGED <<phase, challenge, work, cache, ruled>>

-----------------------------------------------------------------------------
(* LoginWithKey *)

(* Every issue sweeps the challenges of dead connections and any that are due. *)
IssueChallenge(c, id, k, due) ==
    /\ Ready(c) /\ user[c] = NoUser
    /\ challenge' = [o \in Conn |->
          IF o = c THEN [id |-> id, key |-> k]
          ELSE IF o \in due \/ ~Live(o) THEN NoChallenge ELSE challenge[o]]
    /\ outcome' = Nothing
    /\ UNCHANGED <<phase, user, db, work, cache, ruled>>

(* The challenge is consumed before the answer is verified. *)
TakeChallenge(c) ==
    /\ Ready(c) /\ user[c] = NoUser
    /\ challenge[c] # NoChallenge
    /\ challenge' = [challenge EXCEPT ![c] = NoChallenge]

(* A late or wrong answer, a key other than the bound one, an unknown device. *)
RejectAnswer(c) ==
    /\ TakeChallenge(c)
    /\ outcome' = Nothing
    /\ UNCHANGED <<phase, user, db, work, cache, ruled>>

AnswerNew(c) ==
    /\ TakeChallenge(c)
    /\ challenge[c].id = NoUser
    /\ Begin(c, [op |-> "register", key |-> challenge[c].key])
    /\ UNCHANGED <<phase, user, db, cache, ruled>>

(* A bound key logs in without a password. *)
AnswerBound(c) ==
    /\ TakeChallenge(c)
    /\ challenge[c].id # NoUser
    /\ LET d == challenge[c].id.device  k == challenge[c].key IN
          /\ HasKey(d, k)
          /\ IF challenge[c].id.clone
             THEN CompleteController(c, d, k)
             ELSE KeyHolds(db, d, k) /\ CompleteLogin(db, c, d, "key", NoRecord, k, FALSE)
    /\ UNCHANGED <<phase, work, cache, ruled>>

(* The first binding of a key needs the password, and the device itself. *)
AnswerUnbound(c, p) ==
    /\ TakeChallenge(c)
    /\ challenge[c].id # NoUser /\ ~challenge[c].id.clone
    /\ LET d == challenge[c].id.device IN
          /\ HasKey(d, NoKey)
          /\ Authenticate(c, "bind", d, p, challenge[c].key)
    /\ UNCHANGED <<phase, user, db, cache, ruled>>

-----------------------------------------------------------------------------
(* The second job of a request, after the hash. *)

End(c) == work' = [work EXCEPT ![c] = Idle]

(* Given up without a trace; see the head of the module. *)
Refuse(c) ==
    /\ work[c] # Idle
    /\ End(c)
    /\ outcome' = Nothing
    /\ UNCHANGED <<phase, user, db, challenge, cache, ruled>>

(* The password is right and nothing happened since it was read.  The rules  *)
(* are consulted once more: the administrator may have added one meanwhile.  *)
Passes(c) ==
    LET w == work[c] IN
    /\ w.op \in {"login", "bind", "join"}
    /\ Live(c)
    /\ c \notin ruled
    /\ Matches(w.read, w.secret) /\ Verifiable(w.read)
    /\ CanCommit(db, w.device, w.read)

(* CommitPassword writes a migrated record; one of the current format stays. *)
Committed(c) == SetRecord(db, work[c].device, Verified(work[c].read))

(* BindLoginPublicKey follows it, for the first key. *)
MayBind(c) ==
    LET w == work[c] IN
    w.op = "bind" /\ CanBindKey(Committed(c), w.device, Verified(w.read))
Bound(c) ==
    IF MayBind(c) THEN BindLoginPublicKey(Committed(c), work[c].device, work[c].key)
    ELSE Committed(c)

(* A login ends in CompleteLogin, or fails there or at the binding of its    *)
(* key.  The handle is looked at before the record is committed and locked   *)
(* after it: when the network thread frees it in between, a migrated record  *)
(* or a first key stays, without a login.                                    *)
FinishLogin(c, freed, issue) ==
    LET w == work[c] IN
    /\ w.op \in {"login", "bind"} /\ Passes(c)
    /\ user[c] = NoUser
    /\ IF freed
       THEN /\ phase[c] = "closing"
            /\ phase' = [phase EXCEPT ![c] = "expired"]
            /\ db' = Bound(c)
            /\ outcome' = Nothing
            /\ UNCHANGED user
       ELSE /\ IF (w.op = "bind" => MayBind(c)) /\ KeyHolds(Bound(c), w.device, w.key)
               THEN CompleteLogin(Bound(c), c, w.device, w.op, w.secret, w.key, issue)
               ELSE db' = Bound(c) /\ outcome' = Nothing /\ UNCHANGED user
            /\ UNCHANGED phase
    /\ End(c)
    /\ UNCHANGED <<challenge, cache, ruled>>

FinishJoin(c) ==
    LET w == work[c] IN
    /\ w.op = "join" /\ Passes(c)
    /\ user[c] # NoUser
    /\ db' = Committed(c)
    /\ outcome' = [op |-> "join", conn |-> c, device |-> w.device,
                   secret |-> w.secret, key |-> NoKey]
    /\ End(c)
    /\ UNCHANGED <<phase, user, challenge, cache, ruled>>

(* A generated id and password.  The handle is looked at before the row is   *)
(* written and locked after it: when the network thread frees it in between, *)
(* the row stays behind without a login, until retention.                    *)
FinishRegister(c, d, p, freed, issue) ==
    LET s == InsertDevice(db, d, Hash(p), work[c].key) IN
    /\ work[c].op = "register" /\ Live(c) /\ user[c] = NoUser
    /\ HasSalt /\ ~Exists(d)
    /\ IF freed
       THEN /\ phase[c] = "closing"
            /\ phase' = [phase EXCEPT ![c] = "expired"]
            /\ db' = s
            /\ outcome' = Nothing
            /\ UNCHANGED user
       ELSE /\ CompleteLogin(s, c, d, "register", p, work[c].key, issue)
            /\ UNCHANGED phase
    /\ End(c)
    /\ UNCHANGED <<challenge, cache, ruled>>

-----------------------------------------------------------------------------
(* change_password: idempotent per request id as long as its result is kept. *)

Cached(d, r) == {kept \in cache.results : kept.device = d /\ kept.request = r}

Reply(c, result, status) ==
    outcome' = [op |-> "change", conn |-> c, result |-> result, status |-> status]

(* The same password is answered as the first time, another one is an error. *)
ReplyCached(c, result) ==
    LET kept == CHOOSE kept \in Cached(result.device, result.request) : TRUE IN
    Reply(c, result, IF kept.secret = result.secret THEN "success" ELSE "fail")

ChangePassword(c, r, p) ==
    /\ Ready(c) /\ user[c] # NoUser /\ ~user[c].clone
    /\ LET d == user[c].device IN
       IF Cached(d, r) # {}
       THEN ReplyCached(c, [device |-> d, request |-> r, secret |-> p]) /\ UNCHANGED work
       ELSE Begin(c, [op |-> "change", device |-> d, secret |-> p,
                      read |-> db.record[d], request |-> r])
    /\ UNCHANGED <<phase, user, db, challenge, cache, ruled>>

Without(some, gone) ==
    [results |-> some.results \ gone,
     older   |-> {p \in some.older : p[1] \notin gone /\ p[2] \notin gone}]

Oldest(some) ==
    {r \in some.results : \A o \in some.results \ {r} : <<r, o>> \in some.older}

(* The oldest result is dropped beyond the limit. *)
Keep(result) ==
    LET all == [results |-> cache.results \cup {result},
                older   |-> cache.older \cup (cache.results \X {result})]
    IN  IF Cardinality(all.results) > CacheLimit THEN Without(all, Oldest(all)) ELSE all

(* Mutant: the cache is only consulted before the hash. *)
FinishChangeBlind(c) ==
    LET w == work[c]
        result == [device |-> w.device, request |-> w.request, secret |-> w.secret]
    IN
    /\ w.op = "change" /\ Live(c) /\ user[c] = As(w.device)
    /\ HasSalt
    /\ IF CanCommit(db, w.device, w.read)
       THEN /\ db' = SetRecord(db, w.device, Hash(w.secret))
            /\ cache' = Keep(result)
            /\ Reply(c, result, "success")
       ELSE Reply(c, result, "fail") /\ UNCHANGED <<db, cache>>
    /\ End(c)
    /\ UNCHANGED <<phase, user, challenge, ruled>>

(* Another connection may have finished the same request meanwhile. *)
FinishChange(c) ==
    LET w == work[c]
        result == [device |-> w.device, request |-> w.request, secret |-> w.secret]
    IN
    /\ w.op = "change" /\ Live(c) /\ user[c] = As(w.device)
    /\ HasSalt
    /\ IF Cached(w.device, w.request) # {}
       THEN ReplyCached(c, result) /\ UNCHANGED <<db, cache>>
       ELSE IF CanCommit(db, w.device, w.read)
       THEN /\ db' = SetRecord(db, w.device, Hash(w.secret))
            /\ cache' = Keep(result)
            /\ Reply(c, result, "success")
       ELSE Reply(c, result, "fail") /\ UNCHANGED <<db, cache>>
    /\ End(c)
    /\ UNCHANGED <<phase, user, challenge, ruled>>

RevokeReconnect(c) ==
    /\ Ready(c) /\ user[c] # NoUser /\ ~user[c].clone
    /\ db' = RevokeToken(db, user[c].device)
    /\ outcome' = Nothing
    /\ UNCHANGED <<phase, user, challenge, work, cache, ruled>>

-----------------------------------------------------------------------------
(* The administrator, retention, time and the process. *)

(* A rule for a source is set, deleted or expires. *)
SetRiskRule(source) ==
    /\ ~(source \subseteq ruled)
    /\ ruled' = ruled \cup source
    /\ outcome' = Nothing
    /\ UNCHANGED <<phase, user, db, challenge, work, cache>>

DeleteRiskRule(source) ==
    /\ source \subseteq ruled
    /\ ruled' = ruled \ source
    /\ outcome' = Nothing
    /\ UNCHANGED <<phase, user, db, challenge, work, cache>>

TokenExpires(d) ==
    /\ db.token[d] # NoRecord
    /\ db' = RevokeToken(db, d)
    /\ outcome' = Nothing
    /\ UNCHANGED <<phase, user, challenge, work, cache, ruled>>

(* Removed by retention or by the administrator: only while neither the      *)
(* device nor its controller identity is logged in (see DeviceRetention).    *)
Unused(d) == \A c \in Conn : user[c] \notin {As(d), CloneOf(d)}

(* Mutant: results outlive their device, and answer for the next one of that id. *)
ForgetNothing(d) == UNCHANGED cache

ForgetResults(d) == cache' = Without(cache, {r \in cache.results : r.device = d})

RemoveDevice(d) ==
    /\ Exists(d) /\ Unused(d)
    /\ db' = DeleteDevice(db, d)
    /\ ForgetResults(d)
    /\ outcome' = Nothing
    /\ UNCHANGED <<phase, user, challenge, work, ruled>>

(* The removal of a device's history keeps its credentials. *)
RemoveHistory(d) ==
    /\ Exists(d) /\ Unused(d)
    /\ ForgetResults(d)
    /\ outcome' = Nothing
    /\ UNCHANGED <<phase, user, db, challenge, work, ruled>>

(* What a crash may leave of a request: the statements before it. *)
Torn(c) == IF Passes(c) THEN {Committed(c), Bound(c)} ELSE {}

Crash ==
    /\ phase' = [c \in Conn |-> "open"]
    /\ user' = [c \in Conn |-> NoUser]
    /\ db' \in {db} \cup UNION {Torn(c) : c \in Conn}
    /\ challenge' = [c \in Conn |-> NoChallenge]
    /\ work' = [c \in Conn |-> Idle]
    /\ cache' = NoResults
    /\ outcome' = Nothing
    /\ UNCHANGED ruled

-----------------------------------------------------------------------------
Next ==
    \/ \E c \in Conn :
         \/ Close(c) \/ Expire(c) \/ Cleanup(c) \/ Refuse(c) \/ LoginNew(c)
         \/ RejectAnswer(c) \/ AnswerNew(c) \/ AnswerBound(c)
         \/ FinishJoin(c) \/ FinishChange(c) \/ RevokeReconnect(c)
         \/ \E d \in Device : LoginController(c, d) \/ LoginToken(c, d)
         \/ \E d \in Device, p \in Password : LoginPassword(c, d, p) \/ JoinRoom(c, d, p)
         \/ \E p \in Password : AnswerUnbound(c, p)
         \/ \E id \in Identity \cup {NoUser}, k \in Key,
               due \in SUBSET {o \in Conn \ {c} : Live(o) /\ challenge[o] # NoChallenge} :
              IssueChallenge(c, id, k, due)
         \/ \E freed \in BOOLEAN, issue \in BOOLEAN : FinishLogin(c, freed, issue)
         \/ \E d \in Device, p \in Password, freed \in BOOLEAN, issue \in BOOLEAN :
              FinishRegister(c, d, p, freed, issue)
         \/ \E r \in Request, p \in Password : ChangePassword(c, r, p)
    \/ \E source \in Source : SetRiskRule(source) \/ DeleteRiskRule(source)
    \/ \E d \in Device : TokenExpires(d) \/ RemoveDevice(d) \/ RemoveHistory(d)
    \/ Crash

Spec == Init /\ [][Next]_vars

-----------------------------------------------------------------------------
(* Properties *)

CredentialTypeOK ==
    /\ phase \in [Conn -> Phase]
    /\ user \in [Conn -> Identity \cup {NoUser}]
    /\ db \in Database
    /\ challenge \in [Conn -> Challenge]
    /\ work \in [Conn -> Work]
    /\ cache \in Cache
    /\ ruled \subseteq Conn
    /\ outcome \in Outcome

(* A reconnect token is good only for a device that exists, has no login key *)
(* and still has the password under which the token was issued, across       *)
(* migrations, changes, removals, key bindings and crashes.                  *)
TokensCurrent ==
    \A d \in Device : db.token[d] # NoRecord =>
        db.token[d] = db.record[d] /\ db.key[d] = NoKey

(* Whoever is let in proved, at that moment, what the device then demands:   *)
(* its password, checked against the record in force and from a source that  *)
(* no rule blocks, while it has no key, and otherwise its key.               *)
AccessProved ==
    outcome.op \in {"login", "bind", "join", "register", "key", "token", "clone"} =>
        LET d == outcome.device IN
        /\ outcome.op # "clone" => Exists(d)
        /\ outcome.op # "join" => db.key[d] = outcome.key
        /\ outcome.op \in {"login", "bind", "join"} =>
              db.record[d].secret = outcome.secret /\ outcome.conn \notin ruled

(* A device's password changes only by a change_password of its own, applied *)
(* once per request; its key is never replaced.  No login or migration under *)
(* way brings back an older password, whatever was read before the hash.     *)
CredentialsOwned ==
    [][\A d \in Device : Exists(d) /\ db'.record[d] # NoRecord =>
          /\ db.key[d] # NoKey => db'.key[d] = db.key[d]
          /\ db'.record[d].secret # db.record[d].secret =>
                \E c \in Conn :
                    /\ user[c] = As(d) /\ work[c].op = "change"
                    /\ Cached(d, work[c].request) = {}
                    /\ db.record[d] = work[c].read
                    /\ outcome'.op = "change" /\ outcome'.status = "success"]_vars

(* Every answer to a change_password agrees with the result kept for it: a   *)
(* retry, also one hashed in parallel, hears success exactly if its password *)
(* was the one applied, and is told of no failure after that.  (A retry that *)
(* the queue or a rule refuses is answered before it gets here: see Refuse.) *)
RetriesAgree ==
    outcome.op = "change" =>
        (outcome.status = "success" <=> outcome.result \in cache.results)

(* The credentials as an atomic store; a record is its password. *)
Secrets == [d \in Device |-> IF Exists(d) THEN {db.record[d].secret} ELSE {}]
Tokens  == {d \in Device : db.token[d] # NoRecord}

Store == INSTANCE IdentityStore WITH
    Nobody <- NoUser, NoProof <- NoRecord,
    who <- user, password <- Secrets, key <- db.key, tokens <- Tokens,
    blocked <- ruled, applied <- cache.results, answer <- outcome

(* Every check of a password is one step, although the record is read in one *)
(* job and used in another, with a hash between them in which devices are     *)
(* removed, keys bound, passwords changed or migrated, and the process dies.  *)
StoreKept == Store!Spec
=============================================================================
