----------------------- MODULE DeviceCredentialsProofs -----------------------
(***************************************************************************)
(* Tokens, access, ownership and idempotent changes of DeviceCredentials,  *)
(* proved for any devices, connections, keys, passwords, salts, requests,  *)
(* rules and size of the cache.  Every statement on the database keeps     *)
(* Sound by a lemma of its own; the lemmas about actions compose them.     *)
(* The last part maps every step to IdentityStore.                         *)
(***************************************************************************)
EXTENDS DeviceCredentials, FiniteSetTheorems, TLAPS

-----------------------------------------------------------------------------
(* The inductive invariant. *)

(* A token in the database s is current. *)
Current(s) ==
    \A d \in Device : s.token[d] # NoRecord =>
        s.token[d] = s.record[d] /\ s.key[d] = NoKey

Sound(s) == s \in Database /\ Current(s)

(* One result per request of a device, and the order mentions only results kept. *)
OnePerRequest(some) ==
    /\ some \in Cache
    /\ some.older \subseteq some.results \X some.results
    /\ \A r, o \in some.results :
          r.device = o.device /\ r.request = o.request => r = o

(* Everything but the database, the cache and the outcome is typed. *)
RequestsTypeOK ==
    /\ phase \in [Conn -> Phase]
    /\ user \in [Conn -> Identity \cup {NoUser}]
    /\ challenge \in [Conn -> Challenge]
    /\ work \in [Conn -> Work]
    /\ ruled \subseteq Conn

AnswerOK == outcome \in Outcome /\ AccessProved /\ RetriesAgree

CredInv == RequestsTypeOK /\ Sound(db) /\ OnePerRequest(cache) /\ AnswerOK

(* From s to t no device that stays loses its key or its password. *)
Keeps(s, t) ==
    \A d \in Device : s.record[d] # NoRecord /\ t.record[d] # NoRecord =>
        /\ s.key[d] # NoKey => t.key[d] = s.key[d]
        /\ t.record[d].secret = s.record[d].secret

(* What CredentialsOwned says of one step. *)
Owned ==
    \A d \in Device : Exists(d) /\ db'.record[d] # NoRecord =>
        /\ db.key[d] # NoKey => db'.key[d] = db.key[d]
        /\ db'.record[d].secret # db.record[d].secret =>
              \E c \in Conn :
                  /\ user[c] = As(d) /\ work[c].op = "change"
                  /\ Cached(d, work[c].request) = {}
                  /\ db.record[d] = work[c].read
                  /\ outcome'.op = "change" /\ outcome'.status = "success"

-----------------------------------------------------------------------------
(* Requests and records. *)

(* The fields of a request by its kind. *)
LEMMA WorkFields ==
    ASSUME NEW w \in Work
    PROVE  /\ w.op \in {"none", "register", "login", "bind", "join", "change"}
           /\ w.op = "none" => w = Idle
           /\ w.op = "register" => w.key \in Key \cup {NoKey}
           /\ w.op \in {"login", "bind", "join", "change"} =>
                 w.device \in Device /\ w.secret \in Password /\ w.read \in Records
           /\ w.op \in {"login", "bind", "join"} => w.key \in Key \cup {NoKey}
           /\ w.op = "change" => w.request \in Request
<1>1. CASE w = Idle
    BY <1>1 DEF Idle
<1>2. CASE w \in [op : {"register"}, key : Key \cup {NoKey}]
    BY <1>2
<1>3. CASE w \in [op : {"login", "bind", "join"}, device : Device, secret : Password,
                  read : Records, key : Key \cup {NoKey}]
    BY <1>3
<1>4. CASE w \in [op : {"change"}, device : Device, secret : Password,
                  read : Records, request : Request]
    BY <1>4
<1> QED
    BY <1>1, <1>2, <1>3, <1>4 DEF Work

LEMMA WorkIn ==
    ASSUME NEW d \in Device, NEW p \in Password, NEW r \in Records
    PROVE  /\ Idle \in Work
           /\ \A k \in Key \cup {NoKey} : [op |-> "register", key |-> k] \in Work
           /\ \A op \in {"login", "bind", "join"}, k \in Key \cup {NoKey} :
                 [op |-> op, device |-> d, secret |-> p, read |-> r, key |-> k] \in Work
           /\ \A q \in Request :
                 [op |-> "change", device |-> d, secret |-> p, read |-> r, request |-> q] \in Work
BY DEF Work

(* A drawn salt is one, so that a new record is a record of its password. *)
LEMMA SaltsTyped ==
    ASSUME RequestsTypeOK, db \in Database
    PROVE  SaltsInUse \subseteq Salt
<1>1. \A r \in Records : r # NoRecord => r.salt \in Salt
    BY DEF Records, Record
<1>2. \A d \in Device : db.record[d] \in Records /\ db.token[d] \in Records
    BY DEF Database
<1>3. \A c \in Conn : ReadBy(c) \subseteq Records
    BY WorkFields DEF ReadBy, RequestsTypeOK
<1> DEFINE all == {db.record[d] : d \in Device} \cup {db.token[d] : d \in Device}
                      \cup UNION {ReadBy(c) : c \in Conn}
<1>4. all \subseteq Records
    BY <1>2, <1>3
<1>5. SaltsIn(all) \subseteq Salt
    BY <1>1, <1>4 DEF SaltsIn
<1> QED
    BY <1>5 DEF SaltsInUse

LEMMA HashIn ==
    ASSUME RequestsTypeOK, db \in Database, HasSalt, NEW p \in Password
    PROVE  Hash(p) \in Record /\ Hash(p) # NoRecord /\ Hash(p).secret = p
<1>1. PICK s \in Salt : s \notin SaltsInUse
    BY SaltsTyped DEF HasSalt
<1>2. (CHOOSE x \in Salt : x \notin SaltsInUse) \in Salt
    BY <1>1
<1>3. Hash(p) \in Record
    BY <1>2 DEF Hash, Record
<1>4. Hash(p) # NoRecord
    BY <1>3, CredentialAssumption DEF Record
<1>5. Hash(p).secret = p
    BY DEF Hash
<1> QED
    BY <1>3, <1>4, <1>5

LEMMA VerifiedIn ==
    ASSUME RequestsTypeOK, db \in Database, NEW r \in Records, r # NoRecord, Verifiable(r)
    PROVE  Verified(r) \in Record /\ Verified(r) # NoRecord /\ Verified(r).secret = r.secret
<1>1. r \in Record
    BY DEF Records
<1>2. CASE r.current
    BY <1>1, <1>2 DEF Verified
<1>3. CASE ~r.current
    <2>1. r.secret \in Password
        BY <1>1 DEF Record
    <2> QED
        BY <1>3, <2>1, HashIn DEF Verified, Verifiable
<1> QED
    BY <1>2, <1>3

-----------------------------------------------------------------------------
(* The database statements. *)

LEMMA SetRecordSound ==
    ASSUME NEW s, Sound(s), NEW d \in Device, NEW r \in Record
    PROVE  /\ Sound(SetRecord(s, d, r))
           /\ SetRecord(s, d, r).key = s.key
           /\ SetRecord(s, d, r).record = [s.record EXCEPT ![d] = r]
<1> DEFINE x == IF s.record[d] = r THEN s.token[d] ELSE NoRecord
           t == SetRecord(s, d, r)
<1>1. s \in Database /\ Current(s)
    BY DEF Sound
<1>2. x \in Records /\ r \in Records
    BY <1>1 DEF Database, Records
<1>3. t = [s EXCEPT !.record[d] = r, !.token[d] = x]
    BY DEF SetRecord
<1>4. x \in {s.token[d], NoRecord}
    OBVIOUS
<1> HIDE DEF x, t
<1>5. /\ t.record = [s.record EXCEPT ![d] = r]
      /\ t.token = [s.token EXCEPT ![d] = x]
      /\ t.key = s.key
      /\ t \in Database
    BY <1>1, <1>2, <1>3 DEF Database
<1>6. Current(t)
    <2>1. s.record[d] = r \/ x = NoRecord
        BY DEF x
    <2> QED
        BY <1>1, <1>5, <1>4, <2>1 DEF Current, Database
<1> QED
    BY <1>5, <1>6 DEF Sound, t

LEMMA BindSound ==
    ASSUME NEW s, Sound(s), NEW d \in Device, NEW k \in Key \cup {NoKey}
    PROVE  /\ Sound(BindLoginPublicKey(s, d, k))
           /\ BindLoginPublicKey(s, d, k).key = [s.key EXCEPT ![d] = k]
           /\ BindLoginPublicKey(s, d, k).record = s.record
<1> DEFINE t == BindLoginPublicKey(s, d, k)
<1>1. s \in Database /\ Current(s) /\ NoRecord \in Records
    BY DEF Sound, Records
<1>2. /\ t.record = s.record
      /\ t.token = [s.token EXCEPT ![d] = NoRecord]
      /\ t.key = [s.key EXCEPT ![d] = k]
      /\ t \in Database
    BY <1>1 DEF Database, BindLoginPublicKey
<1>3. Current(t)
    BY <1>1, <1>2 DEF Current, Database
<1> QED
    BY <1>2, <1>3 DEF Sound

(* A new row: the device had none, so that it had no token either. *)
LEMMA InsertSound ==
    ASSUME NEW s, Sound(s), NEW d \in Device, NEW r \in Record, NEW k \in Key \cup {NoKey},
           s.record[d] = NoRecord
    PROVE  /\ Sound(InsertDevice(s, d, r, k))
           /\ InsertDevice(s, d, r, k).key = [s.key EXCEPT ![d] = k]
           /\ InsertDevice(s, d, r, k).record = [s.record EXCEPT ![d] = r]
<1> DEFINE t == InsertDevice(s, d, r, k)
<1>1. s \in Database /\ Current(s) /\ r \in Records
    BY DEF Sound, Records
<1>2. /\ t.record = [s.record EXCEPT ![d] = r]
      /\ t.token = s.token
      /\ t.key = [s.key EXCEPT ![d] = k]
      /\ t \in Database
    BY <1>1 DEF Database, InsertDevice
<1>3. s.token[d] = NoRecord
    BY <1>1 DEF Current
<1>4. Current(t)
    BY <1>1, <1>2, <1>3 DEF Current, Database
<1> QED
    BY <1>2, <1>4 DEF Sound

LEMMA DeleteSound ==
    ASSUME NEW s, Sound(s), NEW d \in Device
    PROVE  Sound(DeleteDevice(s, d)) /\ Keeps(s, DeleteDevice(s, d))
<1> DEFINE t == DeleteDevice(s, d)
<1>1. s \in Database /\ Current(s) /\ NoRecord \in Records
    BY DEF Sound, Records
<1>2. /\ t.record = [s.record EXCEPT ![d] = NoRecord]
      /\ t.token = [s.token EXCEPT ![d] = NoRecord]
      /\ t.key = [s.key EXCEPT ![d] = NoKey]
      /\ t \in Database
    BY <1>1 DEF Database, DeleteDevice
<1>3. Current(t)
    BY <1>1, <1>2 DEF Current, Database
<1>4. Keeps(s, t)
    BY <1>1, <1>2 DEF Keeps, Database
<1> QED
    BY <1>2, <1>3, <1>4 DEF Sound

(* Tokens touch neither records nor keys. *)
LEMMA IssueSound ==
    ASSUME NEW s, Sound(s), NEW d \in Device
    PROVE  /\ Sound(IssueToken(s, d))
           /\ IssueToken(s, d).key = s.key /\ IssueToken(s, d).record = s.record
<1> DEFINE t == [s EXCEPT !.token[d] = s.record[d]]
<1>1. s \in Database /\ Current(s)
    BY DEF Sound
<1>2. CASE s.key[d] # NoKey
    BY <1>2 DEF IssueToken
<1>3. CASE s.key[d] = NoKey
    <2>1. /\ t.record = s.record /\ t.key = s.key
          /\ t.token = [s.token EXCEPT ![d] = s.record[d]]
          /\ t \in Database
        BY <1>1 DEF Database
    <2>2. Current(t)
        BY <1>1, <1>3, <2>1 DEF Current, Database
    <2> QED
        BY <1>3, <2>1, <2>2 DEF IssueToken, Sound
<1> QED
    BY <1>2, <1>3

LEMMA RevokeSound ==
    ASSUME NEW s, Sound(s), NEW d \in Device
    PROVE  Sound(RevokeToken(s, d)) /\ Keeps(s, RevokeToken(s, d))
<1> DEFINE t == RevokeToken(s, d)
<1>1. s \in Database /\ Current(s) /\ NoRecord \in Records
    BY DEF Sound, Records
<1>2. /\ t.record = s.record /\ t.key = s.key
      /\ t.token = [s.token EXCEPT ![d] = NoRecord]
      /\ t \in Database
    BY <1>1 DEF Database, RevokeToken
<1>3. Current(t)
    BY <1>1, <1>2 DEF Current, Database
<1> QED
    BY <1>2, <1>3 DEF Sound, Keeps

(* What a checked password commits: the record that was read, or its         *)
(* migration, of the same password, and a key only where there was none.     *)
LEMMA PassesSound ==
    ASSUME RequestsTypeOK, Sound(db), NEW c \in Conn, Passes(c)
    PROVE  /\ work[c].device \in Device
           /\ Sound(Committed(c)) /\ Keeps(db, Committed(c))
           /\ Sound(Bound(c)) /\ Keeps(db, Bound(c))
           /\ Committed(c).record = Bound(c).record
           /\ Bound(c).record[work[c].device] # NoRecord
           /\ Bound(c).record[work[c].device].secret = work[c].secret
<1> DEFINE w == work[c]  d == work[c].device  v == Verified(work[c].read)
<1>1. /\ w \in Work
      /\ w.op \in {"login", "bind", "join"}
      /\ w.read # NoRecord /\ w.read.secret = w.secret
      /\ Verifiable(w.read) /\ db.record[d] = w.read
      /\ db \in Database
    BY DEF Passes, Matches, CanCommit, RequestsTypeOK, Sound
<1>2. d \in Device /\ w.read \in Records /\ w.key \in Key \cup {NoKey}
    BY <1>1, WorkFields
<1>3. v \in Record /\ v # NoRecord /\ v.secret = w.secret
    BY <1>1, <1>2, VerifiedIn
<1>4. /\ Sound(Committed(c))
      /\ Committed(c).key = db.key
      /\ Committed(c).record = [db.record EXCEPT ![d] = v]
    BY <1>2, <1>3, SetRecordSound DEF Committed
<1>5. Keeps(db, Committed(c))
    BY <1>1, <1>2, <1>3, <1>4 DEF Keeps, Database
<1>6. /\ Sound(Bound(c)) /\ Keeps(db, Bound(c))
      /\ Committed(c).record = Bound(c).record
    <2>1. CASE ~MayBind(c)
        BY <1>4, <1>5, <2>1 DEF Bound
    <2>2. CASE MayBind(c)
        <3>1. Committed(c).key[d] = NoKey
            BY <2>2 DEF MayBind, CanBindKey
        <3>2. /\ Sound(Bound(c))
              /\ Bound(c).key = [db.key EXCEPT ![d] = w.key]
              /\ Bound(c).record = Committed(c).record
            BY <1>2, <1>4, <2>2, BindSound DEF Bound
        <3>3. db.key[d] = NoKey
            BY <1>4, <3>1
        <3>4. Keeps(db, Bound(c))
            BY <1>1, <1>5, <3>2, <3>3 DEF Keeps, Database
        <3> QED
            BY <3>2, <3>4
    <2> QED
        BY <2>1, <2>2
<1> QED
    BY <1>1, <1>2, <1>3, <1>4, <1>5, <1>6 DEF Database

-----------------------------------------------------------------------------
(* Steps. *)

(* What every step has to show: CredInv again, and Owned. *)
Step == CredInv' /\ Owned

LEMMA KeepsReflexive == \A s : Keeps(s, s)
BY DEF Keeps

LEMMA KeepsOwned ==
    ASSUME Keeps(db, db')
    PROVE  Owned
BY DEF Keeps, Owned, Exists

(* A step that decides nothing. *)
LEMMA Silent ==
    ASSUME RequestsTypeOK', Sound(db'), Keeps(db, db'), OnePerRequest(cache'), outcome' = Nothing
    PROVE  Step
<1>1. outcome' \in Outcome /\ AccessProved' /\ RetriesAgree'
    BY DEF Outcome, Nothing, AccessProved, RetriesAgree
<1> QED
    BY <1>1, KeepsOwned DEF Step, CredInv, AnswerOK

(* A step that touches no credential and decides nothing. *)
LEMMA Idles ==
    ASSUME CredInv, RequestsTypeOK', UNCHANGED <<db, cache>>, outcome' = Nothing
    PROVE  Step
<1>1. Sound(db') /\ OnePerRequest(cache')
    BY DEF CredInv, OnePerRequest
<1> QED
    BY <1>1, Silent, KeepsReflexive

(* A step that lets someone in with what the device demands. *)
LEMMA Admits ==
    ASSUME CredInv, RequestsTypeOK', Sound(db'), Keeps(db, db'), UNCHANGED cache,
           NEW op \in {"login", "bind", "join", "register", "key", "token", "clone"},
           NEW c \in Conn, NEW d \in Device, NEW p \in Password \cup {NoRecord},
           NEW k \in Key \cup {NoKey},
           outcome' = [op |-> op, conn |-> c, device |-> d, secret |-> p, key |-> k],
           op # "clone" => db'.record[d] # NoRecord,
           op # "join" => db'.key[d] = k,
           op \in {"login", "bind", "join"} => db'.record[d].secret = p /\ c \notin ruled'
    PROVE  Step
<1>1. outcome' \in Outcome
    BY DEF Outcome
<1>2. AccessProved'
    BY DEF AccessProved, Exists
<1>3. RetriesAgree'
    BY DEF RetriesAgree
<1>4. OnePerRequest(cache')
    BY DEF CredInv, OnePerRequest
<1> QED
    BY <1>1, <1>2, <1>3, <1>4, KeepsOwned DEF Step, CredInv, AnswerOK

(* Work handed out or ended keeps the types of the requests. *)
LEMMA WorkKeeps ==
    ASSUME CredInv, NEW c \in Conn, NEW w \in Work, work' = [work EXCEPT ![c] = w],
           phase' \in [Conn -> Phase], user' \in [Conn -> Identity \cup {NoUser}],
           challenge' \in [Conn -> Challenge], ruled' = ruled
    PROVE  RequestsTypeOK'
BY DEF CredInv, RequestsTypeOK

LEMMA EndKeeps ==
    ASSUME CredInv, NEW c \in Conn, End(c),
           phase' \in [Conn -> Phase], user' \in [Conn -> Identity \cup {NoUser}],
           challenge' \in [Conn -> Challenge], ruled' = ruled
    PROVE  RequestsTypeOK'
BY WorkKeeps, Idle \in Work DEF End, Work

(* The identity a login binds. *)
LEMMA UserKeeps ==
    ASSUME CredInv, NEW c \in Conn, NEW d \in Device,
           user' \in {[user EXCEPT ![c] = As(d)], [user EXCEPT ![c] = CloneOf(d)],
                      [user EXCEPT ![c] = NoUser], user}
    PROVE  user' \in [Conn -> Identity \cup {NoUser}]
<1>1. {As(d), CloneOf(d), NoUser} \subseteq Identity \cup {NoUser}
    BY DEF As, CloneOf, Identity
<1> QED
    BY <1>1 DEF CredInv, RequestsTypeOK

-----------------------------------------------------------------------------
(* Connections. *)

LEMMA CloseStep == ASSUME CredInv, NEW c \in Conn, Close(c) PROVE Step
<1>1. RequestsTypeOK'
    BY DEF Close, CredInv, RequestsTypeOK, Phase
<1> QED
    BY <1>1, Idles DEF Close

LEMMA ExpireStep == ASSUME CredInv, NEW c \in Conn, Expire(c) PROVE Step
<1>1. RequestsTypeOK'
    BY DEF Expire, CredInv, RequestsTypeOK, Phase
<1> QED
    BY <1>1, Idles DEF Expire

LEMMA CleanupStep == ASSUME CredInv, NEW c \in Conn, Cleanup(c) PROVE Step
<1>1. RequestsTypeOK'
    BY DEF Cleanup, CredInv, RequestsTypeOK, Phase, Work
<1> QED
    BY <1>1, Idles DEF Cleanup

LEMMA RefuseStep == ASSUME CredInv, NEW c \in Conn, Refuse(c) PROVE Step
<1>1. RequestsTypeOK'
    BY EndKeeps DEF Refuse, CredInv, RequestsTypeOK
<1> QED
    BY <1>1, Idles DEF Refuse

-----------------------------------------------------------------------------
(* The first jobs. *)

LEMMA AuthenticateKeeps ==
    ASSUME CredInv, NEW c \in Conn, NEW op \in {"login", "bind", "join"}, NEW d \in Device,
           NEW p \in Password, NEW k \in Key \cup {NoKey}, Authenticate(c, op, d, p, k),
           challenge' \in [Conn -> Challenge], UNCHANGED <<phase, user, ruled>>
    PROVE  RequestsTypeOK' /\ outcome' = Nothing
<1>1. db.record[d] \in Records
    BY DEF CredInv, Sound, Database
<1>2. [op |-> op, device |-> d, secret |-> p, read |-> db.record[d], key |-> k] \in Work
    BY <1>1, WorkIn
<1>3. phase' \in [Conn -> Phase] /\ user' \in [Conn -> Identity \cup {NoUser}]
    BY DEF CredInv, RequestsTypeOK
<1> QED
    BY <1>2, <1>3, WorkKeeps DEF Authenticate, Begin

LEMMA LoginPasswordStep ==
    ASSUME CredInv, NEW c \in Conn, NEW d \in Device, NEW p \in Password, LoginPassword(c, d, p)
    PROVE  Step
<1>1. RequestsTypeOK' /\ outcome' = Nothing
    BY AuthenticateKeeps DEF LoginPassword, CredInv, RequestsTypeOK
<1> QED
    BY <1>1, Idles DEF LoginPassword

LEMMA JoinRoomStep ==
    ASSUME CredInv, NEW c \in Conn, NEW d \in Device, NEW p \in Password, JoinRoom(c, d, p)
    PROVE  Step
<1>1. RequestsTypeOK' /\ outcome' = Nothing
    BY AuthenticateKeeps DEF JoinRoom, CredInv, RequestsTypeOK
<1> QED
    BY <1>1, Idles DEF JoinRoom

LEMMA LoginNewStep == ASSUME CredInv, NEW c \in Conn, LoginNew(c) PROVE Step
<1>1. [op |-> "register", key |-> NoKey] \in Work
    BY DEF Work
<1>2. RequestsTypeOK' /\ outcome' = Nothing
    BY <1>1, WorkKeeps DEF LoginNew, Begin, CredInv, RequestsTypeOK
<1> QED
    BY <1>2, Idles DEF LoginNew

(* A fresh challenge, and the ones that the same step forgets. *)
LEMMA IssueChallengeStep ==
    ASSUME CredInv, NEW c \in Conn, NEW id \in Identity \cup {NoUser}, NEW k \in Key,
           NEW due \in SUBSET Conn, IssueChallenge(c, id, k, due)
    PROVE  Step
<1>1. [id |-> id, key |-> k] \in Challenge /\ NoChallenge \in Challenge
    BY DEF Challenge, NoChallenge
<1>2. challenge \in [Conn -> Challenge]
    BY DEF CredInv, RequestsTypeOK
<1>3. challenge' \in [Conn -> Challenge]
    BY <1>1, <1>2 DEF IssueChallenge
<1>4. RequestsTypeOK'
    BY <1>3 DEF IssueChallenge, CredInv, RequestsTypeOK
<1> QED
    BY <1>4, Idles DEF IssueChallenge

LEMMA TakeKeeps ==
    ASSUME CredInv, NEW c \in Conn, TakeChallenge(c)
    PROVE  /\ challenge' \in [Conn -> Challenge]
           /\ challenge[c].id \in Identity \cup {NoUser}
           /\ challenge[c].key \in Key \cup {NoKey}
<1>1. NoChallenge \in Challenge
    BY DEF Challenge, NoChallenge
<1> QED
    BY <1>1 DEF TakeChallenge, CredInv, RequestsTypeOK, Challenge

LEMMA RejectAnswerStep == ASSUME CredInv, NEW c \in Conn, RejectAnswer(c) PROVE Step
<1>1. RequestsTypeOK'
    BY TakeKeeps DEF RejectAnswer, CredInv, RequestsTypeOK
<1> QED
    BY <1>1, Idles DEF RejectAnswer

LEMMA AnswerNewStep == ASSUME CredInv, NEW c \in Conn, AnswerNew(c) PROVE Step
<1>1. challenge' \in [Conn -> Challenge] /\ challenge[c].key \in Key \cup {NoKey}
    BY TakeKeeps DEF AnswerNew
<1>2. [op |-> "register", key |-> challenge[c].key] \in Work
    BY <1>1 DEF Work
<1>3. RequestsTypeOK' /\ outcome' = Nothing
    BY <1>1, <1>2, WorkKeeps DEF AnswerNew, Begin, CredInv, RequestsTypeOK
<1> QED
    BY <1>3, Idles DEF AnswerNew

LEMMA AnswerUnboundStep ==
    ASSUME CredInv, NEW c \in Conn, NEW p \in Password, AnswerUnbound(c, p)
    PROVE  Step
<1>1. /\ challenge' \in [Conn -> Challenge]
      /\ challenge[c].key \in Key \cup {NoKey}
      /\ challenge[c].id \in Identity
    BY TakeKeeps DEF AnswerUnbound
<1>2. challenge[c].id.device \in Device
    BY <1>1 DEF Identity
<1>3. RequestsTypeOK' /\ outcome' = Nothing
    BY <1>1, <1>2, AuthenticateKeeps DEF AnswerUnbound
<1> QED
    BY <1>3, Idles DEF AnswerUnbound

(* A controller identity shows the device's key, or the device has none. *)
LEMMA ControllerStep ==
    ASSUME CredInv, RequestsTypeOK', UNCHANGED cache,
           NEW c \in Conn, NEW d \in Device, NEW k \in Key \cup {NoKey},
           CompleteController(c, d, k)
    PROVE  Step
<1>1. db.key[d] = k
    BY DEF CompleteController, ControllerHolds, KeyHolds
<1>2. /\ db' = db
      /\ outcome' = [op |-> "clone", conn |-> c, device |-> d, secret |-> NoRecord, key |-> k]
    BY DEF CompleteController
<1>3. Sound(db') /\ Keeps(db, db')
    BY <1>2, KeepsReflexive DEF CredInv
<1> QED
    BY <1>1, <1>2, <1>3, Admits

LEMMA LoginControllerStep ==
    ASSUME CredInv, NEW c \in Conn, NEW d \in Device, LoginController(c, d)
    PROVE  Step
<1>1. CompleteController(c, d, NoKey)
    BY DEF LoginController
<1>2. user' \in [Conn -> Identity \cup {NoUser}]
    BY <1>1, UserKeeps DEF CompleteController
<1>3. RequestsTypeOK'
    BY <1>2 DEF LoginController, CredInv, RequestsTypeOK
<1> QED
    BY <1>1, <1>3, ControllerStep DEF LoginController

(* A reconnect token or a bound key, with nothing to hash. *)
LEMMA LoginTokenStep ==
    ASSUME CredInv, NEW c \in Conn, NEW d \in Device, LoginToken(c, d)
    PROVE  Step
<1>1. KeyHolds(db, d, NoKey) /\ CompleteLogin(db, c, d, "token", NoRecord, NoKey, FALSE)
    BY DEF LoginToken
<1>2. /\ db' = db
      /\ outcome' = [op |-> "token", conn |-> c, device |-> d, secret |-> NoRecord, key |-> NoKey]
      /\ user' = [user EXCEPT ![c] = As(d)]
    BY <1>1 DEF CompleteLogin
<1>3. RequestsTypeOK'
    BY <1>2, UserKeeps DEF LoginToken, CredInv, RequestsTypeOK
<1>4. Sound(db') /\ Keeps(db, db')
    BY <1>2, KeepsReflexive DEF CredInv
<1>5. db'.record[d] # NoRecord /\ db'.key[d] = NoKey
    BY <1>1, <1>2 DEF KeyHolds
<1> QED
    BY <1>2, <1>3, <1>4, <1>5, Admits DEF LoginToken

LEMMA AnswerBoundStep == ASSUME CredInv, NEW c \in Conn, AnswerBound(c) PROVE Step
<1> DEFINE d == challenge[c].id.device  k == challenge[c].key
<1>1. /\ challenge' \in [Conn -> Challenge]
      /\ k \in Key \cup {NoKey}
      /\ challenge[c].id \in Identity
    BY TakeKeeps DEF AnswerBound
<1>2. d \in Device
    BY <1>1 DEF Identity
<1>3. CASE challenge[c].id.clone
    <2>1. CompleteController(c, d, k)
        BY <1>3 DEF AnswerBound
    <2>2. user' \in [Conn -> Identity \cup {NoUser}]
        BY <1>2, <2>1, UserKeeps DEF CompleteController
    <2>3. RequestsTypeOK'
        BY <1>1, <2>2 DEF AnswerBound, CredInv, RequestsTypeOK
    <2> QED
        BY <1>1, <1>2, <2>1, <2>3, ControllerStep DEF AnswerBound
<1>4. CASE ~challenge[c].id.clone
    <2>1. KeyHolds(db, d, k) /\ CompleteLogin(db, c, d, "key", NoRecord, k, FALSE)
        BY <1>4 DEF AnswerBound
    <2>2. /\ db' = db
          /\ outcome' = [op |-> "key", conn |-> c, device |-> d, secret |-> NoRecord, key |-> k]
          /\ user' = [user EXCEPT ![c] = As(d)]
        BY <2>1 DEF CompleteLogin
    <2>3. RequestsTypeOK'
        BY <1>1, <1>2, <2>2, UserKeeps DEF AnswerBound, CredInv, RequestsTypeOK
    <2>4. Sound(db') /\ Keeps(db, db')
        BY <2>2, KeepsReflexive DEF CredInv
    <2>5. db'.record[d] # NoRecord /\ db'.key[d] = k
        BY <2>1, <2>2 DEF KeyHolds
    <2> QED
        BY <1>1, <1>2, <2>2, <2>3, <2>4, <2>5, Admits DEF AnswerBound
<1> QED
    BY <1>3, <1>4

-----------------------------------------------------------------------------
(* The second jobs. *)

LEMMA FinishJoinStep == ASSUME CredInv, NEW c \in Conn, FinishJoin(c) PROVE Step
<1> DEFINE w == work[c]
<1>1. /\ w.op = "join" /\ Passes(c) /\ End(c) /\ db' = Committed(c)
      /\ outcome' = [op |-> "join", conn |-> c, device |-> w.device,
                      secret |-> w.secret, key |-> NoKey]
      /\ UNCHANGED <<phase, user, challenge, cache, ruled>>
    BY DEF FinishJoin
<1>2. w \in Work /\ RequestsTypeOK /\ Sound(db)
    BY DEF CredInv, RequestsTypeOK
<1>3. /\ w.device \in Device /\ w.secret \in Password
      /\ Sound(db') /\ Keeps(db, db')
      /\ db'.record[w.device] # NoRecord /\ db'.record[w.device].secret = w.secret
    BY <1>1, <1>2, PassesSound, WorkFields
<1>4. RequestsTypeOK'
    BY <1>1, <1>2, EndKeeps DEF RequestsTypeOK
<1>5. c \notin ruled'
    BY <1>1 DEF Passes
<1> QED
    BY <1>1, <1>3, <1>4, <1>5, Admits

LEMMA FinishLoginStep ==
    ASSUME CredInv, NEW c \in Conn, NEW freed \in BOOLEAN, NEW issue \in BOOLEAN,
           FinishLogin(c, freed, issue)
    PROVE  Step
<1> DEFINE w == work[c]  d == work[c].device  b == Bound(c)
<1>1. /\ w.op \in {"login", "bind"} /\ Passes(c) /\ End(c)
      /\ UNCHANGED <<challenge, cache, ruled>>
    BY DEF FinishLogin
<1>2. w \in Work /\ RequestsTypeOK /\ Sound(db)
    BY DEF CredInv, RequestsTypeOK
<1>3. d \in Device /\ w.secret \in Password /\ w.key \in Key \cup {NoKey}
    BY <1>1, <1>2, WorkFields
<1>4. /\ Sound(b) /\ Keeps(db, b)
      /\ b.record[d] # NoRecord /\ b.record[d].secret = w.secret
    BY <1>1, <1>2, PassesSound
<1>5. CASE ~freed /\ (w.op = "bind" => MayBind(c)) /\ KeyHolds(b, d, w.key)
    <2>1. CompleteLogin(b, c, d, w.op, w.secret, w.key, issue) /\ UNCHANGED phase
        BY <1>5 DEF FinishLogin
    <2>2. /\ db' = IF issue THEN IssueToken(b, d) ELSE b
          /\ outcome' = [op |-> w.op, conn |-> c, device |-> d, secret |-> w.secret, key |-> w.key]
          /\ user' = [user EXCEPT ![c] = As(d)]
        BY <2>1 DEF CompleteLogin
    <2>3. Sound(db') /\ db'.record = b.record /\ db'.key = b.key
        BY <1>3, <1>4, <2>2, IssueSound
    <2>4. Keeps(db, db')
        BY <1>4, <2>3 DEF Keeps
    <2>5. RequestsTypeOK'
        BY <1>1, <1>2, <1>3, <2>1, <2>2, EndKeeps, UserKeeps DEF RequestsTypeOK
    <2>6. /\ db'.record[d] # NoRecord /\ db'.key[d] = w.key
          /\ db'.record[d].secret = w.secret /\ c \notin ruled'
        BY <1>1, <1>4, <1>5, <2>3 DEF KeyHolds, Passes
    <2> QED
        BY <1>1, <1>3, <2>2, <2>3, <2>4, <2>5, <2>6, Admits
<1>6. CASE freed \/ ~((w.op = "bind" => MayBind(c)) /\ KeyHolds(b, d, w.key))
    <2>1. /\ db' = b /\ outcome' = Nothing /\ UNCHANGED user
          /\ UNCHANGED phase \/ phase' = [phase EXCEPT ![c] = "expired"]
        BY <1>6 DEF FinishLogin
    <2>4. phase' \in [Conn -> Phase]
        BY <1>2, <2>1 DEF RequestsTypeOK, Phase
    <2>2. RequestsTypeOK'
        BY <1>1, <1>2, <2>1, <2>4, EndKeeps DEF RequestsTypeOK
    <2>3. OnePerRequest(cache')
        BY <1>1 DEF CredInv
    <2> QED
        BY <1>4, <2>1, <2>2, <2>3, Silent
<1> QED
    BY <1>5, <1>6

LEMMA FinishRegisterStep ==
    ASSUME CredInv, NEW c \in Conn, NEW d \in Device, NEW p \in Password,
           NEW freed \in BOOLEAN, NEW issue \in BOOLEAN, FinishRegister(c, d, p, freed, issue)
    PROVE  Step
<1> DEFINE w == work[c]  s == InsertDevice(db, d, Hash(p), work[c].key)
<1>1. /\ w.op = "register" /\ HasSalt /\ db.record[d] = NoRecord /\ End(c)
      /\ UNCHANGED <<challenge, cache, ruled>>
    BY DEF FinishRegister, Exists
<1>2. w \in Work /\ RequestsTypeOK /\ Sound(db) /\ db \in Database
    BY DEF CredInv, RequestsTypeOK, Sound
<1>3. w.key \in Key \cup {NoKey}
    BY <1>1, <1>2, WorkFields
<1>4. Hash(p) \in Record /\ Hash(p) # NoRecord
    BY <1>1, <1>2, HashIn
<1>5. /\ Sound(s)
      /\ s.key = [db.key EXCEPT ![d] = w.key]
      /\ s.record = [db.record EXCEPT ![d] = Hash(p)]
    BY <1>1, <1>2, <1>3, <1>4, InsertSound
<1> HIDE DEF s
<1>6. Keeps(db, s) /\ s.record[d] # NoRecord /\ s.key[d] = w.key
    BY <1>1, <1>2, <1>4, <1>5 DEF Keeps, Database
<1>7. CASE freed
    <2>1. /\ phase' = [phase EXCEPT ![c] = "expired"]
          /\ db' = s /\ outcome' = Nothing /\ UNCHANGED user
        BY <1>7 DEF FinishRegister, s
    <2>2. phase' \in [Conn -> Phase]
        BY <1>2, <2>1 DEF RequestsTypeOK, Phase
    <2>3. RequestsTypeOK'
        BY <1>1, <1>2, <2>1, <2>2, EndKeeps DEF RequestsTypeOK
    <2>4. OnePerRequest(cache')
        BY <1>1 DEF CredInv
    <2> QED
        BY <1>5, <1>6, <2>1, <2>3, <2>4, Silent
<1>8. CASE ~freed
    <2>1. CompleteLogin(s, c, d, "register", p, w.key, issue) /\ UNCHANGED phase
        BY <1>8 DEF FinishRegister, s
    <2>2. /\ db' = IF issue THEN IssueToken(s, d) ELSE s
          /\ outcome' = [op |-> "register", conn |-> c, device |-> d, secret |-> p, key |-> w.key]
          /\ user' = [user EXCEPT ![c] = As(d)]
        BY <2>1 DEF CompleteLogin
    <2>3. Sound(db') /\ db'.record = s.record /\ db'.key = s.key
        BY <1>5, <2>2, IssueSound
    <2>4. Keeps(db, db')
        BY <1>6, <2>3 DEF Keeps
    <2>5. RequestsTypeOK'
        BY <1>1, <1>2, <2>1, <2>2, EndKeeps, UserKeeps DEF RequestsTypeOK
    <2>6. db'.record[d] # NoRecord /\ db'.key[d] = w.key
        BY <1>6, <2>3
    <2> QED
        BY <1>1, <1>3, <2>2, <2>3, <2>4, <2>5, <2>6, Admits
<1> QED
    BY <1>7, <1>8

-----------------------------------------------------------------------------
(* change_password *)

(* The cache answers for its own result: success exactly to the password kept. *)
LEMMA ReplyCachedKeeps ==
    ASSUME OnePerRequest(cache), NEW c \in Conn, NEW result \in Result,
           Cached(result.device, result.request) # {}, ReplyCached(c, result), UNCHANGED cache
    PROVE  AnswerOK'
<1> DEFINE kept == CHOOSE o \in Cached(result.device, result.request) : TRUE
           status == IF kept.secret = result.secret THEN "success" ELSE "fail"
<1>1. /\ kept \in cache.results
      /\ kept.device = result.device /\ kept.request = result.request
    BY DEF Cached
<1>2. outcome' = [op |-> "change", conn |-> c, result |-> result, status |-> status]
    BY DEF ReplyCached, Reply
<1>3. kept \in Result
    BY <1>1 DEF OnePerRequest, Cache
<1> HIDE DEF kept
<1>4. kept.secret = result.secret => kept = result
    BY <1>1, <1>3 DEF Result
<1>5. result \in cache.results => kept = result
    BY <1>1 DEF OnePerRequest
<1>6. status = "success" <=> result \in cache.results
    BY <1>1, <1>4, <1>5
<1>7. outcome' \in Outcome
    BY <1>2 DEF Outcome
<1>8. AccessProved'
    BY <1>2 DEF AccessProved
<1>9. RetriesAgree'
    BY <1>2, <1>6 DEF RetriesAgree
<1> QED
    BY <1>7, <1>8, <1>9 DEF AnswerOK

(* The newest result stays: the limit is at least one, and it is the oldest  *)
(* only when it is alone.                                                    *)
LEMMA KeepKeeps ==
    ASSUME OnePerRequest(cache), NEW result \in Result,
           Cached(result.device, result.request) = {}
    PROVE  OnePerRequest(Keep(result)) /\ result \in Keep(result).results
<1> DEFINE all == [results |-> cache.results \cup {result},
                   older   |-> cache.older \cup (cache.results \X {result})]
<1>1. result \notin cache.results
    BY DEF Cached
<1>2. /\ cache.results \subseteq Result
      /\ cache.older \subseteq cache.results \X cache.results
    BY DEF OnePerRequest, Cache
<1>3. OnePerRequest(all)
    <2>1. all \in Cache
        BY <1>2 DEF Cache
    <2>2. all.older \subseteq all.results \X all.results
        BY <1>2
    <2>3. ASSUME NEW r \in all.results, NEW o \in all.results,
                 r.device = o.device, r.request = o.request
          PROVE  r = o
        BY <2>3 DEF OnePerRequest, Cached
    <2> QED
        BY <2>1, <2>2, <2>3 DEF OnePerRequest
<1>4. CASE ~(Cardinality(all.results) > CacheLimit)
    <2>1. Keep(result) = all
        BY <1>4 DEF Keep
    <2> QED
        BY <1>3, <2>1
<1>5. CASE Cardinality(all.results) > CacheLimit
    <2>1. Keep(result) = Without(all, Oldest(all))
        BY <1>5 DEF Keep
    <2>2. cache.results # {}
        <3>1. SUFFICES ASSUME cache.results = {} PROVE FALSE
            OBVIOUS
        <3>2. all.results = {result}
            BY <3>1
        <3>3. Cardinality(all.results) = 1
            BY <3>2, FS_Singleton
        <3> QED
            BY <1>5, <3>3, CredentialAssumption
    <2>3. PICK o \in cache.results : TRUE
        BY <2>2
    <2>4. <<result, o>> \notin all.older
        BY <1>1, <1>2, <2>3
    <2>5. result \notin Oldest(all)
        BY <1>1, <2>3, <2>4 DEF Oldest
    <2> HIDE DEF all
    <2>6. OnePerRequest(Without(all, Oldest(all)))
        BY <1>3 DEF OnePerRequest, Without, Cache
    <2>7. result \in Without(all, Oldest(all)).results
        BY <2>5 DEF Without, all
    <2> QED
        BY <2>1, <2>6, <2>7
<1> QED
    BY <1>4, <1>5

LEMMA ForgetKeeps ==
    ASSUME OnePerRequest(cache), NEW d, ForgetResults(d)
    PROVE  OnePerRequest(cache')
BY DEF OnePerRequest, ForgetResults, Without, Cache

LEMMA ChangePasswordStep ==
    ASSUME CredInv, NEW c \in Conn, NEW r \in Request, NEW p \in Password,
           ChangePassword(c, r, p)
    PROVE  Step
<1> DEFINE d == user[c].device  result == [device |-> d, request |-> r, secret |-> p]
<1>1. user[c] \in Identity
    BY DEF ChangePassword, CredInv, RequestsTypeOK
<1>2. d \in Device /\ result \in Result
    BY <1>1 DEF Identity, Result
<1>3. Sound(db') /\ OnePerRequest(cache') /\ Keeps(db, db') /\ UNCHANGED cache
    BY KeepsReflexive DEF ChangePassword, CredInv
<1>4. CASE Cached(d, r) # {}
    <2>1. ReplyCached(c, result) /\ UNCHANGED work
        BY <1>4 DEF ChangePassword
    <2>2. AnswerOK'
        BY <1>2, <1>3, <1>4, <2>1, ReplyCachedKeeps DEF CredInv
    <2>3. RequestsTypeOK'
        BY <2>1 DEF ChangePassword, CredInv, RequestsTypeOK
    <2> QED
        BY <1>3, <2>2, <2>3, KeepsOwned DEF Step, CredInv
<1>5. CASE Cached(d, r) = {}
    <2> DEFINE w == [op |-> "change", device |-> d, secret |-> p,
                     read |-> db.record[d], request |-> r]
    <2>1. Begin(c, w)
        BY <1>5 DEF ChangePassword
    <2>2. db.record[d] \in Records
        BY <1>2 DEF CredInv, Sound, Database
    <2>3. w \in Work
        BY <1>2, <2>2, WorkIn
    <2>4. RequestsTypeOK'
        BY <2>1, <2>3, WorkKeeps DEF Begin, ChangePassword, CredInv, RequestsTypeOK
    <2> QED
        BY <1>3, <2>1, <2>4, Silent DEF Begin
<1> QED
    BY <1>4, <1>5

(* The one step that may replace a password: the request is its own witness. *)
LEMMA FinishChangeStep == ASSUME CredInv, NEW c \in Conn, FinishChange(c) PROVE Step
<1> DEFINE w == work[c]  d == work[c].device
           result == [device |-> w.device, request |-> w.request, secret |-> w.secret]
           new == SetRecord(db, d, Hash(w.secret))
<1>1. /\ w.op = "change" /\ user[c] = As(d) /\ HasSalt /\ End(c)
      /\ UNCHANGED <<phase, user, challenge, ruled>>
    BY DEF FinishChange
<1>2. w \in Work /\ RequestsTypeOK /\ Sound(db) /\ db \in Database /\ OnePerRequest(cache)
    BY DEF CredInv, RequestsTypeOK, Sound
<1>3. d \in Device /\ w.secret \in Password /\ w.request \in Request
    BY <1>1, <1>2, WorkFields
<1>4. result \in Result
    BY <1>3 DEF Result
<1>5. RequestsTypeOK'
    BY <1>1, <1>2, EndKeeps DEF RequestsTypeOK
<1>6. CASE Cached(d, w.request) # {}
    <2>1. ReplyCached(c, result) /\ UNCHANGED <<db, cache>>
        BY <1>6 DEF FinishChange
    <2>2. AnswerOK'
        BY <1>2, <1>4, <1>6, <2>1, ReplyCachedKeeps
    <2> QED
        BY <1>2, <1>5, <2>1, <2>2, KeepsReflexive, KeepsOwned DEF Step, CredInv
<1>7. CASE Cached(d, w.request) = {} /\ ~CanCommit(db, d, w.read)
    <2>1. Reply(c, result, "fail") /\ UNCHANGED <<db, cache>>
        BY <1>7 DEF FinishChange
    <2>2. outcome' = [op |-> "change", conn |-> c, result |-> result, status |-> "fail"]
        BY <2>1 DEF Reply
    <2>3. result \notin cache'.results
        BY <1>7, <2>1 DEF Cached
    <2>4. outcome' \in Outcome /\ AccessProved' /\ RetriesAgree'
        BY <1>4, <2>2, <2>3 DEF Outcome, AccessProved, RetriesAgree
    <2> QED
        BY <1>2, <1>5, <2>1, <2>4, KeepsReflexive, KeepsOwned DEF Step, CredInv, AnswerOK
<1>8. CASE Cached(d, w.request) = {} /\ CanCommit(db, d, w.read)
    <2>1. db' = new /\ cache' = Keep(result) /\ Reply(c, result, "success")
        BY <1>8 DEF FinishChange
    <2>2. outcome' = [op |-> "change", conn |-> c, result |-> result, status |-> "success"]
        BY <2>1 DEF Reply
    <2>3. OnePerRequest(cache') /\ result \in cache'.results
        BY <1>2, <1>4, <1>8, <2>1, KeepKeeps
    <2>4. outcome' \in Outcome /\ AccessProved' /\ RetriesAgree'
        BY <1>4, <2>2, <2>3 DEF Outcome, AccessProved, RetriesAgree
    <2>5. Hash(w.secret) \in Record
        BY <1>1, <1>2, <1>3, HashIn
    <2>6. /\ Sound(db') /\ db'.key = db.key
          /\ db'.record = [db.record EXCEPT ![d] = Hash(w.secret)]
        BY <1>2, <1>3, <2>1, <2>5, SetRecordSound
    <2>7. Owned
        <3> SUFFICES ASSUME NEW e \in Device, db'.record[e].secret # db.record[e].secret
                     PROVE  /\ user[c] = As(e) /\ w.op = "change"
                            /\ Cached(e, w.request) = {}
                            /\ db.record[e] = w.read
                            /\ outcome'.op = "change" /\ outcome'.status = "success"
            BY <2>6 DEF Owned
        <3>1. e = d
            BY <1>2, <2>6 DEF Database
        <3> QED
            BY <1>1, <1>8, <2>2, <3>1 DEF CanCommit
    <2> QED
        BY <1>5, <2>3, <2>4, <2>6, <2>7 DEF Step, CredInv, AnswerOK
<1> QED
    BY <1>6, <1>7, <1>8

-----------------------------------------------------------------------------
(* Revocation, rules, time, removal and the process. *)

LEMMA RevokeReconnectStep == ASSUME CredInv, NEW c \in Conn, RevokeReconnect(c) PROVE Step
<1>1. user[c] \in Identity
    BY DEF RevokeReconnect, CredInv, RequestsTypeOK
<1>2. Sound(db') /\ Keeps(db, db')
    BY <1>1, RevokeSound DEF RevokeReconnect, CredInv, Identity
<1>3. RequestsTypeOK' /\ OnePerRequest(cache')
    BY DEF RevokeReconnect, CredInv, RequestsTypeOK
<1> QED
    BY <1>2, <1>3, Silent DEF RevokeReconnect

LEMMA RuleStep ==
    ASSUME CredInv, NEW source \in Source, SetRiskRule(source) \/ DeleteRiskRule(source)
    PROVE  Step
<1>1. source \subseteq Conn
    BY CredentialAssumption
<1>2. RequestsTypeOK' /\ UNCHANGED <<db, cache>> /\ outcome' = Nothing
    BY <1>1 DEF SetRiskRule, DeleteRiskRule, CredInv, RequestsTypeOK
<1> QED
    BY <1>2, Idles

LEMMA TokenExpiresStep == ASSUME CredInv, NEW d \in Device, TokenExpires(d) PROVE Step
<1>1. Sound(db') /\ Keeps(db, db')
    BY RevokeSound DEF TokenExpires, CredInv
<1>2. RequestsTypeOK' /\ OnePerRequest(cache')
    BY DEF TokenExpires, CredInv, RequestsTypeOK
<1> QED
    BY <1>1, <1>2, Silent DEF TokenExpires

LEMMA RemoveDeviceStep == ASSUME CredInv, NEW d \in Device, RemoveDevice(d) PROVE Step
<1>1. Sound(db') /\ Keeps(db, db')
    BY DeleteSound DEF RemoveDevice, CredInv
<1>2. OnePerRequest(cache')
    BY ForgetKeeps DEF RemoveDevice, CredInv
<1>3. RequestsTypeOK'
    BY DEF RemoveDevice, CredInv, RequestsTypeOK
<1> QED
    BY <1>1, <1>2, <1>3, Silent DEF RemoveDevice

LEMMA RemoveHistoryStep == ASSUME CredInv, NEW d \in Device, RemoveHistory(d) PROVE Step
<1>1. OnePerRequest(cache')
    BY ForgetKeeps DEF RemoveHistory, CredInv
<1>2. RequestsTypeOK' /\ Sound(db') /\ Keeps(db, db')
    BY KeepsReflexive DEF RemoveHistory, CredInv, RequestsTypeOK
<1> QED
    BY <1>1, <1>2, Silent DEF RemoveHistory

(* The cache of a new process, and of the first one, is empty. *)
LEMMA EmptyCache == OnePerRequest(NoResults)
BY DEF OnePerRequest, NoResults, Cache

(* A crash may leave the first statement of a login alone, or both. *)
LEMMA CrashStep == ASSUME CredInv, Crash PROVE Step
<1>1. Sound(db') /\ Keeps(db, db')
    <2>1. CASE db' = db
        BY <2>1, KeepsReflexive DEF CredInv
    <2>2. ASSUME NEW c \in Conn, db' \in Torn(c)
          PROVE  Sound(db') /\ Keeps(db, db')
        <3>1. Passes(c) /\ db' \in {Committed(c), Bound(c)}
            BY <2>2 DEF Torn
        <3> QED
            BY <3>1, PassesSound DEF CredInv
    <2> QED
        BY <2>1, <2>2 DEF Crash
<1>2. NoChallenge \in Challenge /\ Idle \in Work
    BY DEF NoChallenge, Challenge, Work
<1>3. RequestsTypeOK'
    BY <1>2 DEF Crash, CredInv, RequestsTypeOK, Phase
<1>4. OnePerRequest(cache')
    BY EmptyCache DEF Crash
<1> QED
    BY <1>1, <1>3, <1>4, Silent DEF Crash

-----------------------------------------------------------------------------
(* The invariant. *)

LEMMA InitCred == Init => CredInv
<1> SUFFICES ASSUME Init PROVE CredInv
    OBVIOUS
<1>1. NoChallenge \in Challenge /\ Idle \in Work
    BY DEF NoChallenge, Challenge, Work
<1>2. RequestsTypeOK
    BY <1>1 DEF Init, RequestsTypeOK, Phase
<1>3. PICK old \in [Device -> {NoRecord} \cup
                     [secret : Password, salt : {CHOOSE s \in Salt : TRUE}, current : BOOLEAN]] :
          db = [record |-> old,
                key    |-> [d \in Device |-> NoKey],
                token  |-> [d \in Device |-> NoRecord]]
    BY DEF Init
<1>4. (CHOOSE s \in Salt : TRUE) \in Salt
    BY CredentialAssumption
<1>5. old \in [Device -> Records]
    BY <1>4 DEF Records, Record
<1>6. db \in Database /\ \A d \in Device : db.token[d] = NoRecord
    BY <1>3, <1>5 DEF Database, Records
<1>7. Sound(db)
    BY <1>6 DEF Sound, Current
<1>8. OnePerRequest(cache)
    BY EmptyCache DEF Init
<1>9. AnswerOK
    BY DEF Init, AnswerOK, Nothing, Outcome, AccessProved, RetriesAgree
<1> QED
    BY <1>2, <1>7, <1>8, <1>9 DEF CredInv

LEMMA NextStep == ASSUME CredInv, [Next]_vars PROVE Step
<1>1. CASE UNCHANGED vars
    <2>1. RequestsTypeOK' /\ Sound(db') /\ OnePerRequest(cache') /\ UNCHANGED db
        BY <1>1 DEF vars, CredInv, RequestsTypeOK
    <2>2. AnswerOK'
        BY <1>1 DEF vars, CredInv, AnswerOK, AccessProved, RetriesAgree, Exists
    <2> QED
        BY <2>1, <2>2, KeepsReflexive, KeepsOwned DEF Step, CredInv
<1>2. ASSUME NEW c \in Conn,
             \/ Close(c) \/ Expire(c) \/ Cleanup(c) \/ Refuse(c) \/ LoginNew(c)
             \/ RejectAnswer(c) \/ AnswerNew(c) \/ AnswerBound(c)
             \/ FinishJoin(c) \/ FinishChange(c) \/ RevokeReconnect(c)
      PROVE  Step
    BY <1>2, CloseStep, ExpireStep, CleanupStep, RefuseStep, LoginNewStep, RejectAnswerStep,
       AnswerNewStep, AnswerBoundStep, FinishJoinStep, FinishChangeStep, RevokeReconnectStep
<1>3. ASSUME NEW c \in Conn, NEW d \in Device, LoginController(c, d) \/ LoginToken(c, d)
      PROVE  Step
    BY <1>3, LoginControllerStep, LoginTokenStep
<1>4. ASSUME NEW c \in Conn, NEW d \in Device, NEW p \in Password,
             LoginPassword(c, d, p) \/ JoinRoom(c, d, p)
      PROVE  Step
    BY <1>4, LoginPasswordStep, JoinRoomStep
<1>5. ASSUME NEW c \in Conn, NEW p \in Password, AnswerUnbound(c, p)
      PROVE  Step
    BY <1>5, AnswerUnboundStep
<1>6. ASSUME NEW c \in Conn, NEW id \in Identity \cup {NoUser}, NEW k \in Key,
             NEW due \in SUBSET {o \in Conn \ {c} : Live(o) /\ challenge[o] # NoChallenge},
             IssueChallenge(c, id, k, due)
      PROVE  Step
    <2>1. due \in SUBSET Conn
        OBVIOUS
    <2> QED
        BY <1>6, <2>1, IssueChallengeStep
<1>7. ASSUME NEW c \in Conn, NEW freed \in BOOLEAN, NEW issue \in BOOLEAN,
             FinishLogin(c, freed, issue)
      PROVE  Step
    BY <1>7, FinishLoginStep
<1>8. ASSUME NEW c \in Conn, NEW d \in Device, NEW p \in Password,
             NEW freed \in BOOLEAN, NEW issue \in BOOLEAN, FinishRegister(c, d, p, freed, issue)
      PROVE  Step
    BY <1>8, FinishRegisterStep
<1>9. ASSUME NEW c \in Conn, NEW r \in Request, NEW p \in Password, ChangePassword(c, r, p)
      PROVE  Step
    BY <1>9, ChangePasswordStep
<1>10. ASSUME NEW source \in Source, SetRiskRule(source) \/ DeleteRiskRule(source)
       PROVE  Step
    BY <1>10, RuleStep
<1>11. ASSUME NEW d \in Device, TokenExpires(d) \/ RemoveDevice(d) \/ RemoveHistory(d)
       PROVE  Step
    BY <1>11, TokenExpiresStep, RemoveDeviceStep, RemoveHistoryStep
<1>12. CASE Crash
    BY <1>12, CrashStep
<1> QED
    BY <1>1, <1>2, <1>3, <1>4, <1>5, <1>6, <1>7, <1>8, <1>9, <1>10, <1>11, <1>12 DEF Next

LEMMA Invariance == Spec => []CredInv
<1>1. CredInv /\ [Next]_vars => CredInv'
    BY NextStep DEF Step
<1> QED
    BY InitCred, <1>1, PTL DEF Spec

-----------------------------------------------------------------------------
(* Every value has its type: requests never outlive their kind, and the      *)
(* statements of the database leave records, keys and tokens well formed.    *)
THEOREM CredentialTypes == Spec => []CredentialTypeOK
<1>1. CredInv => CredentialTypeOK
    BY DEF CredInv, RequestsTypeOK, Sound, OnePerRequest, AnswerOK, CredentialTypeOK
<1> QED
    BY <1>1, Invariance, PTL

(* The triggers on the password, the key and the row of a device leave no    *)
(* token behind that its device no longer stands for, after any statement.   *)
THEOREM TokensStayCurrent == Spec => []TokensCurrent
<1>1. CredInv => TokensCurrent
    BY DEF CredInv, Sound, Current, TokensCurrent
<1> QED
    BY <1>1, Invariance, PTL

(* The compare-and-set of CommitPassword and the check of the key at the     *)
(* binding of the connection let nobody in on what was read before the hash. *)
THEOREM AccessAlwaysProved == Spec => []AccessProved
<1>1. CredInv => AccessProved
    BY DEF CredInv, AnswerOK
<1> QED
    BY <1>1, Invariance, PTL

(* With one result per request in the cache, read again after the hash, and  *)
(* the newest never evicted, all answers to a request agree.                 *)
THEOREM AnswersAgree == Spec => []RetriesAgree
<1>1. CredInv => RetriesAgree
    BY DEF CredInv, AnswerOK
<1> QED
    BY <1>1, Invariance, PTL

(* No step but the second half of a change_password replaces a password, and *)
(* none replaces a key, whatever the steps between the halves have done.     *)
THEOREM OwnersDecide == Spec => CredentialsOwned
<1>1. CredInv /\ [Next]_vars => [Owned]_vars
    BY NextStep DEF Step
<1>2. [Owned]_vars <=> [\A d \in Device : Exists(d) /\ db'.record[d] # NoRecord =>
          /\ db.key[d] # NoKey => db'.key[d] = db.key[d]
          /\ db'.record[d].secret # db.record[d].secret =>
                \E c \in Conn :
                    /\ user[c] = As(d) /\ work[c].op = "change"
                    /\ Cached(d, work[c].request) = {}
                    /\ db.record[d] = work[c].read
                    /\ outcome'.op = "change" /\ outcome'.status = "success"]_vars
    BY DEF Owned
<1> QED
    BY <1>1, <1>2, Invariance, PTL DEF Spec, CredentialsOwned

-----------------------------------------------------------------------------
(* The credentials as the atomic store of IdentityStore.                   *)

(* The keys of requests: a password login is begun without one, a challenge  *)
(* of a device and the binding it leads to have one.                         *)
KeyedWork(w) ==
    /\ w.op = "login" => w.key = NoKey
    /\ w.op = "bind"  => w.key \in Key
KeyedChallenge(h) == h.id # NoUser => h.key \in Key

KeysInv == \A c \in Conn : KeyedWork(work[c]) /\ KeyedChallenge(challenge[c])

(* Work is begun or ended, challenges are issued or taken, one at a time.    *)
LEMMA KeysKeep ==
    ASSUME CredInv, KeysInv,
           \A c \in Conn : KeyedWork(work'[c]) \/ work'[c] = work[c],
           \A c \in Conn : KeyedChallenge(challenge'[c]) \/ challenge'[c] = challenge[c]
    PROVE  KeysInv'
<1>1. \A c \in Conn : KeyedWork(work'[c]) /\ KeyedChallenge(challenge'[c])
    <2> SUFFICES ASSUME NEW c \in Conn PROVE KeyedWork(work'[c]) /\ KeyedChallenge(challenge'[c])
        OBVIOUS
    <2>1. KeyedWork(work[c]) /\ KeyedChallenge(challenge[c])
        BY DEF KeysInv
    <2>2. KeyedWork(work'[c])
        BY <2>1
    <2>3. KeyedChallenge(challenge'[c])
        BY <2>1
    <2> QED
        BY <2>2, <2>3
<1> QED
    BY <1>1 DEF KeysInv, KeyedWork, KeyedChallenge

LEMMA KeysWork ==
    ASSUME CredInv, NEW c \in Conn, NEW w, KeyedWork(w), work' = [work EXCEPT ![c] = w]
    PROVE  \A o \in Conn : KeyedWork(work'[o]) \/ work'[o] = work[o]
BY DEF CredInv, RequestsTypeOK

LEMMA NoneKeyed == KeyedWork(Idle) /\ KeyedChallenge(NoChallenge)
BY DEF KeyedWork, KeyedChallenge, Idle, NoChallenge

LEMMA KeysEnd ==
    ASSUME CredInv, NEW c \in Conn, End(c)
    PROVE  \A o \in Conn : KeyedWork(work'[o]) \/ work'[o] = work[o]
BY KeysWork, NoneKeyed DEF End

LEMMA KeysTake ==
    ASSUME CredInv, NEW c \in Conn, TakeChallenge(c)
    PROVE  \A o \in Conn : KeyedChallenge(challenge'[o]) \/ challenge'[o] = challenge[o]
<1>1. challenge \in [Conn -> Challenge]
    BY DEF CredInv, RequestsTypeOK
<1> QED
    BY <1>1, NoneKeyed DEF TakeChallenge

(* The key of a challenge that is answered for a device. *)
LEMMA KeysBind ==
    ASSUME CredInv, KeysInv, NEW c \in Conn, NEW p \in Password, AnswerUnbound(c, p)
    PROVE  KeysInv'
<1> DEFINE w == [op |-> "bind", device |-> challenge[c].id.device, secret |-> p,
                 read |-> db.record[challenge[c].id.device], key |-> challenge[c].key]
<1>1. TakeChallenge(c) /\ challenge[c].id # NoUser /\ work' = [work EXCEPT ![c] = w]
    BY DEF AnswerUnbound, Authenticate, Begin
<1>2. KeyedChallenge(challenge[c])
    BY DEF KeysInv
<1>3. KeyedWork(w)
    BY <1>1, <1>2 DEF KeyedWork, KeyedChallenge
<1> HIDE DEF w
<1>4. \A o \in Conn : KeyedWork(work'[o]) \/ work'[o] = work[o]
    BY <1>1, <1>3, KeysWork
<1> QED
    BY <1>1, <1>4, KeysTake, KeysKeep

LEMMA KeysIssued ==
    ASSUME CredInv, KeysInv, NEW c \in Conn, NEW id \in Identity \cup {NoUser}, NEW k \in Key,
           NEW due \in SUBSET Conn, IssueChallenge(c, id, k, due)
    PROVE  KeysInv'
<1>1. work' = work
      /\ challenge' = [o \in Conn |-> IF o = c THEN [id |-> id, key |-> k]
            ELSE IF o \in due \/ ~Live(o) THEN NoChallenge ELSE challenge[o]]
    BY DEF IssueChallenge
<1>2. KeyedChallenge([id |-> id, key |-> k])
    BY DEF KeyedChallenge
<1>3. \A o \in Conn : KeyedChallenge(challenge'[o]) \/ challenge'[o] = challenge[o]
    BY <1>1, <1>2, NoneKeyed
<1> QED
    BY <1>1, <1>3, KeysKeep

LEMMA KeysStep == ASSUME CredInv, KeysInv, [Next]_vars PROVE KeysInv'
<1>1. ASSUME UNCHANGED <<work, challenge>> PROVE KeysInv'
    BY <1>1 DEF KeysInv
<1>2. ASSUME NEW c \in Conn, NEW w, KeyedWork(w), work' = [work EXCEPT ![c] = w],
             UNCHANGED challenge \/ TakeChallenge(c)
      PROVE  KeysInv'
    <2>1. \A o \in Conn : KeyedWork(work'[o]) \/ work'[o] = work[o]
        BY <1>2, KeysWork
    <2>2. \A o \in Conn : KeyedChallenge(challenge'[o]) \/ challenge'[o] = challenge[o]
        BY <1>2, KeysTake
    <2> QED
        BY <2>1, <2>2, KeysKeep
<1>3. CASE UNCHANGED vars
    BY <1>1, <1>3 DEF vars
<1>4. ASSUME NEW c \in Conn,
             \/ Cleanup(c) \/ Refuse(c) \/ FinishJoin(c) \/ FinishChange(c)
             \/ \E freed \in BOOLEAN, issue \in BOOLEAN : FinishLogin(c, freed, issue)
             \/ \E d \in Device, p \in Password, freed \in BOOLEAN, issue \in BOOLEAN :
                  FinishRegister(c, d, p, freed, issue)
      PROVE  KeysInv'
    <2>1. work' = [work EXCEPT ![c] = Idle] /\ UNCHANGED challenge
        BY <1>4 DEF Cleanup, Refuse, FinishJoin, FinishChange, FinishLogin, FinishRegister, End
    <2> QED
        BY <1>2, <2>1, NoneKeyed
<1>5. ASSUME NEW c \in Conn, LoginNew(c) \/ AnswerNew(c) PROVE KeysInv'
    <2>1. PICK k : work' = [work EXCEPT ![c] = [op |-> "register", key |-> k]]
        BY <1>5 DEF LoginNew, AnswerNew, Begin
    <2>2. KeyedWork([op |-> "register", key |-> k])
        BY DEF KeyedWork
    <2>3. UNCHANGED challenge \/ TakeChallenge(c)
        BY <1>5 DEF LoginNew, AnswerNew
    <2> QED
        BY <1>2, <2>1, <2>2, <2>3
<1>6. ASSUME NEW c \in Conn, NEW d \in Device, NEW p \in Password,
             LoginPassword(c, d, p) \/ JoinRoom(c, d, p)
      PROVE  KeysInv'
    <2>1. PICK op \in {"login", "join"} :
             work' = [work EXCEPT ![c] = [op |-> op, device |-> d, secret |-> p,
                                          read |-> db.record[d], key |-> NoKey]]
        BY <1>6 DEF LoginPassword, JoinRoom, Authenticate, Begin
    <2>2. KeyedWork([op |-> op, device |-> d, secret |-> p, read |-> db.record[d], key |-> NoKey])
        BY DEF KeyedWork
    <2>3. UNCHANGED challenge
        BY <1>6 DEF LoginPassword, JoinRoom
    <2> QED
        BY <1>2, <2>1, <2>2, <2>3
<1>7. ASSUME NEW c \in Conn, NEW r \in Request, NEW p \in Password, ChangePassword(c, r, p)
      PROVE  KeysInv'
    <2> DEFINE w == [op |-> "change", device |-> user[c].device, secret |-> p,
                     read |-> db.record[user[c].device], request |-> r]
    <2>1. UNCHANGED work \/ work' = [work EXCEPT ![c] = w]
        BY <1>7 DEF ChangePassword, Begin
    <2>2. KeyedWork(w)
        BY DEF KeyedWork
    <2>3. UNCHANGED challenge
        BY <1>7 DEF ChangePassword
    <2> HIDE DEF w
    <2> QED
        BY <1>1, <1>2, <2>1, <2>2, <2>3
<1>8. ASSUME NEW c \in Conn, RejectAnswer(c) \/ AnswerBound(c) PROVE KeysInv'
    <2>1. TakeChallenge(c) /\ UNCHANGED work
        BY <1>8 DEF RejectAnswer, AnswerBound
    <2> QED
        BY <2>1, KeysTake, KeysKeep
<1>9. ASSUME NEW c \in Conn,
             \/ Close(c) \/ Expire(c) \/ RevokeReconnect(c)
             \/ \E d \in Device : LoginController(c, d) \/ LoginToken(c, d)
      PROVE  KeysInv'
    BY <1>1, <1>9 DEF Close, Expire, RevokeReconnect, LoginController, LoginToken
<1>10. ASSUME \/ \E source \in Source : SetRiskRule(source) \/ DeleteRiskRule(source)
              \/ \E d \in Device : TokenExpires(d) \/ RemoveDevice(d) \/ RemoveHistory(d)
       PROVE  KeysInv'
    BY <1>1, <1>10 DEF SetRiskRule, DeleteRiskRule, TokenExpires, RemoveDevice, RemoveHistory
<1>11. ASSUME NEW c \in Conn, NEW id \in Identity \cup {NoUser}, NEW k \in Key,
              NEW due \in SUBSET {o \in Conn \ {c} : Live(o) /\ challenge[o] # NoChallenge},
              IssueChallenge(c, id, k, due)
       PROVE  KeysInv'
    <2>1. due \in SUBSET Conn
        OBVIOUS
    <2> QED
        BY <1>11, <2>1, KeysIssued
<1>12. ASSUME NEW c \in Conn, NEW p \in Password, AnswerUnbound(c, p) PROVE KeysInv'
    BY <1>12, KeysBind
<1>13. CASE Crash
    BY <1>13, NoneKeyed, KeysKeep DEF Crash
<1> QED
    BY <1>3, <1>4, <1>5, <1>6, <1>7, <1>8, <1>9, <1>10, <1>11, <1>12, <1>13 DEF Next

LEMMA KeysInvariance == Spec => [](CredInv /\ KeysInv)
<1>1. Init => KeysInv
    BY NoneKeyed DEF Init, KeysInv
<1>2. CredInv /\ KeysInv /\ [Next]_vars => KeysInv'
    BY KeysStep
<1> QED
    BY Invariance, <1>1, <1>2, PTL DEF Spec

-----------------------------------------------------------------------------
(* What the store sees of a database. *)

SecretsOf(s) == [d \in Device |-> IF s.record[d] # NoRecord THEN {s.record[d].secret} ELSE {}]
TokensOf(s)  == {d \in Device : s.token[d] # NoRecord}

LEMMA Seen ==
    /\ Secrets = SecretsOf(db) /\ Tokens = TokensOf(db)
    /\ Secrets' = SecretsOf(db') /\ Tokens' = TokensOf(db')
BY DEF Secrets, Tokens, SecretsOf, TokensOf, Exists

LEMMA SecretSeen ==
    ASSUME NEW s, NEW d \in Device
    PROVE  /\ s.record[d] # NoRecord => SecretsOf(s)[d] = {s.record[d].secret}
           /\ s.record[d] = NoRecord => SecretsOf(s)[d] = {}
BY DEF SecretsOf

(* One record replaced is one password replaced; a migrated record is none.  *)
LEMMA SecretsSet ==
    ASSUME NEW s, NEW t, NEW d \in Device, NEW r, r # NoRecord,
           s \in Database, t.record = [s.record EXCEPT ![d] = r]
    PROVE  SecretsOf(t) = [SecretsOf(s) EXCEPT ![d] = {r.secret}]
<1>1. s.record \in [Device -> Records]
    BY DEF Database
<1>2. ASSUME NEW e \in Device
      PROVE  SecretsOf(t)[e] = [SecretsOf(s) EXCEPT ![d] = {r.secret}][e]
    BY <1>1 DEF SecretsOf
<1> QED
    BY <1>2 DEF SecretsOf

LEMMA SecretsMigrated ==
    ASSUME NEW s, NEW t, NEW d \in Device, NEW r, r # NoRecord,
           s \in Database, t.record = [s.record EXCEPT ![d] = r],
           s.record[d] # NoRecord, r.secret = s.record[d].secret
    PROVE  SecretsOf(t) = SecretsOf(s)
<1>1. SecretsOf(t) = [SecretsOf(s) EXCEPT ![d] = {r.secret}]
    BY SecretsSet
<1>2. SecretsOf(s)[d] = {r.secret}
    BY SecretSeen
<1> QED
    BY <1>1, <1>2 DEF SecretsOf

LEMMA SecretsDeleted ==
    ASSUME NEW s, NEW t, NEW d \in Device,
           s \in Database, t.record = [s.record EXCEPT ![d] = NoRecord]
    PROVE  SecretsOf(t) = [SecretsOf(s) EXCEPT ![d] = {}]
<1>1. s.record \in [Device -> Records]
    BY DEF Database
<1>2. ASSUME NEW e \in Device
      PROVE  SecretsOf(t)[e] = [SecretsOf(s) EXCEPT ![d] = {}][e]
    BY <1>1 DEF SecretsOf
<1> QED
    BY <1>2 DEF SecretsOf

(* The triggers: only IssueToken adds a token. *)
LEMMA TokensSet ==
    ASSUME NEW s \in Database, NEW d \in Device, NEW r
    PROVE  /\ TokensOf(SetRecord(s, d, r)) \subseteq TokensOf(s)
           /\ s.record[d] # r => TokensOf(SetRecord(s, d, r)) \subseteq TokensOf(s) \ {d}
<1> DEFINE x == IF s.record[d] = r THEN s.token[d] ELSE NoRecord
<1>1. SetRecord(s, d, r).token = [s.token EXCEPT ![d] = x]
    BY DEF SetRecord, Database
<1>2. s.token \in [Device -> Records]
    BY DEF Database
<1> QED
    BY <1>1, <1>2 DEF TokensOf

LEMMA TokensBound ==
    ASSUME NEW s \in Database, NEW d \in Device, NEW k
    PROVE  TokensOf(BindLoginPublicKey(s, d, k)) \subseteq TokensOf(s) \ {d}
<1>1. BindLoginPublicKey(s, d, k).token = [s.token EXCEPT ![d] = NoRecord]
    BY DEF BindLoginPublicKey, Database
<1>2. s.token \in [Device -> Records]
    BY DEF Database
<1> QED
    BY <1>1, <1>2 DEF TokensOf

LEMMA TokensDeleted ==
    ASSUME NEW s \in Database, NEW d \in Device
    PROVE  TokensOf(DeleteDevice(s, d)) = TokensOf(s) \ {d}
<1>1. DeleteDevice(s, d).token = [s.token EXCEPT ![d] = NoRecord]
    BY DEF DeleteDevice, Database
<1>2. s.token \in [Device -> Records]
    BY DEF Database
<1> QED
    BY <1>1, <1>2 DEF TokensOf

LEMMA TokensIssued ==
    ASSUME NEW s \in Database, NEW d \in Device, NEW issue \in BOOLEAN,
           NEW t, t = IF issue THEN IssueToken(s, d) ELSE s
    PROVE  /\ t.record = s.record /\ t.key = s.key /\ SecretsOf(t) = SecretsOf(s)
           /\ TokensOf(t) \subseteq TokensOf(s) \cup {d}
           /\ s.key[d] # NoKey => TokensOf(t) = TokensOf(s)
<1>1. CASE t = s
    BY <1>1
<1>2. CASE t # s
    <2>1. s.key[d] = NoKey /\ t = [s EXCEPT !.token[d] = s.record[d]]
        BY <1>2 DEF IssueToken
    <2>2. t.record = s.record /\ t.key = s.key /\ t.token = [s.token EXCEPT ![d] = s.record[d]]
        BY <2>1 DEF Database
    <2>3. s.token \in [Device -> Records]
        BY DEF Database
    <2> QED
        BY <2>1, <2>2, <2>3 DEF TokensOf, SecretsOf
<1> QED
    BY <1>1, <1>2

LEMMA Revoked ==
    ASSUME NEW s \in Database, NEW d \in Device
    PROVE  /\ RevokeToken(s, d).key = s.key
           /\ SecretsOf(RevokeToken(s, d)) = SecretsOf(s)
           /\ TokensOf(RevokeToken(s, d)) \subseteq TokensOf(s)
<1>1. /\ RevokeToken(s, d).record = s.record /\ RevokeToken(s, d).key = s.key
      /\ RevokeToken(s, d).token = [s.token EXCEPT ![d] = NoRecord]
    BY DEF RevokeToken, Database
<1>2. s.token \in [Device -> Records]
    BY DEF Database
<1> QED
    BY <1>1, <1>2 DEF TokensOf, SecretsOf

(* A password checked after the hash is the one in force, and what the check *)
(* writes shows in the store as a lost token and a first key at most.        *)
LEMMA PassesSeen ==
    ASSUME CredInv, KeysInv, NEW c \in Conn, Passes(c)
    PROVE  /\ work[c].device \in Device /\ work[c].secret \in Password
           /\ c \notin ruled /\ Secrets[work[c].device] = {work[c].secret}
           /\ Committed(c) \in Database /\ Committed(c).key = db.key
           /\ SecretsOf(Committed(c)) = Secrets
           /\ TokensOf(Committed(c)) \subseteq Tokens
           /\ ~MayBind(c) => Bound(c) = Committed(c)
           /\ MayBind(c) =>
                 /\ Bound(c) \in Database /\ SecretsOf(Bound(c)) = Secrets
                 /\ work[c].key \in Key /\ db.key[work[c].device] = NoKey
                 /\ Bound(c).key = [db.key EXCEPT ![work[c].device] = work[c].key]
                 /\ TokensOf(Bound(c)) \subseteq Tokens \ {work[c].device}
<1> DEFINE w == work[c]  d == work[c].device  v == Verified(work[c].read)
<1>1. /\ w \in Work /\ RequestsTypeOK /\ Sound(db) /\ db \in Database
      /\ w.op \in {"login", "bind", "join"} /\ c \notin ruled
      /\ w.read # NoRecord /\ w.read.secret = w.secret
      /\ Verifiable(w.read) /\ db.record[d] = w.read
    BY DEF Passes, Matches, CanCommit, CredInv, RequestsTypeOK, Sound
<1>2. d \in Device /\ w.secret \in Password /\ w.read \in Records /\ w.key \in Key \cup {NoKey}
    BY <1>1, WorkFields
<1>3. v \in Record /\ v # NoRecord /\ v.secret = w.secret
    BY <1>1, <1>2, VerifiedIn
<1>4. /\ Committed(c) \in Database
      /\ Committed(c).key = db.key
      /\ Committed(c).record = [db.record EXCEPT ![d] = v]
    BY <1>1, <1>2, <1>3, SetRecordSound DEF Committed, Sound
<1>5. Secrets[d] = {w.secret}
    BY <1>1, <1>2, Seen, SecretSeen
<1>6. SecretsOf(Committed(c)) = Secrets
    BY <1>1, <1>2, <1>3, <1>4, SecretsMigrated, Seen
<1>7. TokensOf(Committed(c)) \subseteq Tokens
    BY <1>1, <1>2, TokensSet, Seen DEF Committed
<1>8. ~MayBind(c) => Bound(c) = Committed(c)
    BY DEF Bound
<1>9. ASSUME MayBind(c)
      PROVE  /\ Bound(c) \in Database /\ SecretsOf(Bound(c)) = Secrets
             /\ w.key \in Key /\ db.key[d] = NoKey
             /\ Bound(c).key = [db.key EXCEPT ![d] = w.key]
             /\ TokensOf(Bound(c)) \subseteq Tokens \ {d}
    <2>1. w.op = "bind" /\ Committed(c).key[d] = NoKey
        BY <1>9 DEF MayBind, CanBindKey
    <2>2. w.key \in Key
        BY <2>1 DEF KeysInv, KeyedWork
    <2>3. Bound(c) = BindLoginPublicKey(Committed(c), d, w.key)
        BY <1>9 DEF Bound
    <2>4. Sound(Committed(c))
        BY <1>1, PassesSound
    <2>5. /\ Sound(Bound(c))
          /\ Bound(c).key = [db.key EXCEPT ![d] = w.key]
          /\ Bound(c).record = Committed(c).record
        BY <1>2, <1>4, <2>3, <2>4, BindSound
    <2>8. Bound(c) \in Database
        BY <2>5 DEF Sound
    <2>6. SecretsOf(Bound(c)) = Secrets
        BY <1>6, <2>5 DEF SecretsOf
    <2>7. TokensOf(Bound(c)) \subseteq Tokens \ {d}
        BY <1>2, <1>4, <1>7, <2>3, TokensBound
    <2> QED
        BY <1>4, <2>1, <2>2, <2>5, <2>6, <2>7, <2>8
<1> QED
    BY <1>1, <1>2, <1>4, <1>5, <1>6, <1>7, <1>8, <1>9

-----------------------------------------------------------------------------
(* Every step is a step of the store.                                        *)

LEMMA StoreStutters ==
    ASSUME UNCHANGED vars
    PROVE  UNCHANGED Store!vars
<1>1. Secrets' = Secrets /\ Tokens' = Tokens
    BY Seen DEF vars
<1> QED
    BY <1>1 DEF vars, Store!vars

(* A step that decides nothing costs a token at most. *)
LEMMA StoreQuiet ==
    ASSUME UNCHANGED <<user, cache, ruled>>, outcome' = Nothing, db'.key = db.key,
           SecretsOf(db') = SecretsOf(db), TokensOf(db') \subseteq TokensOf(db)
    PROVE  Store!Quiet
<1>1. Secrets' = Secrets /\ Tokens' \in SUBSET Tokens
    BY Seen
<1>2. outcome' = Store!None
    BY DEF Nothing, Store!None
<1> QED
    BY <1>1, <1>2 DEF Store!Quiet

LEMMA StoreIdles ==
    ASSUME UNCHANGED <<user, cache, ruled, db>>, outcome' = Nothing
    PROVE  Store!Quiet
BY StoreQuiet

LEMMA StoreCloses == ASSUME CredInv, NEW c \in Conn, Cleanup(c) PROVE Store!Logout(c)
<1>1. Secrets' = Secrets /\ Tokens' = Tokens
    BY Seen DEF Cleanup
<1> QED
    BY <1>1 DEF Cleanup, Nothing, Store!Logout, Store!None

LEMMA StoreController ==
    ASSUME CredInv, NEW c \in Conn, NEW d \in Device, NEW k \in Key \cup {NoKey},
           CompleteController(c, d, k), user[c] = NoUser, UNCHANGED <<cache, ruled>>
    PROVE  Store!LoginController(c, d, k)
<1>1. db.key[d] = k
    BY DEF CompleteController, ControllerHolds, KeyHolds
<1>2. db' = db /\ user' = [user EXCEPT ![c] = Store!Controller(d)]
    BY DEF CompleteController, CloneOf, Store!Controller
<1>3. Secrets' = Secrets /\ Tokens' = Tokens
    BY <1>2, Seen
<1>4. Store!Answer("clone", c, d, NoRecord, k)
    BY DEF CompleteController, Store!Answer
<1> QED
    BY <1>1, <1>2, <1>3, <1>4 DEF Store!LoginController, Store!Enter

LEMMA StoreToken ==
    ASSUME CredInv, NEW c \in Conn, NEW d \in Device, LoginToken(c, d)
    PROVE  Store!LoginToken(c, d)
<1>1. /\ user[c] = NoUser /\ db.token[d] # NoRecord /\ KeyHolds(db, d, NoKey)
      /\ CompleteLogin(db, c, d, "token", NoRecord, NoKey, FALSE)
      /\ UNCHANGED <<cache, ruled>>
    BY DEF LoginToken
<1>2. db' = db /\ user' = [user EXCEPT ![c] = Store!Self(d)]
    BY <1>1 DEF CompleteLogin, As, Store!Self
<1>3. Secrets' = Secrets /\ Tokens' = Tokens
    BY <1>2, Seen
<1>4. Secrets[d] # {} /\ db.key[d] = NoKey /\ d \in Tokens
    BY <1>1 DEF KeyHolds, Secrets, Tokens, Exists
<1>5. Store!Answer("token", c, d, NoRecord, NoKey)
    BY <1>1 DEF CompleteLogin, Store!Answer
<1> QED
    BY <1>1, <1>2, <1>3, <1>4, <1>5 DEF Store!LoginToken, Store!Enter

LEMMA StoreBound ==
    ASSUME CredInv, KeysInv, NEW c \in Conn, AnswerBound(c)
    PROVE  \E d \in Device :
              \/ \E k \in Key : Store!LoginKey(c, d, k)
              \/ \E k \in Key \cup {NoKey} : Store!LoginController(c, d, k)
<1> DEFINE d == challenge[c].id.device  k == challenge[c].key
<1>1. /\ user[c] = NoUser /\ challenge[c].id # NoUser /\ challenge[c].id \in Identity
      /\ UNCHANGED <<cache, ruled>>
    BY TakeKeeps DEF AnswerBound, TakeChallenge
<1>2. d \in Device /\ k \in Key
    BY <1>1 DEF Identity, KeysInv, KeyedChallenge
<1>3. CASE challenge[c].id.clone
    <2>1. CompleteController(c, d, k)
        BY <1>3 DEF AnswerBound
    <2>2. Store!LoginController(c, d, k)
        BY <1>1, <1>2, <2>1, StoreController
    <2> QED
        BY <1>2, <2>2
<1>4. CASE ~challenge[c].id.clone
    <2>1. KeyHolds(db, d, k) /\ CompleteLogin(db, c, d, "key", NoRecord, k, FALSE)
        BY <1>4 DEF AnswerBound
    <2>2. db' = db /\ user' = [user EXCEPT ![c] = Store!Self(d)]
        BY <2>1 DEF CompleteLogin, As, Store!Self
    <2>3. Secrets' = Secrets /\ Tokens' = Tokens
        BY <2>2, Seen
    <2>4. Secrets[d] # {} /\ db.key[d] = k
        BY <1>2, <2>1 DEF KeyHolds, Secrets, Exists
    <2>5. Store!Answer("key", c, d, NoRecord, k)
        BY <2>1 DEF CompleteLogin, Store!Answer
    <2>6. Store!LoginKey(c, d, k)
        BY <1>1, <2>2, <2>3, <2>4, <2>5 DEF Store!LoginKey, Store!Enter
    <2> QED
        BY <1>2, <2>6
<1> QED
    BY <1>3, <1>4

LEMMA StoreJoins ==
    ASSUME CredInv, KeysInv, NEW c \in Conn, FinishJoin(c)
    PROVE  \E d \in Device, p \in Password : Store!JoinRoom(c, d, p)
<1> DEFINE d == work[c].device  p == work[c].secret
<1>1. /\ Passes(c) /\ user[c] # NoUser /\ db' = Committed(c)
      /\ outcome' = [op |-> "join", conn |-> c, device |-> d, secret |-> p, key |-> NoKey]
      /\ UNCHANGED <<user, cache, ruled>>
    BY DEF FinishJoin
<1>2. /\ d \in Device /\ p \in Password
      /\ c \notin ruled /\ Secrets[d] = {p}
      /\ db'.key = db.key /\ SecretsOf(db') = Secrets /\ TokensOf(db') \subseteq Tokens
    BY <1>1, PassesSeen
<1>3. Secrets' = Secrets /\ Tokens' \in SUBSET Tokens
    BY <1>2, Seen
<1> HIDE DEF d, p
<1>4. Store!JoinRoom(c, d, p)
    BY <1>1, <1>2, <1>3 DEF Store!JoinRoom, Store!Proves, Store!Answer
<1> QED
    BY <1>2, <1>4

(* The password read before the hash is still the device's, and so is the    *)
(* absence of a key: CompleteLogin looks at it in the step that lets one in. *)
(* A first key may be bound for a connection that is freed before that.      *)
LEMMA StoreLogsIn ==
    ASSUME CredInv, KeysInv, NEW c \in Conn, NEW freed \in BOOLEAN, NEW issue \in BOOLEAN,
           FinishLogin(c, freed, issue)
    PROVE  \/ Store!Quiet
           \/ \E d \in Device, p \in Password :
                 \/ Store!LoginPassword(c, d, p)
                 \/ \E k \in Key : Store!BindKey(c, d, p, k) \/ Store!BindLost(c, d, p, k)
<1> DEFINE w == work[c]  d == work[c].device  p == work[c].secret  k == work[c].key
           b == Bound(c)
<1>1. /\ w.op \in {"login", "bind"} /\ Passes(c) /\ user[c] = NoUser
      /\ UNCHANGED <<cache, ruled>>
    BY DEF FinishLogin
<1>2. /\ d \in Device /\ p \in Password
      /\ c \notin ruled /\ Secrets[d] = {p}
      /\ Committed(c) \in Database /\ Committed(c).key = db.key
      /\ SecretsOf(Committed(c)) = Secrets /\ TokensOf(Committed(c)) \subseteq Tokens
      /\ ~MayBind(c) => b = Committed(c)
      /\ MayBind(c) =>
            /\ b \in Database /\ SecretsOf(b) = Secrets
            /\ k \in Key /\ db.key[d] = NoKey
            /\ b.key = [db.key EXCEPT ![d] = k]
            /\ TokensOf(b) \subseteq Tokens \ {d}
    BY <1>1, PassesSeen
<1>3. w.op = "login" => ~MayBind(c) /\ k = NoKey
    BY DEF MayBind, KeysInv, KeyedWork
<1>4. CASE ~freed /\ (w.op = "bind" => MayBind(c)) /\ KeyHolds(b, d, k)
    <2>1. CompleteLogin(b, c, d, w.op, p, k, issue)
        BY <1>4 DEF FinishLogin
    <2>2. /\ db' = IF issue THEN IssueToken(b, d) ELSE b
          /\ outcome' = [op |-> w.op, conn |-> c, device |-> d, secret |-> p, key |-> k]
          /\ user' = [user EXCEPT ![c] = Store!Self(d)]
        BY <2>1 DEF CompleteLogin, As, Store!Self
    <2>3. b \in Database
        BY <1>2
    <2>4. /\ db'.key = b.key /\ SecretsOf(db') = SecretsOf(b)
          /\ TokensOf(db') \subseteq TokensOf(b) \cup {d}
          /\ b.key[d] # NoKey => TokensOf(db') = TokensOf(b)
        BY <1>2, <2>2, <2>3, TokensIssued
    <2>5. CASE w.op = "login"
        <3>1. b = Committed(c) /\ k = NoKey
            BY <1>2, <1>3, <2>5
        <3>2. db.key[d] = NoKey
            BY <1>2, <1>4, <3>1 DEF KeyHolds
        <3>3. Secrets' = Secrets /\ db'.key = db.key /\ Tokens' \in SUBSET (Tokens \cup {d})
            BY <1>2, <2>4, <3>1, Seen
        <3>4. Store!Answer("login", c, d, p, NoKey)
            BY <2>2, <2>5, <3>1 DEF Store!Answer
        <3> HIDE DEF d, p
        <3>5. Store!LoginPassword(c, d, p)
            BY <1>1, <1>2, <2>2, <3>2, <3>3, <3>4
               DEF Store!LoginPassword, Store!Enter, Store!Proves
        <3> QED
            BY <1>2, <3>5
    <2>6. CASE w.op = "bind"
        <3>1. /\ SecretsOf(b) = Secrets
              /\ k \in Key /\ db.key[d] = NoKey
              /\ b.key = [db.key EXCEPT ![d] = k]
              /\ TokensOf(b) \subseteq Tokens \ {d}
            BY <1>2, <1>4, <2>6
        <3>2. k # NoKey
            BY <3>1, CredentialAssumption
        <3>3. b.key[d] = k
            BY <1>4 DEF KeyHolds
        <3>4. Secrets' = Secrets /\ Tokens' \in SUBSET (Tokens \ {d})
            BY <2>4, <3>1, <3>2, <3>3, Seen
        <3>5. Store!Answer("bind", c, d, p, k)
            BY <2>2, <2>6 DEF Store!Answer
        <3> HIDE DEF d, p, k
        <3>6. Store!BindKey(c, d, p, k)
            BY <1>1, <1>2, <2>2, <2>4, <3>1, <3>4, <3>5
               DEF Store!BindKey, Store!FirstKey, Store!Enter, Store!Proves
        <3> QED
            BY <1>2, <3>1, <3>6
    <2> QED
        BY <1>1, <2>5, <2>6
<1>5. CASE ~freed /\ ~((w.op = "bind" => MayBind(c)) /\ KeyHolds(b, d, k))
    <2>1. db' = b /\ outcome' = Nothing /\ UNCHANGED user
        BY <1>5 DEF FinishLogin
    <2>2. ~MayBind(c)
        <3>1. SUFFICES ASSUME MayBind(c) PROVE FALSE
            OBVIOUS
        <3>2. b.key[d] = k
            BY <1>2, <3>1 DEF Database
        <3>3. b.record[d] # NoRecord
            BY <1>1, PassesSound DEF CredInv
        <3> QED
            BY <1>5, <3>1, <3>2, <3>3 DEF KeyHolds
    <2> QED
        BY <1>1, <1>2, <2>1, <2>2, StoreQuiet, Seen
<1>6. CASE freed
    <2>1. db' = b /\ outcome' = Nothing /\ UNCHANGED user
        BY <1>6 DEF FinishLogin
    <2>2. CASE ~MayBind(c)
        BY <1>1, <1>2, <2>1, <2>2, StoreQuiet, Seen
    <2>3. CASE MayBind(c)
        <3>1. /\ k \in Key /\ db.key[d] = NoKey
              /\ db'.key = [db.key EXCEPT ![d] = k]
              /\ Secrets' = Secrets /\ Tokens' \in SUBSET (Tokens \ {d})
            BY <1>2, <2>1, <2>3, Seen
        <3>2. outcome' = Store!None
            BY <2>1 DEF Nothing, Store!None
        <3> HIDE DEF d, p, k
        <3>3. Store!BindLost(c, d, p, k)
            BY <1>1, <1>2, <2>1, <3>1, <3>2 DEF Store!BindLost, Store!FirstKey, Store!Proves
        <3> QED
            BY <1>2, <3>1, <3>3
    <2> QED
        BY <2>2, <2>3
<1> QED
    BY <1>4, <1>5, <1>6

LEMMA StoreRegisters ==
    ASSUME CredInv, KeysInv, NEW c \in Conn, NEW d \in Device, NEW p \in Password,
           NEW freed \in BOOLEAN, NEW issue \in BOOLEAN, FinishRegister(c, d, p, freed, issue)
    PROVE  \E k \in Key \cup {NoKey} : Store!Register(c, d, p, k) \/ Store!RegisterLost(d, p, k)
<1> DEFINE k == work[c].key  s == InsertDevice(db, d, Hash(p), work[c].key)
<1>1. /\ work[c].op = "register" /\ HasSalt /\ db.record[d] = NoRecord /\ user[c] = NoUser
      /\ UNCHANGED <<cache, ruled>>
    BY DEF FinishRegister, Exists
<1>2. work[c] \in Work /\ RequestsTypeOK /\ Sound(db) /\ db \in Database
    BY DEF CredInv, RequestsTypeOK, Sound
<1>3. k \in Key \cup {NoKey}
    BY <1>1, <1>2, WorkFields
<1>4. Hash(p) \in Record /\ Hash(p) # NoRecord /\ Hash(p).secret = p
    BY <1>1, <1>2, HashIn
<1>5. /\ Sound(s)
      /\ s.key = [db.key EXCEPT ![d] = k]
      /\ s.record = [db.record EXCEPT ![d] = Hash(p)]
    BY <1>1, <1>2, <1>3, <1>4, InsertSound
<1>6. s.token = db.token
    BY <1>2 DEF InsertDevice, Database
<1>7. SecretsOf(s) = [Secrets EXCEPT ![d] = {p}]
    <2> DEFINE h == Hash(p)
    <2> HIDE DEF s, h
    <2>1. db \in Database /\ h # NoRecord /\ s.record = [db.record EXCEPT ![d] = h]
        BY <1>2, <1>4, <1>5 DEF h
    <2>2. SecretsOf(s) = [SecretsOf(db) EXCEPT ![d] = {h.secret}]
        BY <2>1, SecretsSet
    <2>3. h.secret = p
        BY <1>4 DEF h
    <2> QED
        BY <2>2, <2>3, Seen
<1>8. TokensOf(s) = Tokens
    BY <1>6, Seen DEF TokensOf
<1>9. Secrets[d] = {}
    BY <1>1, Seen, SecretSeen
<1>10. CASE freed
    <2>1. db' = s /\ outcome' = Store!None /\ UNCHANGED user
        BY <1>10 DEF FinishRegister, Nothing, Store!None
    <2>2. Secrets' = [Secrets EXCEPT ![d] = {p}] /\ Tokens' = Tokens
        BY <1>7, <1>8, <2>1, Seen
    <2> HIDE DEF k, s
    <2>3. Store!RegisterLost(d, p, k)
        BY <1>1, <1>5, <1>9, <2>1, <2>2 DEF Store!RegisterLost, Store!Created
    <2> QED
        BY <1>3, <2>3
<1>11. CASE ~freed
    <2>1. CompleteLogin(s, c, d, "register", p, k, issue)
        BY <1>11 DEF FinishRegister
    <2>2. /\ db' = IF issue THEN IssueToken(s, d) ELSE s
          /\ outcome' = [op |-> "register", conn |-> c, device |-> d, secret |-> p, key |-> k]
          /\ user' = [user EXCEPT ![c] = Store!Self(d)]
        BY <2>1 DEF CompleteLogin, As, Store!Self
    <2>3. s \in Database /\ s.key[d] = k
        BY <1>2, <1>5 DEF Sound, Database
    <2>4. /\ db'.key = s.key /\ SecretsOf(db') = SecretsOf(s)
          /\ TokensOf(db') \subseteq TokensOf(s) \cup {d}
          /\ s.key[d] # NoKey => TokensOf(db') = TokensOf(s)
        BY <2>2, <2>3, TokensIssued
    <2>5. Secrets' = [Secrets EXCEPT ![d] = {p}]
        BY <1>7, <2>4, Seen
    <2>6. Tokens' \in SUBSET (IF k = NoKey THEN Tokens \cup {d} ELSE Tokens)
        BY <1>8, <2>3, <2>4, Seen
    <2>7. Store!Answer("register", c, d, p, k)
        BY <2>2 DEF Store!Answer
    <2> HIDE DEF k, s
    <2>8. Store!Register(c, d, p, k)
        BY <1>1, <1>5, <1>9, <2>2, <2>4, <2>5, <2>6, <2>7
           DEF Store!Register, Store!Created, Store!Enter
    <2> QED
        BY <1>3, <2>8
<1> QED
    BY <1>10, <1>11

(* A cached result answers for itself, and any other password is an error. *)
LEMMA StoreReplies ==
    ASSUME CredInv, NEW c \in Conn, NEW d \in Device, NEW r \in Request, NEW p \in Password,
           user[c] = As(d), Cached(d, r) # {},
           ReplyCached(c, [device |-> d, request |-> r, secret |-> p]),
           UNCHANGED <<user, db, cache, ruled>>
    PROVE  Store!Repeat(c, d, r, p) \/ Store!Reject(c, d, r, p)
<1> DEFINE result == [device |-> d, request |-> r, secret |-> p]
<1>1. result \in Result /\ result.device = d /\ result.request = r
    BY DEF Result
<1>2. OnePerRequest(cache)
    BY DEF CredInv
<1>3. PICK status \in {"success", "fail"} :
        outcome' = [op |-> "change", conn |-> c, result |-> result, status |-> status]
    BY DEF ReplyCached, Reply
<1>4. AnswerOK'
    <2> HIDE DEF result
    <2>1. ReplyCached(c, result)
        BY DEF result
    <2> QED
        BY <1>1, <1>2, <2>1, ReplyCachedKeeps
<1>5. status = "success" <=> result \in cache.results
    BY <1>3, <1>4 DEF AnswerOK, RetriesAgree
<1>6. user[c] = Store!Self(d) /\ Secrets' = Secrets /\ Tokens' = Tokens
    BY Seen DEF As, Store!Self
<1>7. Store!AnswerChange(c, d, r, p, status)
    BY <1>3, <1>6 DEF Store!AnswerChange
<1>8. CASE status = "success"
    BY <1>5, <1>6, <1>7, <1>8 DEF Store!Repeat
<1>9. CASE status = "fail"
    BY <1>5, <1>6, <1>7, <1>9 DEF Store!Reject
<1> QED
    BY <1>3, <1>8, <1>9

LEMMA StoreAsks ==
    ASSUME CredInv, NEW c \in Conn, NEW r \in Request, NEW p \in Password,
           ChangePassword(c, r, p)
    PROVE  \/ Store!Quiet
           \/ \E d \in Device : Store!Repeat(c, d, r, p) \/ Store!Reject(c, d, r, p)
<1> DEFINE d == user[c].device
<1>1. /\ user[c] \in Identity /\ ~user[c].clone /\ UNCHANGED <<user, db, cache, ruled>>
    BY DEF ChangePassword, CredInv, RequestsTypeOK
<1>2. d \in Device /\ user[c] = As(d)
    BY <1>1 DEF Identity, As
<1>3. CASE Cached(d, r) # {}
    <2>1. ReplyCached(c, [device |-> d, request |-> r, secret |-> p])
        BY <1>3 DEF ChangePassword
    <2> QED
        BY <1>1, <1>2, <1>3, <2>1, StoreReplies
<1>4. CASE Cached(d, r) = {}
    <2>1. outcome' = Nothing
        BY <1>4 DEF ChangePassword, Begin
    <2> QED
        BY <1>1, <2>1, StoreIdles
<1> QED
    BY <1>3, <1>4

(* A new record has a salt of its own: it differs from the one it replaces,  *)
(* also when the password does not, so that the trigger clears the token.    *)
LEMMA HashFresh ==
    ASSUME CredInv, HasSalt, NEW p \in Password, NEW d \in Device, db.record[d] # NoRecord
    PROVE  Hash(p) # db.record[d]
<1>1. PICK s \in Salt : s \notin SaltsInUse
    BY SaltsTyped DEF HasSalt, CredInv, Sound
<1>2. Hash(p).salt \notin SaltsInUse
    BY <1>1 DEF Hash
<1>3. db.record[d].salt \in SaltsInUse
    BY DEF SaltsInUse, SaltsIn
<1> QED
    BY <1>2, <1>3

LEMMA StoreChanges ==
    ASSUME CredInv, NEW c \in Conn, FinishChange(c)
    PROVE  \E d \in Device, r \in Request, p \in Password :
              Store!Change(c, d, r, p) \/ Store!Repeat(c, d, r, p) \/ Store!Reject(c, d, r, p)
<1> DEFINE w == work[c]  d == work[c].device  r == work[c].request  p == work[c].secret
           result == [device |-> d, request |-> r, secret |-> p]
<1>1. /\ w.op = "change" /\ user[c] = As(d) /\ HasSalt
      /\ UNCHANGED <<user, ruled>>
    BY DEF FinishChange
<1>2. w \in Work /\ RequestsTypeOK /\ Sound(db) /\ db \in Database /\ OnePerRequest(cache)
    BY DEF CredInv, RequestsTypeOK, Sound
<1>3. d \in Device /\ p \in Password /\ r \in Request
    BY <1>1, <1>2, WorkFields
<1>4. result \in Result /\ user[c] = Store!Self(d)
    BY <1>1, <1>3 DEF Result, As, Store!Self
<1>5. CASE Cached(d, r) # {}
    <2>1. ReplyCached(c, result) /\ UNCHANGED <<db, cache>>
        BY <1>5 DEF FinishChange
    <2>2. Store!Repeat(c, d, r, p) \/ Store!Reject(c, d, r, p)
        BY <1>1, <1>3, <1>5, <2>1, StoreReplies
    <2> QED
        BY <1>3, <2>2
<1>6. CASE Cached(d, r) = {} /\ ~CanCommit(db, d, w.read)
    <2>1. Reply(c, result, "fail") /\ UNCHANGED <<db, cache>>
        BY <1>6 DEF FinishChange
    <2>2. result \notin cache.results
        BY <1>6 DEF Cached
    <2>3. Secrets' = Secrets /\ Tokens' = Tokens
        BY <2>1, Seen
    <2>4. Store!AnswerChange(c, d, r, p, "fail")
        BY <1>1, <1>4, <2>1 DEF Store!AnswerChange, Reply
    <2>5. Store!Reject(c, d, r, p)
        BY <2>1, <2>2, <2>3, <2>4 DEF Store!Reject
    <2> QED
        BY <1>3, <2>5
<1>7. CASE Cached(d, r) = {} /\ CanCommit(db, d, w.read)
    <2> DEFINE h == Hash(p)
    <2>1. /\ db' = SetRecord(db, d, h) /\ cache' = Keep(result)
          /\ Reply(c, result, "success") /\ db.record[d] # NoRecord
        BY <1>7 DEF FinishChange, CanCommit
    <2>2. h \in Record /\ h # NoRecord /\ h.secret = p /\ h # db.record[d]
        BY <1>1, <1>2, <1>3, <2>1, HashIn, HashFresh
    <2> HIDE DEF h
    <2>3. db'.key = db.key /\ db'.record = [db.record EXCEPT ![d] = h]
        BY <1>2, <1>3, <2>1, <2>2, SetRecordSound
    <2>4. SecretsOf(db') = [SecretsOf(db) EXCEPT ![d] = {h.secret}]
        BY <1>2, <1>3, <2>2, <2>3, SecretsSet
    <2>5. TokensOf(db') \subseteq TokensOf(db) \ {d}
        BY <1>2, <1>3, <2>1, <2>2, TokensSet
    <2>6. Secrets' = [Secrets EXCEPT ![d] = {p}] /\ Tokens' \in SUBSET (Tokens \ {d})
        BY <2>2, <2>4, <2>5, Seen
    <2>7. Secrets[d] # {}
        BY <1>3, <2>1 DEF Secrets, Exists
    <2>8. result \in cache'.results /\ cache'.results \subseteq cache.results \cup {result}
        <3>1. result \in Keep(result).results
            BY <1>2, <1>4, <1>7, KeepKeeps
        <3>2. Keep(result).results \subseteq cache.results \cup {result}
            BY DEF Keep, Without
        <3> QED
            BY <2>1, <3>1, <3>2
    <2>9. {a \in cache.results : a.device = d /\ a.request = r} = {}
        BY <1>7 DEF Cached
    <2>10. Store!AnswerChange(c, d, r, p, "success")
        BY <1>1, <1>4, <2>1, <2>3 DEF Store!AnswerChange, Reply
    <2>11. Store!Change(c, d, r, p)
        BY <2>6, <2>7, <2>8, <2>9, <2>10 DEF Store!Change, Store!AppliedFor
    <2> QED
        BY <1>3, <2>11
<1> QED
    BY <1>5, <1>6, <1>7

LEMMA StoreRevokes ==
    ASSUME CredInv, NEW c \in Conn, RevokeReconnect(c)
    PROVE  Store!Quiet
<1>1. user[c].device \in Device
    BY DEF RevokeReconnect, CredInv, RequestsTypeOK, Identity
<1>2. db \in Database
    BY DEF CredInv, Sound
<1> QED
    BY <1>1, <1>2, Revoked, StoreQuiet DEF RevokeReconnect

LEMMA StoreExpires ==
    ASSUME CredInv, NEW d \in Device, TokenExpires(d)
    PROVE  Store!Quiet
<1>1. db \in Database
    BY DEF CredInv, Sound
<1> QED
    BY <1>1, Revoked, StoreQuiet DEF TokenExpires

LEMMA StoreRules ==
    ASSUME CredInv, NEW source \in Source, SetRiskRule(source) \/ DeleteRiskRule(source)
    PROVE  Store!Block
<1>1. ruled' \in SUBSET Conn /\ outcome' = Store!None /\ UNCHANGED <<user, db, cache>>
    BY CredentialAssumption
       DEF SetRiskRule, DeleteRiskRule, CredInv, RequestsTypeOK, Nothing, Store!None
<1>2. Secrets' = Secrets /\ Tokens' = Tokens
    BY <1>1, Seen
<1> QED
    BY <1>1, <1>2 DEF Store!Block

LEMMA ForgottenSeen ==
    ASSUME NEW d, ForgetResults(d)
    PROVE  cache'.results = {a \in cache.results : a.device # d}
BY DEF ForgetResults, Without

LEMMA StoreRemoves ==
    ASSUME CredInv, NEW d \in Device, RemoveDevice(d)
    PROVE  Store!Remove(d)
<1>1. db \in Database
    BY DEF CredInv, Sound
<1>2. /\ db' = DeleteDevice(db, d) /\ ForgetResults(d) /\ outcome' = Store!None
      /\ \A c \in Conn : user[c] \notin {Store!Self(d), Store!Controller(d)}
      /\ UNCHANGED <<user, ruled>>
    BY DEF RemoveDevice, Unused, As, CloneOf, Nothing, Store!None, Store!Self, Store!Controller
<1>3. db'.record = [db.record EXCEPT ![d] = NoRecord] /\ db'.key = [db.key EXCEPT ![d] = NoKey]
    BY <1>1, <1>2 DEF DeleteDevice, Database
<1>4. Secrets' = [Secrets EXCEPT ![d] = {}]
    BY <1>1, <1>3, SecretsDeleted, Seen
<1>5. Tokens' = Tokens \ {d}
    BY <1>1, <1>2, TokensDeleted, Seen
<1> QED
    BY <1>2, <1>3, <1>4, <1>5, ForgottenSeen DEF Store!Remove

LEMMA StoreForgets ==
    ASSUME CredInv, NEW d \in Device, RemoveHistory(d)
    PROVE  Store!Forget(d)
<1>1. ForgetResults(d) /\ outcome' = Store!None /\ UNCHANGED <<user, db, ruled>>
    BY DEF RemoveHistory, Nothing, Store!None
<1>2. Secrets' = Secrets /\ Tokens' = Tokens
    BY <1>1, Seen
<1> QED
    BY <1>1, <1>2, ForgottenSeen DEF Store!Forget

(* Between two statements of a request, or after the binding of its key, the *)
(* process leaves the password and at most one first key, whose password was *)
(* proved.                                                                   *)
LEMMA StoreRestarts == ASSUME CredInv, KeysInv, Crash PROVE Store!Restart
<1>1. /\ user' = [c \in Conn |-> NoUser] /\ cache'.results = {} /\ outcome' = Store!None
      /\ UNCHANGED ruled
    BY DEF Crash, NoResults, Nothing, Store!None
<1> DEFINE Left ==
      \/ Tokens' \in SUBSET Tokens /\ UNCHANGED db.key
      \/ \E c \in Conn, d \in Device, p \in Password, k \in Key : Store!FirstKey(c, d, p, k)
<1>2. CASE db' = db
    <2>1. Secrets' = Secrets /\ Left
        BY <1>2, Seen
    <2> QED
        BY <1>1, <2>1 DEF Store!Restart
<1>3. ASSUME NEW c \in Conn, db' \in Torn(c)
      PROVE  Store!Restart
    <2> DEFINE d == work[c].device  p == work[c].secret  k == work[c].key
    <2>1. Passes(c) /\ (db' = Committed(c) \/ db' = Bound(c))
        BY <1>3 DEF Torn
    <2>2. CASE db' = Committed(c)
        <3>1. Secrets' = Secrets /\ Left
            BY <2>1, <2>2, PassesSeen, Seen
        <3> QED
            BY <1>1, <3>1 DEF Store!Restart
    <2>3. CASE db' = Bound(c) /\ MayBind(c)
        <3>1. /\ d \in Device /\ k \in Key /\ p \in Password
              /\ c \notin ruled /\ Secrets[d] = {p}
              /\ db.key[d] = NoKey /\ db'.key = [db.key EXCEPT ![d] = k]
              /\ SecretsOf(db') = Secrets /\ TokensOf(db') \subseteq Tokens \ {d}
            BY <2>1, <2>3, PassesSeen
        <3>2. Secrets' = Secrets /\ Tokens' \in SUBSET (Tokens \ {d})
            BY <3>1, Seen
        <3> HIDE DEF d, p, k
        <3>3. Store!FirstKey(c, d, p, k)
            BY <3>1, <3>2 DEF Store!FirstKey, Store!Proves
        <3>4. Left
            BY <3>1, <3>3
        <3> QED
            BY <1>1, <3>2, <3>4 DEF Store!Restart
    <2> QED
        BY <2>1, <2>2, <2>3, PassesSeen
<1> QED
    BY <1>2, <1>3 DEF Crash

LEMMA StoreStep ==
    ASSUME CredInv, KeysInv, [Next]_vars
    PROVE  [Store!Next]_(Store!vars)
<1> DEFINE Goal == [Store!Next]_(Store!vars)
<1>1. CASE UNCHANGED vars
    BY <1>1, StoreStutters
<1>2. ASSUME Store!Quiet PROVE Goal
    BY <1>2 DEF Store!Next
<1>3. ASSUME NEW c \in Conn,
             \/ Close(c) \/ Expire(c) \/ Refuse(c) \/ LoginNew(c) \/ RejectAnswer(c)
             \/ AnswerNew(c) \/ \E p \in Password : AnswerUnbound(c, p)
             \/ \E d \in Device, p \in Password : LoginPassword(c, d, p) \/ JoinRoom(c, d, p)
             \/ \E id \in Identity \cup {NoUser}, k \in Key,
                   due \in SUBSET {o \in Conn \ {c} : Live(o) /\ challenge[o] # NoChallenge} :
                  IssueChallenge(c, id, k, due)
      PROVE  Goal
    <2>1. UNCHANGED <<user, cache, ruled, db>> /\ outcome' = Nothing
        BY <1>3 DEF Close, Expire, Refuse, LoginNew, RejectAnswer, AnswerNew, AnswerUnbound,
                    LoginPassword, JoinRoom, IssueChallenge, Authenticate, Begin
    <2> QED
        BY <1>2, <2>1, StoreIdles
<1>4. ASSUME NEW c \in Conn, Cleanup(c) PROVE Goal
    BY <1>4, StoreCloses DEF Store!Next
<1>5. ASSUME NEW c \in Conn, NEW d \in Device, LoginController(c, d) PROVE Goal
    <2>1. Store!LoginController(c, d, NoKey)
        BY <1>5, StoreController DEF LoginController
    <2> QED
        BY <2>1 DEF Store!Next
<1>6. ASSUME NEW c \in Conn, NEW d \in Device, LoginToken(c, d) PROVE Goal
    BY <1>6, StoreToken DEF Store!Next
<1>7. ASSUME NEW c \in Conn, AnswerBound(c) PROVE Goal
    BY <1>7, StoreBound DEF Store!Next
<1>8. ASSUME NEW c \in Conn, FinishJoin(c) PROVE Goal
    BY <1>8, StoreJoins DEF Store!Next
<1>9. ASSUME NEW c \in Conn, FinishChange(c) PROVE Goal
    BY <1>9, StoreChanges DEF Store!Next
<1>10. ASSUME NEW c \in Conn, RevokeReconnect(c) PROVE Goal
    BY <1>2, <1>10, StoreRevokes
<1>11. ASSUME NEW c \in Conn, NEW freed \in BOOLEAN, NEW issue \in BOOLEAN,
              FinishLogin(c, freed, issue)
       PROVE  Goal
    <2>1. ASSUME NEW d \in Device, NEW p \in Password,
                 \/ Store!LoginPassword(c, d, p)
                 \/ \E k \in Key : Store!BindKey(c, d, p, k) \/ Store!BindLost(c, d, p, k)
          PROVE  Goal
        BY <2>1 DEF Store!Next
    <2> QED
        BY <1>2, <1>11, <2>1, StoreLogsIn
<1>12. ASSUME NEW c \in Conn, NEW d \in Device, NEW p \in Password,
              NEW freed \in BOOLEAN, NEW issue \in BOOLEAN, FinishRegister(c, d, p, freed, issue)
       PROVE  Goal
    <2>1. ASSUME NEW k \in Key \cup {NoKey}, Store!Register(c, d, p, k) \/ Store!RegisterLost(d, p, k)
          PROVE  Goal
        BY <2>1 DEF Store!Next
    <2> QED
        BY <1>12, <2>1, StoreRegisters
<1>13. ASSUME NEW c \in Conn, NEW r \in Request, NEW p \in Password, ChangePassword(c, r, p)
       PROVE  Goal
    <2>1. ASSUME NEW d \in Device, Store!Repeat(c, d, r, p) \/ Store!Reject(c, d, r, p)
          PROVE  Goal
        BY <2>1 DEF Store!Next
    <2> QED
        BY <1>2, <1>13, <2>1, StoreAsks
<1>14. ASSUME NEW source \in Source, SetRiskRule(source) \/ DeleteRiskRule(source) PROVE Goal
    BY <1>14, StoreRules DEF Store!Next
<1>15. ASSUME NEW d \in Device, TokenExpires(d) PROVE Goal
    BY <1>2, <1>15, StoreExpires
<1>16. ASSUME NEW d \in Device, RemoveDevice(d) \/ RemoveHistory(d) PROVE Goal
    BY <1>16, StoreRemoves, StoreForgets DEF Store!Next
<1>17. CASE Crash
    BY <1>17, StoreRestarts DEF Store!Next
<1> QED
    BY <1>1, <1>3, <1>4, <1>5, <1>6, <1>7, <1>8, <1>9, <1>10, <1>11, <1>12, <1>13, <1>14,
       <1>15, <1>16, <1>17 DEF Next

(* The two jobs of every request and the hash between them are one step of   *)
(* the store: who is let in had, in that step, the password or the key in    *)
(* force, and each password change of a request takes effect once, whatever  *)
(* is removed, bound, migrated or lost in a crash between the jobs.  A first *)
(* key is only bound by who proved the password; it stays without a login    *)
(* when its connection is freed or the process dies before CompleteLogin.    *)
THEOREM StoreServes == Spec => StoreKept
<1>1. Init => Store!Init
    <2> SUFFICES ASSUME Init PROVE Store!Init
        OBVIOUS
    <2>1. /\ db.key = [d \in Device |-> NoKey] /\ \A d \in Device : db.token[d] = NoRecord
          /\ db \in Database
        <3>1. CredInv
            BY InitCred
        <3>2. db.key = [d \in Device |-> NoKey] /\ \A d \in Device : db.token[d] = NoRecord
            BY DEF Init
        <3> QED
            BY <3>1, <3>2 DEF CredInv, Sound
    <2>2. Tokens = {}
        BY <2>1 DEF Tokens
    <2>3. ASSUME NEW d \in Device PROVE Secrets[d] \in {{}} \cup {{p} : p \in Password}
        <3>1. db.record[d] \in Records
            BY <2>1 DEF Database
        <3>2. db.record[d] # NoRecord => db.record[d].secret \in Password
            BY <3>1 DEF Records, Record
        <3> QED
            BY <3>2 DEF Secrets, Exists
    <2>4. Secrets \in [Device -> {{}} \cup {{p} : p \in Password}]
        BY <2>3 DEF Secrets
    <2> QED
        BY <2>1, <2>2, <2>4 DEF Init, NoResults, Nothing, Store!Init, Store!None
<1>2. CredInv /\ KeysInv /\ [Next]_vars => [Store!Next]_(Store!vars)
    BY StoreStep
<1> QED
    BY <1>1, <1>2, KeysInvariance, PTL DEF Spec, StoreKept, Store!Spec
=============================================================================
