----------------------------- MODULE IdentityStore -----------------------------
(***************************************************************************)
(* What the server promises about identities, as if every check and every  *)
(* change were one step on one store: no hashing between the reading of a  *)
(* password and its use, no challenges, salts, formats or cached order.    *)
(* Whoever is let in has, at that moment, what the device then demands.    *)
(*                                                                         *)
(* A reconnect token may be lost in any step; it is never gained but by a  *)
(* login that proves a password while the device has no key.               *)
(***************************************************************************)
CONSTANTS Device, Conn, Key, Password, Request,
          Nobody, NoKey,
          NoProof      \* the secret of an answer that needed no password

VARIABLES who,        \* the identity a connection is logged in as
          password,   \* of a device: none, {}, or one
          key,        \* its login key, NoKey at first
          tokens,     \* devices with a reconnect token
          blocked,    \* connections whose source is blocked
          applied,    \* password changes a retry is still answered for
          answer      \* what the last step answered, or none

vars == <<who, password, key, tokens, blocked, applied, answer>>

Self(d)       == [device |-> d, clone |-> FALSE]
Controller(d) == [device |-> d, clone |-> TRUE]
None          == [op |-> "none"]

Init ==
    /\ who = [c \in Conn |-> Nobody]
    /\ password \in [Device -> {{}} \cup {{p} : p \in Password}]
    /\ key = [d \in Device |-> NoKey]
    /\ tokens = {}
    /\ blocked = {}
    /\ applied = {}
    /\ answer = None

-----------------------------------------------------------------------------
Answer(op, c, d, p, k) ==
    answer' = [op |-> op, conn |-> c, device |-> d, secret |-> p, key |-> k]

Proves(c, d, p) == c \notin blocked /\ password[d] = {p}

Enter(c, id) ==
    /\ who[c] = Nobody
    /\ who' = [who EXCEPT ![c] = id]

LoginPassword(c, d, p) ==
    /\ Enter(c, Self(d))
    /\ Proves(c, d, p) /\ key[d] = NoKey
    /\ tokens' \in SUBSET (tokens \cup {d})
    /\ Answer("login", c, d, p, NoKey)
    /\ UNCHANGED <<password, key, blocked, applied>>

(* The first key of a device, with its password; tokens end with it. *)
FirstKey(c, d, p, k) ==
    /\ Proves(c, d, p) /\ key[d] = NoKey
    /\ key' = [key EXCEPT ![d] = k]
    /\ tokens' \in SUBSET (tokens \ {d})

BindKey(c, d, p, k) ==
    /\ Enter(c, Self(d))
    /\ FirstKey(c, d, p, k)
    /\ Answer("bind", c, d, p, k)
    /\ UNCHANGED <<password, blocked, applied>>

(* The connection is lost after it bound the key. *)
BindLost(c, d, p, k) ==
    /\ who[c] = Nobody
    /\ FirstKey(c, d, p, k)
    /\ answer' = None
    /\ UNCHANGED <<who, password, blocked, applied>>

LoginKey(c, d, k) ==
    /\ Enter(c, Self(d))
    /\ password[d] # {} /\ key[d] = k
    /\ Answer("key", c, d, NoProof, k)
    /\ UNCHANGED <<password, key, tokens, blocked, applied>>

LoginToken(c, d) ==
    /\ Enter(c, Self(d))
    /\ password[d] # {} /\ key[d] = NoKey /\ d \in tokens
    /\ Answer("token", c, d, NoProof, NoKey)
    /\ UNCHANGED <<password, key, tokens, blocked, applied>>

(* A controller identity needs the key of its device, or nothing without one. *)
LoginController(c, d, k) ==
    /\ Enter(c, Controller(d))
    /\ key[d] = k
    /\ Answer("clone", c, d, NoProof, k)
    /\ UNCHANGED <<password, key, tokens, blocked, applied>>

JoinRoom(c, d, p) ==
    /\ who[c] # Nobody
    /\ Proves(c, d, p)
    /\ tokens' \in SUBSET tokens
    /\ Answer("join", c, d, p, NoKey)
    /\ UNCHANGED <<who, password, key, blocked, applied>>

Created(d, p, k) ==
    /\ password[d] = {}
    /\ password' = [password EXCEPT ![d] = {p}]
    /\ key' = [key EXCEPT ![d] = k]
    /\ UNCHANGED <<blocked, applied>>

Register(c, d, p, k) ==
    /\ Enter(c, Self(d))
    /\ Created(d, p, k)
    /\ tokens' \in SUBSET (IF k = NoKey THEN tokens \cup {d} ELSE tokens)
    /\ Answer("register", c, d, p, k)

(* The connection is lost after the device is created. *)
RegisterLost(d, p, k) ==
    /\ Created(d, p, k)
    /\ answer' = None
    /\ UNCHANGED <<who, tokens>>

-----------------------------------------------------------------------------
(* Changes of a password by the device itself: each request applies once. *)
AnswerChange(c, d, r, p, status) ==
    /\ who[c] = Self(d)
    /\ answer' = [op |-> "change", conn |-> c, status |-> status,
                  result |-> [device |-> d, request |-> r, secret |-> p]]
    /\ UNCHANGED <<who, key, blocked>>

AppliedFor(d, r) == {a \in applied : a.device = d /\ a.request = r}

(* Older results may be forgotten to make room. *)
Change(c, d, r, p) ==
    LET result == [device |-> d, request |-> r, secret |-> p] IN
    /\ AnswerChange(c, d, r, p, "success")
    /\ AppliedFor(d, r) = {}
    /\ password[d] # {}
    /\ password' = [password EXCEPT ![d] = {p}]
    /\ tokens' \in SUBSET (tokens \ {d})
    /\ result \in applied'
    /\ applied' \in SUBSET (applied \cup {result})

Repeat(c, d, r, p) ==
    /\ AnswerChange(c, d, r, p, "success")
    /\ [device |-> d, request |-> r, secret |-> p] \in applied
    /\ UNCHANGED <<password, tokens, applied>>

Reject(c, d, r, p) ==
    /\ AnswerChange(c, d, r, p, "fail")
    /\ [device |-> d, request |-> r, secret |-> p] \notin applied
    /\ UNCHANGED <<password, tokens, applied>>

-----------------------------------------------------------------------------
(* A step without an answer: it may cost a token, as a migrated password does. *)
Quiet ==
    /\ answer' = None
    /\ tokens' \in SUBSET tokens
    /\ UNCHANGED <<who, password, key, blocked, applied>>

Logout(c) ==
    /\ who' = [who EXCEPT ![c] = Nobody]
    /\ answer' = None
    /\ UNCHANGED <<password, key, tokens, blocked, applied>>

Block ==
    /\ blocked' \in SUBSET Conn
    /\ answer' = None
    /\ UNCHANGED <<who, password, key, tokens, applied>>

(* A device is removed with everything it had, while nobody uses it. *)
Remove(d) ==
    /\ \A c \in Conn : who[c] \notin {Self(d), Controller(d)}
    /\ password' = [password EXCEPT ![d] = {}]
    /\ key' = [key EXCEPT ![d] = NoKey]
    /\ tokens' = tokens \ {d}
    /\ applied' = {a \in applied : a.device # d}
    /\ answer' = None
    /\ UNCHANGED <<who, blocked>>

Forget(d) ==
    /\ applied' = {a \in applied : a.device # d}
    /\ answer' = None
    /\ UNCHANGED <<who, password, key, tokens, blocked>>

(* The process ends, perhaps after it bound a key and before it answered. *)
Restart ==
    /\ who' = [c \in Conn |-> Nobody]
    /\ applied' = {}
    /\ answer' = None
    /\ \/ tokens' \in SUBSET tokens /\ UNCHANGED key
       \/ \E c \in Conn, d \in Device, p \in Password, k \in Key : FirstKey(c, d, p, k)
    /\ UNCHANGED <<password, blocked>>

-----------------------------------------------------------------------------
Next ==
    \/ Quiet \/ Block \/ Restart
    \/ \E c \in Conn, d \in Device :
         \/ LoginToken(c, d)
         \/ \E k \in Key : LoginKey(c, d, k)
         \/ \E k \in Key \cup {NoKey} : LoginController(c, d, k)
         \/ \E p \in Password : LoginPassword(c, d, p) \/ JoinRoom(c, d, p)
         \/ \E p \in Password, k \in Key : BindKey(c, d, p, k) \/ BindLost(c, d, p, k)
         \/ \E p \in Password, k \in Key \cup {NoKey} : Register(c, d, p, k)
         \/ \E r \in Request, p \in Password :
              Change(c, d, r, p) \/ Repeat(c, d, r, p) \/ Reject(c, d, r, p)
    \/ \E d \in Device, p \in Password, k \in Key \cup {NoKey} : RegisterLost(d, p, k)
    \/ \E c \in Conn : Logout(c)
    \/ \E d \in Device : Remove(d) \/ Forget(d)

Spec == Init /\ [][Next]_vars
=============================================================================
