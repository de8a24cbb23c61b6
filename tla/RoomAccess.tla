----------------------------- MODULE RoomAccess -----------------------------
(***************************************************************************)
(* What the signaling server promises about rooms, with none of its        *)
(* tables: a room belongs to the device it is named after, a connection    *)
(* gains access to a room only by entering it itself, and it has no access *)
(* left once it is logged out.  Who owns a room when nobody is logged in,  *)
(* sessions kept in the database and routes do not appear here.            *)
(***************************************************************************)
CONSTANTS Room,      \* the devices a room is named after
          User,      \* every identity, with Room \subseteq User
          Conn,      \* connections
          Nobody     \* the identity of a connection that is not logged in

VARIABLES who,       \* the identity a connection is logged in as
          access     \* <<c, t>>: connection c entered room t and may signal in it

vars == <<who, access>>

Init ==
    /\ who = [c \in Conn |-> Nobody]
    /\ access = {}

(* A socket keeps its identity until it is logged out, and starts without any access. *)
Login(c, u) ==
    /\ who[c] = Nobody
    /\ who' = [who EXCEPT ![c] = u]
    /\ UNCHANGED access

(* Entering takes the place of the same identity's older connection in this room only. *)
Enter(c, t) ==
    /\ who[c] \notin {Nobody, t}
    /\ access' = {a \in access : a[2] # t \/ who[a[1]] # who[c]} \cup {<<c, t>>}
    /\ UNCHANGED who

(* Leaving, a kick by the host, the end of a room, an administrator. *)
Revoke ==
    /\ access' \in SUBSET access
    /\ UNCHANGED who

(* A logout may end rooms of the same identity, but never keeps access of its own. *)
Logout(c) ==
    /\ who[c] # Nobody
    /\ who' = [who EXCEPT ![c] = Nobody]
    /\ access' \in SUBSET {a \in access : a[1] # c}

Next ==
    \/ \E c \in Conn, u \in User : Login(c, u)
    \/ \E c \in Conn, t \in Room : Enter(c, t)
    \/ Revoke
    \/ \E c \in Conn : Logout(c)

Spec == Init /\ [][Next]_vars
=============================================================================
