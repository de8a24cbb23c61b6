----------------------- MODULE ConnectionAdmissionProofs -----------------------
(***************************************************************************)
(* Proofs about ConnectionAdmission, for any limits and any connections:   *)
(* the owners of queued cleanups stay below the connection limit, hence    *)
(* the reserve of the application worker is never exhausted.               *)
(***************************************************************************)
EXTENDS ConnectionAdmission, FiniteSetTheorems, TLAPS

(* Only StopPosted queues the farewell job. *)
FarewellLast == farewell => stop = "done"

IInv ==
    /\ TypeOK
    /\ CleanupsCounted
    /\ OwnersBounded
    /\ HandshakesBounded
    /\ AcceptorLives
    /\ FarewellLast

-----------------------------------------------------------------------------
(* Sizes of sets.                                                          *)

(* A smaller set is no larger. *)
LEMMA CardMonotone ==
    ASSUME NEW S, IsFiniteSet(S), NEW T, T \subseteq S
    PROVE  /\ IsFiniteSet(T)
           /\ Cardinality(T) \in Nat
           /\ Cardinality(S) \in Nat
           /\ Cardinality(T) <= Cardinality(S)
<1>1. T \in SUBSET S
  OBVIOUS
<1>2. QED
  BY <1>1, FS_Subset, FS_CardinalityType

(* One more element makes a set larger by at most one. *)
LEMMA CardAdd ==
    ASSUME NEW S, IsFiniteSet(S), NEW c
    PROVE  /\ IsFiniteSet(S \cup {c})
           /\ Cardinality(S \cup {c}) \in Nat
           /\ Cardinality(S \cup {c}) <= Cardinality(S) + 1
<1>1. /\ IsFiniteSet(S \cup {c})
      /\ Cardinality(S \cup {c}) = IF c \in S THEN Cardinality(S) ELSE Cardinality(S) + 1
  BY FS_AddElement
<1>2. Cardinality(S) \in Nat
  BY FS_CardinalityType
<1>3. QED
  BY <1>1, <1>2

(* The union of disjoint sets is as large as both. *)
LEMMA CardDisjoint ==
    ASSUME NEW S, IsFiniteSet(S), NEW T, IsFiniteSet(T), S \cap T = {}
    PROVE  /\ IsFiniteSet(S \cup T)
           /\ Cardinality(S \cup T) = Cardinality(S) + Cardinality(T)
<1>1. /\ IsFiniteSet(S \cup T)
      /\ Cardinality(S \cup T) = Cardinality(S) + Cardinality(T) - Cardinality(S \cap T)
  BY FS_Union
<1>2. Cardinality(S \cap T) = 0
  <2>1. IsFiniteSet(S \cap T)
    BY FS_Intersection
  <2>2. QED
    BY <2>1, FS_EmptySet
<1>3. Cardinality(S) \in Nat /\ Cardinality(T) \in Nat
  BY FS_CardinalityType
<1>4. QED
  BY <1>1, <1>2, <1>3

(* The union of any two sets is no larger than both. *)
LEMMA CardUnion ==
    ASSUME NEW S, IsFiniteSet(S), NEW T, IsFiniteSet(T)
    PROVE  /\ IsFiniteSet(S \cup T)
           /\ Cardinality(S \cup T) \in Nat
           /\ Cardinality(S \cup T) <= Cardinality(S) + Cardinality(T)
<1>1. /\ IsFiniteSet(S \cup T)
      /\ Cardinality(S \cup T) = Cardinality(S) + Cardinality(T) - Cardinality(S \cap T)
  BY FS_Union
<1>2. IsFiniteSet(S \cap T)
  BY FS_Intersection
<1>3. /\ Cardinality(S) \in Nat
      /\ Cardinality(T) \in Nat
      /\ Cardinality(S \cap T) \in Nat
      /\ Cardinality(S \cup T) \in Nat
  BY <1>1, <1>2, FS_CardinalityType
<1>4. QED
  BY <1>1, <1>3

(* The finiteness that the definitions leave to TypeOK. *)
LEMMA Sizes ==
    ASSUME TypeOK
    PROVE  /\ IsFiniteSet(Owners) /\ Cardinality(Owners) \in Nat
           /\ IsFiniteSet(conns \ opened) /\ Cardinality(conns \ opened) \in Nat
           /\ IsFiniteSet(alive \cap opened) /\ Cardinality(alive \cap opened) \in Nat
           /\ Cardinality(conns) \in Nat
           /\ Cardinality(cleanups) \in Nat
           /\ Cardinality(posted) \in Nat
<1>1. IsFiniteSet(conns) /\ IsFiniteSet(cleanups) /\ IsFiniteSet(posted)
  BY DEF TypeOK
<1>2. IsFiniteSet(Owners) /\ Cardinality(Owners) \in Nat
  BY <1>1, CardUnion DEF Owners
<1>3. conns \ opened \subseteq conns /\ alive \cap opened \subseteq conns
  BY DEF TypeOK
<1>4. QED
  BY <1>1, <1>2, <1>3, CardMonotone

(* The reserve follows from the invariant: a cleanup job, or a session that *)
(* may still need one, belongs to an owner of its own.                      *)
LEMMA Enough == IInv => ReserveSuffices
<1> SUFFICES ASSUME IInv PROVE ReserveSuffices
  OBVIOUS
<1>1. TypeOK /\ CleanupsCounted /\ OwnersBounded /\ FarewellLast
  BY DEF IInv
<1>2. IsFiniteSet(cleanups) /\ IsFiniteSet(alive \cap opened) /\ IsFiniteSet(Owners)
  BY <1>1, Sizes DEF TypeOK
<1>3. Cardinality(cleanups \cup (alive \cap opened))
          = Cardinality(cleanups) + Cardinality(alive \cap opened)
  BY <1>1, <1>2, CardDisjoint DEF CleanupsCounted
<1>4. Cardinality(cleanups \cup (alive \cap opened)) <= Cardinality(Owners)
  <2>1. cleanups \cup (alive \cap opened) \subseteq Owners
    BY <1>1 DEF Owners, TypeOK
  <2>2. QED
    BY <2>1, <1>2, CardMonotone
<1>5. Cardinality(Owners) <= MaxConn
  BY <1>1, Sizes, AdmissionAssumption DEF OwnersBounded, One
<1>6. One(farewell) + One(stop # "done") <= 1
  BY <1>1 DEF FarewellLast, One
<1>7. plain \in 0..AppCapacity /\ hashed \in 0..Workers
  BY <1>1 DEF TypeOK
<1>8. Cardinality(cleanups) \in Nat /\ Cardinality(alive \cap opened) \in Nat
      /\ Cardinality(Owners) \in Nat
  BY <1>1, Sizes
<1>9. One(prune = "queued") \in 0..1 /\ One(farewell) \in 0..1 /\ One(stop # "done") \in 0..1
  BY DEF One
<1>10. QED
  BY <1>3, <1>4, <1>5, <1>6, <1>7, <1>8, <1>9, AdmissionAssumption
     DEF ReserveSuffices, Jobs, Reserve

-----------------------------------------------------------------------------
(* What the parts of the actions do to the bounds.                         *)

(* QueueSessionCleanup moves sessions of connections into the cleanups. *)
LEMMA Queued ==
    ASSUME TypeOK, CleanupsCounted, NEW cs, cs \subseteq conns,
           QueueSessionCleanup(cs), posted' = posted
    PROVE  /\ alive' = alive \ cs
           /\ cleanups' \cup conns = cleanups \cup conns
           /\ cleanups' \in SUBSET Conn /\ IsFiniteSet(cleanups')
           /\ pendingCleanup' \in Nat
           /\ CleanupsCounted'
<1> DEFINE ends == cs \cap alive \cap opened
<1>1. /\ alive' = alive \ cs
      /\ pendingCleanup' = pendingCleanup + Cardinality(ends)
      /\ cleanups' = cleanups \cup ends
  BY DEF QueueSessionCleanup
<1>2. ends \subseteq conns /\ ends \subseteq alive
  OBVIOUS
<1>3. cleanups \cap ends = {} /\ posted \cap ends = {}
  BY <1>2 DEF CleanupsCounted
<1>4. IsFiniteSet(conns) /\ IsFiniteSet(cleanups) /\ conns \subseteq Conn /\ cleanups \subseteq Conn
  BY DEF TypeOK
<1>5. IsFiniteSet(ends) /\ Cardinality(ends) \in Nat
  BY <1>2, <1>4, CardMonotone
<1>6. IsFiniteSet(cleanups') /\ Cardinality(cleanups') = Cardinality(cleanups) + Cardinality(ends)
  BY <1>1, <1>3, <1>4, <1>5, CardDisjoint
<1>7. Cardinality(cleanups) \in Nat /\ Cardinality(posted) \in Nat
  BY Sizes
<1>8. pendingCleanup' \in Nat
  BY <1>1, <1>5 DEF TypeOK
<1>9. CleanupsCounted'
  <2>1. pendingCleanup' = Cardinality(cleanups') + Cardinality(posted')
    BY <1>1, <1>5, <1>6, <1>7 DEF CleanupsCounted
  <2>2. cleanups' \cap posted' = {} /\ (cleanups' \cup posted') \cap alive' = {}
    <3> HIDE DEF ends
    <3>1. ends \subseteq cs
      BY DEF ends
    <3>2. QED
      BY <1>1, <1>3, <3>1 DEF CleanupsCounted
  <2>3. QED
    BY <2>1, <2>2 DEF CleanupsCounted
<1>10. cleanups' \cup conns = cleanups \cup conns
  BY <1>1, <1>2
<1>11. QED
  BY <1>1, <1>2, <1>4, <1>6, <1>8, <1>9, <1>10

(* AcceptNext starts an accept only when there is room for its connection. *)
LEMMA Looked ==
    ASSUME TypeOK, CleanupsCounted, NEW cs, IsFiniteSet(cs), AcceptNext(cs, opened),
           Cardinality(cs \cup cleanups \cup posted) <= MaxConn,
           Cardinality(cs \ opened) <= MaxHandshakes
    PROVE  /\ acceptPending' \in BOOLEAN /\ retryPending' \in BOOLEAN
           /\ acceptPending' # retryPending'
           /\ Cardinality(cs \cup cleanups \cup posted) + One(acceptPending') <= MaxConn
           /\ Cardinality(cs \ opened) + One(acceptPending') <= MaxHandshakes
<1>1. IsFiniteSet(cleanups) /\ IsFiniteSet(posted)
  BY DEF TypeOK
<1>2. /\ IsFiniteSet(cs \cup cleanups)
      /\ Cardinality(cs \cup cleanups) \in Nat
      /\ Cardinality(cs \cup cleanups) <= Cardinality(cs) + Cardinality(cleanups)
  BY <1>1, CardUnion
<1>3. /\ Cardinality((cs \cup cleanups) \cup posted) \in Nat
      /\ Cardinality((cs \cup cleanups) \cup posted)
            <= Cardinality(cs \cup cleanups) + Cardinality(posted)
  BY <1>1, <1>2, CardUnion
<1>4. Cardinality(cs) \in Nat /\ Cardinality(cleanups) \in Nat /\ Cardinality(posted) \in Nat
  BY <1>1, FS_CardinalityType
<1>5. Cardinality(cs \ opened) \in Nat
  <2>1. cs \ opened \subseteq cs
    OBVIOUS
  <2>2. QED
    BY <2>1, CardMonotone
<1>6. pendingCleanup = Cardinality(cleanups) + Cardinality(posted)
  BY DEF CleanupsCounted
<1>7. MaxConn \in Nat /\ MaxHandshakes \in Nat
  BY AdmissionAssumption
<1>8. CASE ~Limited(cs, opened) /\ acceptPending' = TRUE /\ retryPending' = FALSE
  <2>1. One(acceptPending') = 1
    BY <1>8 DEF One
  <2>2. /\ Cardinality(cs) + pendingCleanup < MaxConn
        /\ Cardinality(cs \ opened) < MaxHandshakes
    BY <1>4, <1>5, <1>6, <1>7, <1>8 DEF Limited
  <2>3. /\ Cardinality(cs \cup cleanups \cup posted) + One(acceptPending') <= MaxConn
        /\ Cardinality(cs \ opened) + One(acceptPending') <= MaxHandshakes
    BY <2>1, <2>2, <1>2, <1>3, <1>4, <1>5, <1>6, <1>7
  <2>4. QED
    BY <1>8, <2>3
<1>9. CASE RetryAccept
  <2>1. acceptPending' = FALSE /\ retryPending' = TRUE
    BY <1>9 DEF RetryAccept
  <2>2. One(acceptPending') = 0
    BY <2>1 DEF One
  <2>3. /\ Cardinality(cs \cup cleanups \cup posted) + One(acceptPending') <= MaxConn
        /\ Cardinality(cs \ opened) + One(acceptPending') <= MaxHandshakes
    BY <2>2, <1>3, <1>5, <1>7
  <2>4. QED
    BY <2>1, <2>3
<1>10. QED
  BY <1>8, <1>9 DEF AcceptNext

(* A new connection takes the place that the pending accept kept for it. *)
LEMMA Admitted ==
    ASSUME IInv, acceptPending, NEW c
    PROVE  /\ Cardinality((conns \cup {c}) \cup cleanups \cup posted) <= MaxConn
           /\ Cardinality((conns \cup {c}) \ opened) <= MaxHandshakes
<1>1. TypeOK /\ OwnersBounded /\ HandshakesBounded
  BY DEF IInv
<1>2. /\ IsFiniteSet(Owners) /\ Cardinality(Owners) \in Nat
      /\ IsFiniteSet(conns \ opened) /\ Cardinality(conns \ opened) \in Nat
  BY <1>1, Sizes
<1>3. Cardinality(Owners) + 1 <= MaxConn /\ Cardinality(conns \ opened) + 1 <= MaxHandshakes
  BY <1>1 DEF OwnersBounded, HandshakesBounded, One
<1>4. /\ (conns \cup {c}) \cup cleanups \cup posted \subseteq Owners \cup {c}
      /\ (conns \cup {c}) \ opened \subseteq (conns \ opened) \cup {c}
  BY DEF Owners
<1>5. /\ IsFiniteSet(Owners \cup {c})
      /\ Cardinality(Owners \cup {c}) \in Nat
      /\ Cardinality(Owners \cup {c}) <= Cardinality(Owners) + 1
      /\ IsFiniteSet((conns \ opened) \cup {c})
      /\ Cardinality((conns \ opened) \cup {c}) \in Nat
      /\ Cardinality((conns \ opened) \cup {c}) <= Cardinality(conns \ opened) + 1
  BY <1>2, CardAdd
<1>6. /\ Cardinality((conns \cup {c}) \cup cleanups \cup posted) \in Nat
      /\ Cardinality((conns \cup {c}) \cup cleanups \cup posted) <= Cardinality(Owners \cup {c})
      /\ Cardinality((conns \cup {c}) \ opened) \in Nat
      /\ Cardinality((conns \cup {c}) \ opened) <= Cardinality((conns \ opened) \cup {c})
  BY <1>4, <1>5, CardMonotone
<1>7. MaxConn \in Nat /\ MaxHandshakes \in Nat
  BY AdmissionAssumption
<1>8. QED
  BY <1>2, <1>3, <1>5, <1>6, <1>7

(* Steps that add no owner, no handshake and no accept keep the bounds. *)
LEMMA Shrinks ==
    ASSUME IInv, Owners' \subseteq Owners, (conns \ opened)' \subseteq conns \ opened,
           acceptPending' \in {FALSE, acceptPending}
    PROVE  OwnersBounded' /\ HandshakesBounded'
<1>1. TypeOK /\ OwnersBounded /\ HandshakesBounded
  BY DEF IInv
<1>2. /\ IsFiniteSet(Owners) /\ IsFiniteSet(conns \ opened)
      /\ Cardinality(Owners) \in Nat /\ Cardinality(conns \ opened) \in Nat
  BY <1>1, Sizes
<1>3. /\ Cardinality(Owners') \in Nat /\ Cardinality(Owners') <= Cardinality(Owners)
      /\ Cardinality((conns \ opened)') \in Nat
      /\ Cardinality((conns \ opened)') <= Cardinality(conns \ opened)
  BY <1>2, CardMonotone
<1>4. /\ One(acceptPending') \in 0..1 /\ One(acceptPending) \in 0..1
      /\ One(acceptPending') <= One(acceptPending)
  <2>1. CASE acceptPending' = FALSE
    BY <2>1 DEF One
  <2>2. CASE acceptPending' = acceptPending
    BY <2>2 DEF One
  <2>3. QED
    BY <2>1, <2>2
<1>5. MaxConn \in Nat /\ MaxHandshakes \in Nat
  BY AdmissionAssumption
<1>6. QED
  BY <1>1, <1>2, <1>3, <1>4, <1>5 DEF OwnersBounded, HandshakesBounded

-----------------------------------------------------------------------------
(* The invariant, action by action. *)

LEMMA InitInv == Init => IInv
<1> SUFFICES ASSUME Init PROVE IInv
  OBVIOUS
<1>1. IsFiniteSet({}) /\ Cardinality({}) = 0
  BY FS_EmptySet
<1>2. TypeOK
  <2>1. 0 \in 0..Workers /\ 0 \in 0..AppCapacity /\ 0 \in Nat
    BY AdmissionAssumption
  <2>2. QED
    BY <1>1, <2>1 DEF Init, TypeOK
<1>3. CleanupsCounted
  BY <1>1 DEF Init, CleanupsCounted
<1>4. Owners = {} /\ conns \ opened = {}
  BY DEF Init, Owners
<1>5. One(acceptPending) = 1
  BY DEF Init, One
<1>6. OwnersBounded /\ HandshakesBounded
  <2>1. Cardinality(Owners) = 0 /\ Cardinality(conns \ opened) = 0
    BY <1>1, <1>4
  <2>2. QED
    BY <2>1, <1>5, AdmissionAssumption DEF OwnersBounded, HandshakesBounded
<1>7. AcceptorLives /\ FarewellLast
  BY DEF Init, AcceptorLives, FarewellLast
<1>8. QED
  BY <1>2, <1>3, <1>6, <1>7 DEF IInv

LEMMA AcceptedInv == ASSUME IInv, NEW c \in Conn, Accepted(c) PROVE IInv'
<1>1. TypeOK /\ CleanupsCounted
  BY DEF IInv
<1>2. /\ acceptPending /\ c \in Unused
      /\ conns' = conns \cup {c} /\ alive' = alive \cup {c}
      /\ AcceptNext(conns', opened)
      /\ UNCHANGED <<opened, pendingCleanup, stop, cleanups, posted, others>>
  BY DEF Accepted
<1>3. IsFiniteSet(conns')
  BY <1>1, <1>2, CardAdd DEF TypeOK
<1>4. /\ Cardinality(conns' \cup cleanups \cup posted) <= MaxConn
      /\ Cardinality(conns' \ opened) <= MaxHandshakes
  BY <1>2, Admitted
<1>5. /\ acceptPending' \in BOOLEAN /\ retryPending' \in BOOLEAN
      /\ acceptPending' # retryPending'
      /\ Cardinality(conns' \cup cleanups \cup posted) + One(acceptPending') <= MaxConn
      /\ Cardinality(conns' \ opened) + One(acceptPending') <= MaxHandshakes
  BY <1>1, <1>2, <1>3, <1>4, Looked
<1>6. TypeOK'
  BY <1>1, <1>2, <1>3, <1>5 DEF TypeOK, others
<1>7. CleanupsCounted'
  BY <1>1, <1>2 DEF CleanupsCounted, Unused
<1>8. OwnersBounded' /\ HandshakesBounded'
  BY <1>2, <1>5 DEF OwnersBounded, HandshakesBounded, Owners
<1>9. AcceptorLives' /\ FarewellLast'
  BY <1>2, <1>5 DEF AcceptorLives, FarewellLast, others, IInv
<1>10. QED
  BY <1>6, <1>7, <1>8, <1>9 DEF IInv

LEMMA AcceptFailedInv == ASSUME IInv, AcceptFailed PROVE IInv'
<1>1. TypeOK /\ CleanupsCounted
  BY DEF IInv
<1>2. /\ acceptPending /\ acceptPending' = FALSE /\ retryPending' = TRUE
      /\ UNCHANGED <<opened, pendingCleanup, stop, cleanups, posted, others>>
  BY DEF AcceptFailed, RetryAccept
<1>3. AcceptorLives' /\ FarewellLast'
  BY <1>2 DEF AcceptorLives, FarewellLast, others, IInv
<1>4. CASE UNCHANGED <<conns, alive>>
  <2>1. TypeOK' /\ CleanupsCounted'
    BY <1>1, <1>2, <1>4 DEF TypeOK, CleanupsCounted, others
  <2>2. OwnersBounded' /\ HandshakesBounded'
    BY <1>2, <1>4, Shrinks DEF Owners
  <2>3. QED
    BY <1>3, <2>1, <2>2 DEF IInv
<1>5. ASSUME NEW c \in Unused, conns' = conns \cup {c}, alive' = alive \cup {c}
      PROVE  IInv'
  <2>1. IsFiniteSet(conns')
    BY <1>1, <1>5, CardAdd DEF TypeOK
  <2>2. TypeOK'
    BY <1>1, <1>2, <1>5, <2>1 DEF TypeOK, Unused, others
  <2>3. CleanupsCounted'
    BY <1>1, <1>2, <1>5 DEF CleanupsCounted, Unused
  <2>4. /\ Cardinality(conns' \cup cleanups \cup posted) <= MaxConn
        /\ Cardinality(conns' \ opened) <= MaxHandshakes
    BY <1>2, <1>5, Admitted
  <2>5. Cardinality(Owners') \in Nat /\ Cardinality((conns \ opened)') \in Nat
    <3>1. /\ IsFiniteSet(Owners)' /\ Cardinality(Owners)' \in Nat
          /\ Cardinality(conns \ opened)' \in Nat
      <4>1. IsFiniteSet(cleanups') /\ IsFiniteSet(posted')
        BY <2>2 DEF TypeOK
      <4>2. conns' \ opened' \subseteq conns'
        OBVIOUS
      <4>3. QED
        BY <2>1, <4>1, <4>2, CardUnion, CardMonotone DEF Owners
    <3>2. QED
      BY <3>1
  <2>6. One(acceptPending') = 0
    BY <1>2 DEF One
  <2>7. OwnersBounded' /\ HandshakesBounded'
    BY <1>2, <2>4, <2>5, <2>6 DEF OwnersBounded, HandshakesBounded, Owners
  <2>8. QED
    BY <1>3, <2>2, <2>3, <2>7 DEF IInv
<1>6. QED
  BY <1>4, <1>5 DEF AcceptFailed

LEMMA AcceptStoppedInv == ASSUME IInv, AcceptStopped PROVE IInv'
<1>1. TypeOK' /\ CleanupsCounted'
  BY DEF IInv, AcceptStopped, TypeOK, CleanupsCounted, others
<1>2. OwnersBounded' /\ HandshakesBounded'
  BY Shrinks DEF AcceptStopped, Owners
<1>3. AcceptorLives' /\ FarewellLast'
  BY DEF IInv, AcceptStopped, AcceptorLives, FarewellLast, others
<1>4. QED
  BY <1>1, <1>2, <1>3 DEF IInv

LEMMA RetryTimerInv == ASSUME IInv, RetryTimer PROVE IInv'
<1>1. TypeOK /\ CleanupsCounted /\ OwnersBounded /\ HandshakesBounded /\ AcceptorLives
  BY DEF IInv
<1>2. /\ retryPending
      /\ UNCHANGED <<conns, alive, opened, pendingCleanup, stop, cleanups, posted, others>>
  BY DEF RetryTimer
<1>3. CleanupsCounted' /\ FarewellLast'
  BY <1>1, <1>2 DEF IInv, CleanupsCounted, FarewellLast, others
<1>4. CASE stop # "no" \/ acceptPending
  <2>1. retryPending' = FALSE /\ acceptPending' = acceptPending
    BY <1>4 DEF RetryTimer
  <2>2. TypeOK'
    BY <1>1, <1>2, <2>1 DEF TypeOK, others
  <2>3. OwnersBounded' /\ HandshakesBounded'
    BY <1>2, <2>1, Shrinks DEF Owners
  <2>4. AcceptorLives'
    BY <1>1, <1>2, <1>4, <2>1 DEF AcceptorLives, TypeOK
  <2>5. QED
    BY <1>3, <2>2, <2>3, <2>4 DEF IInv
<1>5. CASE stop = "no" /\ ~acceptPending
  <2>1. AcceptNext(conns, opened)
    BY <1>5 DEF RetryTimer
  <2>2. Cardinality(Owners) <= MaxConn /\ Cardinality(conns \ opened) <= MaxHandshakes
    <3>1. One(acceptPending) = 0
      BY <1>5 DEF One
    <3>2. QED
      BY <1>1, <3>1, Sizes DEF OwnersBounded, HandshakesBounded
  <2>3. /\ acceptPending' \in BOOLEAN /\ retryPending' \in BOOLEAN
        /\ acceptPending' # retryPending'
        /\ Cardinality(Owners) + One(acceptPending') <= MaxConn
        /\ Cardinality(conns \ opened) + One(acceptPending') <= MaxHandshakes
    <3>1. IsFiniteSet(conns)
      BY <1>1 DEF TypeOK
    <3>2. QED
      BY <1>1, <2>1, <2>2, <3>1, Looked DEF Owners
  <2>4. TypeOK'
    BY <1>1, <1>2, <2>3 DEF TypeOK, others
  <2>5. OwnersBounded' /\ HandshakesBounded' /\ AcceptorLives'
    BY <1>2, <2>3 DEF OwnersBounded, HandshakesBounded, AcceptorLives, Owners
  <2>6. QED
    BY <1>3, <2>4, <2>5 DEF IInv
<1>6. QED
  BY <1>1, <1>4, <1>5 DEF TypeOK

LEMMA OnOpenInv == ASSUME IInv, NEW c \in Conn, OnOpen(c) PROVE IInv'
<1>1. TypeOK' /\ CleanupsCounted'
  BY DEF IInv, OnOpen, TypeOK, CleanupsCounted, accepting, others
<1>2. OwnersBounded' /\ HandshakesBounded'
  BY Shrinks DEF OnOpen, Owners, accepting
<1>3. AcceptorLives' /\ FarewellLast'
  BY DEF IInv, OnOpen, AcceptorLives, FarewellLast, accepting, others
<1>4. QED
  BY <1>1, <1>2, <1>3 DEF IInv

(* Closing sessions adds no owner: the cleanups belong to connections. *)
LEMMA CloseConnectionInv == ASSUME IInv, NEW c \in Conn, CloseConnection(c) PROVE IInv'
<1>1. TypeOK /\ CleanupsCounted
  BY DEF IInv
<1>2. /\ QueueSessionCleanup({c})
      /\ {c} \subseteq conns
      /\ UNCHANGED <<conns, opened, accepting, stop, posted, others>>
  BY <1>1 DEF CloseConnection, TypeOK
<1>3. /\ alive' = alive \ {c}
      /\ cleanups' \cup conns = cleanups \cup conns
      /\ cleanups' \in SUBSET Conn /\ IsFiniteSet(cleanups')
      /\ pendingCleanup' \in Nat
      /\ CleanupsCounted'
  BY <1>1, <1>2, Queued
<1>4. TypeOK'
  BY <1>1, <1>2, <1>3 DEF TypeOK, accepting, others
<1>5. OwnersBounded' /\ HandshakesBounded'
  BY <1>2, <1>3, Shrinks DEF Owners, accepting
<1>6. AcceptorLives' /\ FarewellLast'
  BY <1>2 DEF IInv, AcceptorLives, FarewellLast, accepting, others
<1>7. QED
  BY <1>3, <1>4, <1>5, <1>6 DEF IInv

LEMMA FinishConnectionInv == ASSUME IInv, NEW c \in Conn, FinishConnection(c) PROVE IInv'
<1>1. TypeOK /\ CleanupsCounted
  BY DEF IInv
<1>2. /\ QueueSessionCleanup({c})
      /\ {c} \subseteq conns
      /\ conns' = conns \ {c} /\ opened' = opened \ {c}
      /\ UNCHANGED <<accepting, stop, posted, others>>
  BY DEF FinishConnection
<1>3. /\ alive' = alive \ {c}
      /\ cleanups' \cup conns = cleanups \cup conns
      /\ cleanups' \in SUBSET Conn /\ IsFiniteSet(cleanups')
      /\ pendingCleanup' \in Nat
      /\ CleanupsCounted'
  BY <1>1, <1>2, Queued
<1>4. TypeOK'
  <2>1. IsFiniteSet(conns')
    BY <1>1, <1>2, CardMonotone DEF TypeOK
  <2>2. QED
    BY <1>1, <1>2, <1>3, <2>1 DEF TypeOK, accepting, others
<1>5. OwnersBounded' /\ HandshakesBounded'
  <2>1. Owners' \subseteq Owners
    BY <1>2, <1>3 DEF Owners
  <2>2. (conns \ opened)' \subseteq conns \ opened
    BY <1>2
  <2>3. QED
    BY <1>2, <2>1, <2>2, Shrinks DEF accepting
<1>6. AcceptorLives' /\ FarewellLast'
  BY <1>2 DEF IInv, AcceptorLives, FarewellLast, accepting, others
<1>7. QED
  BY <1>3, <1>4, <1>5, <1>6 DEF IInv

LEMMA StopPostedInv == ASSUME IInv, StopPosted PROVE IInv'
<1>1. TypeOK /\ CleanupsCounted
  BY DEF IInv
<1>2. /\ QueueSessionCleanup(conns)
      /\ stop' = "done" /\ farewell' = TRUE
      /\ UNCHANGED <<conns, opened, accepting, posted, hashed, prune, plain>>
  BY DEF StopPosted
<1>3. /\ alive' = alive \ conns
      /\ cleanups' \cup conns = cleanups \cup conns
      /\ cleanups' \in SUBSET Conn /\ IsFiniteSet(cleanups')
      /\ pendingCleanup' \in Nat
      /\ CleanupsCounted'
  BY <1>1, <1>2, Queued
<1>4. TypeOK'
  BY <1>1, <1>2, <1>3 DEF TypeOK, accepting
<1>5. OwnersBounded' /\ HandshakesBounded'
  BY <1>2, <1>3, Shrinks DEF Owners, accepting
<1>6. AcceptorLives' /\ FarewellLast'
  BY <1>2 DEF AcceptorLives, FarewellLast
<1>7. QED
  BY <1>3, <1>4, <1>5, <1>6 DEF IInv

LEMMA CleanupInv == ASSUME IInv, NEW c \in Conn, Cleanup(c) PROVE IInv'
<1>1. TypeOK /\ CleanupsCounted
  BY DEF IInv
<1>2. /\ c \in cleanups /\ cleanups' = cleanups \ {c} /\ posted' = posted \cup {c}
      /\ UNCHANGED <<conns, alive, opened, pendingCleanup, accepting, stop, others>>
  BY DEF Cleanup
<1>3. c \notin posted
  BY <1>1, <1>2 DEF CleanupsCounted
<1>4. /\ IsFiniteSet(cleanups') /\ Cardinality(cleanups') = Cardinality(cleanups) - 1
      /\ IsFiniteSet(posted') /\ Cardinality(posted') = Cardinality(posted) + 1
  <2>1. IsFiniteSet(cleanups) /\ IsFiniteSet(posted)
    BY <1>1 DEF TypeOK
  <2>2. /\ IsFiniteSet(cleanups \ {c})
        /\ Cardinality(cleanups \ {c})
              = IF c \in cleanups THEN Cardinality(cleanups) - 1 ELSE Cardinality(cleanups)
    BY <2>1, FS_RemoveElement
  <2>3. /\ IsFiniteSet(posted \cup {c})
        /\ Cardinality(posted \cup {c})
              = IF c \in posted THEN Cardinality(posted) ELSE Cardinality(posted) + 1
    BY <2>1, FS_AddElement
  <2>4. QED
    BY <1>2, <1>3, <2>2, <2>3
<1>5. TypeOK'
  BY <1>1, <1>2, <1>4 DEF TypeOK, accepting, others
<1>6. CleanupsCounted'
  <2>1. pendingCleanup' = Cardinality(cleanups') + Cardinality(posted')
    BY <1>1, <1>2, <1>4, Sizes DEF CleanupsCounted
  <2>2. QED
    BY <1>1, <1>2, <2>1 DEF CleanupsCounted
<1>7. OwnersBounded' /\ HandshakesBounded'
  BY <1>2, Shrinks DEF Owners, accepting
<1>8. AcceptorLives' /\ FarewellLast'
  BY <1>2 DEF IInv, AcceptorLives, FarewellLast, accepting, others
<1>9. QED
  BY <1>5, <1>6, <1>7, <1>8 DEF IInv

LEMMA CleanupPostedInv == ASSUME IInv, NEW c \in Conn, CleanupPosted(c) PROVE IInv'
<1>1. TypeOK /\ CleanupsCounted
  BY DEF IInv
<1>2. /\ c \in posted /\ posted' = posted \ {c} /\ pendingCleanup' = pendingCleanup - 1
      /\ UNCHANGED <<conns, alive, opened, accepting, stop, cleanups, others>>
  BY DEF CleanupPosted
<1>3. /\ IsFiniteSet(posted') /\ Cardinality(posted') = Cardinality(posted) - 1
      /\ Cardinality(posted') \in Nat
  <2>1. IsFiniteSet(posted)
    BY <1>1 DEF TypeOK
  <2>2. /\ IsFiniteSet(posted \ {c})
        /\ Cardinality(posted \ {c})
              = IF c \in posted THEN Cardinality(posted) - 1 ELSE Cardinality(posted)
    BY <2>1, FS_RemoveElement
  <2>3. Cardinality(posted \ {c}) \in Nat
    BY <2>2, FS_CardinalityType
  <2>4. QED
    BY <1>2, <2>2, <2>3
<1>4. pendingCleanup' = Cardinality(cleanups') + Cardinality(posted')
  BY <1>1, <1>2, <1>3, Sizes DEF CleanupsCounted
<1>5. pendingCleanup' \in Nat
  BY <1>1, <1>2, <1>3, <1>4, Sizes
<1>6. TypeOK'
  BY <1>1, <1>2, <1>3, <1>5 DEF TypeOK, accepting, others
<1>7. CleanupsCounted'
  BY <1>1, <1>2, <1>4 DEF CleanupsCounted
<1>8. OwnersBounded' /\ HandshakesBounded'
  BY <1>2, Shrinks DEF Owners, accepting
<1>9. AcceptorLives' /\ FarewellLast'
  BY <1>2 DEF IInv, AcceptorLives, FarewellLast, accepting, others
<1>10. QED
  BY <1>6, <1>7, <1>8, <1>9 DEF IInv

LEMMA StopInv == ASSUME IInv, Stop PROVE IInv'
<1>1. TypeOK' /\ CleanupsCounted'
  BY DEF IInv, Stop, TypeOK, CleanupsCounted, accepting, others
<1>2. OwnersBounded' /\ HandshakesBounded'
  BY Shrinks DEF Stop, Owners, accepting
<1>3. AcceptorLives' /\ FarewellLast'
  BY DEF IInv, Stop, AcceptorLives, FarewellLast, accepting, others
<1>4. QED
  BY <1>1, <1>2, <1>3 DEF IInv

LEMMA OtherJobInv == ASSUME IInv, OtherJob PROVE IInv'
<1>1. TypeOK /\ CleanupsCounted
  BY DEF IInv
<1>2. UNCHANGED <<conns, alive, opened, pendingCleanup, accepting, stop, cleanups, posted>>
  BY DEF OtherJob
<1>3. /\ plain' \in 0..AppCapacity
      /\ hashed' \in 0..Workers
      /\ prune' \in {"due", "queued", "done"}
      /\ farewell' \in BOOLEAN
      /\ farewell' => farewell
  <2>1. CASE SubmitPlain
    <3>1. plain < AppCapacity
      <4>1. One(prune = "queued") \in 0..1 /\ One(farewell) \in 0..1
        BY DEF One
      <4>2. hashed \in Nat /\ plain \in Nat /\ Cardinality(cleanups) \in Nat
        BY <1>1, Sizes DEF TypeOK
      <4>3. QED
        BY <2>1, <4>1, <4>2, AdmissionAssumption DEF SubmitPlain, Jobs
    <3>2. QED
      BY <1>1, <2>1, <3>1, AdmissionAssumption DEF SubmitPlain, TypeOK
  <2>2. CASE RunPlain
    BY <1>1, <2>2, AdmissionAssumption DEF RunPlain, TypeOK
  <2>3. CASE SubmitHashed
    BY <1>1, <2>3, AdmissionAssumption DEF SubmitHashed, TypeOK
  <2>4. CASE RunHashed
    BY <1>1, <2>4, AdmissionAssumption DEF RunHashed, TypeOK
  <2>5. CASE SubmitPrune
    BY <1>1, <2>5 DEF SubmitPrune, TypeOK
  <2>6. CASE RunPrune
    BY <1>1, <2>6 DEF RunPrune, TypeOK
  <2>7. CASE RunFarewell
    BY <1>1, <2>7 DEF RunFarewell, TypeOK
  <2>8. QED
    BY <2>1, <2>2, <2>3, <2>4, <2>5, <2>6, <2>7 DEF OtherJob
<1>4. TypeOK' /\ CleanupsCounted'
  BY <1>1, <1>2, <1>3 DEF TypeOK, CleanupsCounted, accepting
<1>5. OwnersBounded' /\ HandshakesBounded'
  BY <1>2, Shrinks DEF Owners, accepting
<1>6. AcceptorLives' /\ FarewellLast'
  BY <1>2, <1>3 DEF IInv, AcceptorLives, FarewellLast, accepting
<1>7. QED
  BY <1>4, <1>5, <1>6 DEF IInv

LEMMA NextInv == IInv /\ [Next]_vars => IInv'
<1> SUFFICES ASSUME IInv, [Next]_vars PROVE IInv'
  OBVIOUS
<1>1. ASSUME NEW c \in Conn, Accepted(c) PROVE IInv'
  BY <1>1, AcceptedInv
<1>2. ASSUME NEW c \in Conn, OnOpen(c) PROVE IInv'
  BY <1>2, OnOpenInv
<1>3. ASSUME NEW c \in Conn, CloseConnection(c) PROVE IInv'
  BY <1>3, CloseConnectionInv
<1>4. ASSUME NEW c \in Conn, FinishConnection(c) PROVE IInv'
  BY <1>4, FinishConnectionInv
<1>5. ASSUME NEW c \in Conn, Cleanup(c) PROVE IInv'
  BY <1>5, CleanupInv
<1>6. ASSUME NEW c \in Conn, CleanupPosted(c) PROVE IInv'
  BY <1>6, CleanupPostedInv
<1>7. CASE AcceptFailed \/ AcceptStopped \/ RetryTimer
  BY <1>7, AcceptFailedInv, AcceptStoppedInv, RetryTimerInv
<1>8. CASE Stop \/ StopPosted \/ OtherJob
  BY <1>8, StopInv, StopPostedInv, OtherJobInv
<1>9. CASE UNCHANGED vars
  BY <1>9 DEF IInv, vars, accepting, others, TypeOK, CleanupsCounted, OwnersBounded,
              HandshakesBounded, AcceptorLives, FarewellLast, Owners
<1>10. QED
  BY <1>1, <1>2, <1>3, <1>4, <1>5, <1>6, <1>7, <1>8, <1>9 DEF Next

-----------------------------------------------------------------------------
(* The theorems.                                                           *)

LEMMA Invariance == Spec => []IInv
BY InitInv, NextInv, PTL DEF Spec

(* The variables keep their types: in particular pending_cleanup_ does not  *)
(* underflow, and only registered connections are alive.                    *)
THEOREM TypeCorrect == Spec => []TypeOK
<1>1. IInv => TypeOK
  BY DEF IInv
<1>2. QED
  BY <1>1, Invariance, PTL

(* However many clients come and go, one more cleanup, completion, prune or *)
(* farewell job always finds room in the application worker's queue.        *)
THEOREM ReserveNeverExhausted == Spec => []ReserveSuffices
BY Enough, Invariance, PTL

(* Connections and sessions being cleaned up never exceed the limit that    *)
(* AcceptNext checks, nor handshakes theirs, an accept under way included.  *)
THEOREM LimitsKept == Spec => []ConnectionsBounded
<1>1. IInv => ConnectionsBounded
  BY DEF IInv, ConnectionsBounded
<1>2. QED
  BY <1>1, Invariance, PTL

(* pending_cleanup_ counts each closed session once, from CloseConnection   *)
(* or FinishConnection until the application worker's cleanup was posted    *)
(* back, so the admission check of AcceptNext reads a true total.           *)
THEOREM CleanupCountExact == Spec => []CleanupsCounted
<1>1. IInv => CleanupsCounted
  BY DEF IInv
<1>2. QED
  BY <1>1, Invariance, PTL

(* Until Stop the server accepts, or its retry timer is armed: no order of  *)
(* failed accepts, full limits and retries ends the accept loop.            *)
THEOREM AcceptLoopLives == Spec => []AcceptorLives
<1>1. IInv => AcceptorLives
  BY DEF IInv
<1>2. QED
  BY <1>1, Invariance, PTL
=============================================================================
