------------------------ MODULE DeviceAuthLimiterProofs ------------------------
(***************************************************************************)
(* The reservations, the budgets and the cooldowns of DeviceAuthLimiter,   *)
(* proved for any keys, number of threads, limits and times, and without   *)
(* the bounds of the runs.  BucketInv is what is true of one bucket alone; *)
(* the lemmas show that each of its transformations preserves it.          *)
(***************************************************************************)
EXTENDS MCDeviceAuthLimiter, FiniteSetTheorems, TLAPS

Available(b, k) == IF b.count < Limit(k) THEN Limit(k) - b.count ELSE 1

BucketInv(b, k) ==
    /\ b \in Bucket
    /\ b.count <= Limit(k)
    /\ b.pending <= Available(b, k)
    /\ b.blocked <= b.expires
    /\ b.blocked > now => b.count = Limit(k) /\ b.pending = 0

IInv ==
    /\ TypeOK
    /\ ReservationsExact
    /\ \A k \in Key : BucketInv(bucket[k], k)

-----------------------------------------------------------------------------
(* Both limits are positive (the constructor throws otherwise). *)
LEMMA LimitPositive == \A k : Limit(k) \in Nat /\ Limit(k) >= 1
BY LimiterAssumption, SMT DEF Limit

(* A key without entry satisfies the invariant of a bucket. *)
LEMMA EmptyBucket ==
    ASSUME now \in Nat, NEW k
    PROVE  BucketInv(NoBucket, k)
BY LimitPositive, SMT DEF BucketInv, NoBucket, Bucket, Available

(* ResetExpired keeps it, and leaves the reservations and the generation alone. *)
LEMMA ResetKeeps ==
    ASSUME now \in Nat, NEW k, NEW b, BucketInv(b, k)
    PROVE  /\ BucketInv(ResetExpired(b), k)
           /\ ResetExpired(b).pending = b.pending
           /\ ResetExpired(b).generation = b.generation
<1>1. Window \in Nat
    BY LimiterAssumption
<1>2. b \in Bucket
    BY DEF BucketInv
<1>3. CASE b.expires > now
    BY <1>3 DEF ResetExpired
<1>4. CASE ~(b.expires > now)
    <2> DEFINE r == [b EXCEPT !.count = 0, !.expires = now + Window, !.blocked = 0, !.backoff = 0]
    <2>1. ResetExpired(b) = r
        BY <1>4 DEF ResetExpired
    <2>2. /\ r \in Bucket
          /\ r.count = 0 /\ r.pending = b.pending /\ r.blocked = 0
          /\ r.generation = b.generation
          /\ r.expires \in Nat
        <3>1. now + Window \in Nat
            BY <1>1, SMT
        <3>2. r \in Bucket
            BY <1>2, <3>1, Zenon DEF Bucket
        <3>3. r.count = 0 /\ r.blocked = 0 /\ r.expires = now + Window
            BY <1>2, Zenon DEF Bucket
        <3>4. r.pending = b.pending /\ r.generation = b.generation
            BY <1>2, Zenon DEF Bucket
        <3> QED
            BY <3>1, <3>2, <3>3, <3>4
    <2>3. b.pending <= Limit(k)
        BY <1>2, LimitPositive, SMT DEF BucketInv, Bucket, Available
    <2> HIDE DEF r
    <2>4. BucketInv(r, k)
        BY <2>2, <2>3, LimitPositive, SMT DEF BucketInv, Available
    <2> QED
        BY <2>1, <2>2, <2>4
<1> QED
    BY <1>3, <1>4

(* A reservation that retry() allows stays within the budget. *)
LEMMA ReserveKeeps ==
    ASSUME now \in Nat, NEW k, NEW b, BucketInv(b, k), ~Retry(b, k)
    PROVE  BucketInv([b EXCEPT !.pending = @ + 1], k)
<1> DEFINE r == [b EXCEPT !.pending = @ + 1]
<1>1. b \in Bucket
    BY DEF BucketInv
<1>2. /\ r \in Bucket
      /\ r.count = b.count /\ r.pending = b.pending + 1
      /\ r.blocked = b.blocked /\ r.expires = b.expires
    BY <1>1, SMT DEF Bucket
<1>3. b.count \in Nat /\ b.pending \in Nat /\ b.blocked \in Nat
    BY <1>1 DEF Bucket
<1>4. ~(b.blocked > now) /\ b.pending + 1 <= Available(b, k)
    BY <1>3, LimitPositive, SMT DEF Retry, Available
<1> HIDE DEF r
<1>5. BucketInv(r, k)
    BY <1>2, <1>3, <1>4, SMT DEF BucketInv, Available
<1> QED
    BY <1>5 DEF r

(* Giving a reservation back keeps the invariant of a bucket. *)
LEMMA ReleaseKeeps ==
    ASSUME now \in Nat, NEW k, NEW b, BucketInv(b, k), b.pending >= 1
    PROVE  /\ BucketInv([b EXCEPT !.pending = @ - 1], k)
           /\ [b EXCEPT !.pending = @ - 1].pending = b.pending - 1
           /\ [b EXCEPT !.pending = @ - 1].pending + 1 <= Available([b EXCEPT !.pending = @ - 1], k)
<1> DEFINE r == [b EXCEPT !.pending = @ - 1]
<1>1. b \in Bucket
    BY DEF BucketInv
<1>2. /\ r \in Bucket
      /\ r.count = b.count /\ r.pending = b.pending - 1
      /\ r.blocked = b.blocked /\ r.expires = b.expires
    BY <1>1, SMT DEF Bucket
<1>3. b.count \in Nat /\ b.pending \in Nat /\ b.blocked \in Nat
    BY <1>1 DEF Bucket
<1> HIDE DEF r
<1>4. BucketInv(r, k) /\ r.pending + 1 <= Available(r, k)
    BY <1>2, <1>3, LimitPositive, SMT DEF BucketInv, Available
<1> QED
    BY <1>2, <1>4 DEF r

(* The failure that spends a budget finds no other check under way. *)
LEMMA RecordKeeps ==
    ASSUME now \in Nat, NEW k, NEW b, BucketInv(b, k), b.pending + 1 <= Available(b, k)
    PROVE  /\ BucketInv(Record(b, k), k)
           /\ Record(b, k).pending = b.pending
<1> DEFINE failed == IF b.count < Limit(k) THEN b.count + 1 ELSE b.count
           ends == now + Backoff(b) + IF Exponential THEN Recovery ELSE 0
           r == [b EXCEPT !.count = failed]
           c == [b EXCEPT !.count = failed, !.backoff = Backoff(b),
                          !.blocked = now + Backoff(b), !.expires = ends]
<1>1. b \in Bucket
    BY DEF BucketInv
<1>2. b.count \in Nat /\ b.pending \in Nat /\ b.blocked \in Nat /\ b.backoff \in Nat
    BY <1>1 DEF Bucket
<1>3. Backoff(b) \in Nat
    BY <1>2, LimiterAssumption, SMT DEF Backoff
<1>4. ends \in Nat /\ now + Backoff(b) \in Nat /\ now + Backoff(b) <= ends
    BY <1>3, LimiterAssumption, SMT
<1>5. failed \in Nat /\ failed <= Limit(k)
    BY <1>2, LimitPositive, SMT DEF BucketInv
<1>6. CASE failed < Limit(k)
    <2>1. Record(b, k) = r
        BY <1>6 DEF Record
    <2>2. /\ r \in Bucket
          /\ r.count = failed /\ r.pending = b.pending
          /\ r.blocked = b.blocked /\ r.expires = b.expires
        BY <1>1, <1>5, SMT DEF Bucket
    <2>3. b.pending <= Limit(k) - failed /\ ~(b.blocked > now)
        BY <1>2, <1>6, LimitPositive, SMT DEF BucketInv, Available
    <2>4. b.blocked <= b.expires
        BY DEF BucketInv
    <2> HIDE DEF r, failed
    <2>5. BucketInv(r, k)
        BY <1>5, <1>6, <2>2, <2>3, <2>4, SMT DEF BucketInv, Available
    <2> QED
        BY <2>1, <2>2, <2>5
<1>7. CASE ~(failed < Limit(k))
    <2>1. Record(b, k) = c
        BY <1>7 DEF Record
    <2>2. failed = Limit(k) /\ b.pending = 0
        BY <1>2, <1>5, <1>7, LimitPositive, SMT DEF Available
    <2> HIDE DEF failed, ends
    <2>3. /\ c \in Bucket
          /\ c.count = failed /\ c.pending = b.pending
          /\ c.blocked = now + Backoff(b) /\ c.expires = ends
        <3>1. c \in Bucket
            BY <1>1, <1>3, <1>4, <1>5, Zenon DEF Bucket
        <3>2. c.count = failed /\ c.pending = b.pending
            BY <1>1, Zenon DEF Bucket
        <3>3. c.blocked = now + Backoff(b) /\ c.expires = ends
            BY <1>1, Zenon DEF Bucket
        <3> QED
            BY <3>1, <3>2, <3>3
    <2> HIDE DEF c
    <2>4. BucketInv(c, k)
        BY <1>4, <1>5, <2>2, <2>3, LimitPositive, SMT DEF BucketInv, Available
    <2> QED
        BY <2>1, <2>3, <2>4
<1> QED
    BY <1>6, <1>7

(* Clearing a bucket in use keeps its reservations. *)
LEMMA ClearKeeps ==
    ASSUME now \in Nat, NEW k, NEW b, BucketInv(b, k), ~(b.blocked > now)
    PROVE  BucketInv(Cleared(b), k) /\ Cleared(b).pending = b.pending
<1> DEFINE e == [b EXCEPT !.generation = @ + 1, !.expires = now]
<1>1. b \in Bucket
    BY DEF BucketInv
<1>2. /\ e \in Bucket
      /\ e.count = b.count /\ e.pending = b.pending
      /\ e.blocked = b.blocked /\ e.expires = now
    <2>1. b.generation + 1 \in Nat
        BY <1>1, SMT DEF Bucket
    <2>2. e \in Bucket
        BY <1>1, <2>1, Zenon DEF Bucket
    <2>3. /\ e.count = b.count /\ e.pending = b.pending
          /\ e.blocked = b.blocked /\ e.expires = now
        BY <1>1, Zenon DEF Bucket
    <2> QED
        BY <2>2, <2>3
<1>3. b.blocked \in Nat
    BY <1>1 DEF Bucket
<1> HIDE DEF e
<1>4. BucketInv(e, k)
    BY <1>2, <1>3, SMT DEF BucketInv, Available
<1>5. BucketInv(ResetExpired(e), k) /\ ResetExpired(e).pending = e.pending
    BY <1>4, ResetKeeps
<1> QED
    BY <1>2, <1>5 DEF Cleared, e

-----------------------------------------------------------------------------
(* Counting the attempts that hold a key. *)
LEMMA HoldersCount ==
    \A k : IsFiniteSet(Holders(k)) /\ Cardinality(Holders(k)) \in Nat
<1> TAKE k
<1>1. IsFiniteSet(Attempt)
    BY LimiterAssumption
<1>2. Holders(k) \subseteq Attempt
    BY DEF Holders
<1>3. IsFiniteSet(Holders(k))
    BY <1>1, <1>2, FS_Subset
<1> QED
    BY <1>3, FS_CardinalityType

(* What an attempt has reserved are keys. *)
LEMMA HeldKeys ==
    ASSUME TypeOK, NEW a \in Attempt
    PROVE  holds[a] \subseteq Key
<1>1. holds[a] \in {{}} \cup {{c[1], c[2]} : c \in Checks}
    BY DEF TypeOK
<1>2. \A c \in Checks : c[1] \in Source /\ c[2] \in Target
    BY LimiterAssumption
<1> QED
    BY <1>1, <1>2 DEF Key

(* A key that is held has a reservation, so that neither a prune nor a clear erases it. *)
LEMMA HeldPending ==
    ASSUME IInv, NEW a \in Attempt, NEW k \in holds[a]
    PROVE  /\ k \in Key /\ k \in entries
           /\ bucket[k].pending >= 1
<1>1. k \in Key /\ k \in entries
    BY HeldKeys DEF IInv, ReservationsExact
<1>2. a \in Holders(k)
    BY DEF Holders
<1>3. Cardinality(Holders(k)) # 0
    BY <1>2, HoldersCount, FS_EmptySet
<1>4. bucket[k].pending = Cardinality(Holders(k))
    BY <1>1 DEF IInv, ReservationsExact
<1>5. Cardinality(Holders(k)) \in Nat
    BY HoldersCount
<1> QED
    BY <1>1, <1>3, <1>4, <1>5, SMT

(* An attempt that reserves is one more holder of its keys. *)
LEMMA HoldersAdd ==
    ASSUME TypeOK, NEW a \in Attempt, NEW ks, holds[a] = {},
           holds' = [holds EXCEPT ![a] = ks], NEW k
    PROVE  Cardinality(Holders(k)') =
               IF k \in ks THEN Cardinality(Holders(k)) + 1 ELSE Cardinality(Holders(k))
<1>1. holds'[a] = ks /\ \A x \in Attempt \ {a} : holds'[x] = holds[x]
    BY DEF TypeOK
<1>2. a \notin Holders(k)
    BY DEF Holders
<1>3. CASE k \in ks
    <2>1. Holders(k)' = Holders(k) \cup {a}
        BY <1>1, <1>3 DEF Holders
    <2>2. Cardinality(Holders(k) \cup {a}) = Cardinality(Holders(k)) + 1
        BY <1>2, HoldersCount, FS_AddElement
    <2> QED
        BY <1>3, <2>1, <2>2
<1>4. CASE k \notin ks
    <2>1. Holders(k)' = Holders(k)
        BY <1>1, <1>4 DEF Holders
    <2> QED
        BY <1>4, <2>1
<1> QED
    BY <1>3, <1>4

(* An attempt that settles is one holder less of its keys. *)
LEMMA HoldersRemove ==
    ASSUME TypeOK, NEW a \in Attempt, holds' = [holds EXCEPT ![a] = {}], NEW k
    PROVE  Cardinality(Holders(k)') =
               IF k \in holds[a] THEN Cardinality(Holders(k)) - 1 ELSE Cardinality(Holders(k))
<1>1. holds'[a] = {} /\ \A x \in Attempt \ {a} : holds'[x] = holds[x]
    BY DEF TypeOK
<1>2. CASE k \in holds[a]
    <2>1. Holders(k)' = Holders(k) \ {a} /\ a \in Holders(k)
        BY <1>1, <1>2 DEF Holders
    <2>2. Cardinality(Holders(k) \ {a}) = Cardinality(Holders(k)) - 1
        BY <2>1, HoldersCount, FS_RemoveElement
    <2> QED
        BY <1>2, <2>1, <2>2
<1>3. CASE k \notin holds[a]
    <2>1. Holders(k)' = Holders(k)
        BY <1>1, <1>3 DEF Holders
    <2> QED
        BY <1>3, <2>1
<1> QED
    BY <1>2, <1>3

-----------------------------------------------------------------------------
(* The prune spares what is reserved, and retry() changes no reservation. *)
LEMMA LookedKeeps ==
    ASSUME IInv, NEW s, NEW t, NEW k \in Key
    PROVE  /\ BucketInv(Looked(s, t)[k], k)
           /\ Looked(s, t)[k].pending = bucket[k].pending
           /\ k \notin Kept => bucket[k].pending = 0
           /\ k \notin Kept /\ k \notin {s, t} => Looked(s, t)[k] = NoBucket
           /\ Kept \subseteq entries
<1> DEFINE b == IF k \in Kept THEN bucket[k] ELSE NoBucket
<1>1. now \in Nat /\ BucketInv(bucket[k], k)
    BY DEF IInv, TypeOK
<1>2. Kept \subseteq entries
    BY DEF Kept
<1>3. bucket[k].pending \in Nat
    BY <1>1 DEF BucketInv, Bucket
<1>4. ASSUME k \notin Kept PROVE bucket[k].pending = 0
    <2>1. CASE k \notin entries
        BY <2>1 DEF IInv, TypeOK, NoBucket
    <2>2. CASE k \in entries
        <3>1. ~(bucket[k].pending > 0)
            BY <1>4, <2>2 DEF Kept
        <3> QED
            BY <1>3, <3>1, SMT
    <2> QED
        BY <2>1, <2>2
<1>5. BucketInv(b, k) /\ b.pending = bucket[k].pending
    <2>1. CASE k \in Kept
        BY <1>1, <2>1
    <2>2. CASE k \notin Kept
        BY <1>1, <1>4, <2>2, EmptyBucket DEF NoBucket
    <2> QED
        BY <2>1, <2>2
<1>6. Looked(s, t)[k] = IF k \in {s, t} THEN ResetExpired(b) ELSE b
    BY DEF Looked
<1>7. k \notin Kept => b = NoBucket
    OBVIOUS
<1> HIDE DEF b
<1>8. BucketInv(ResetExpired(b), k) /\ ResetExpired(b).pending = b.pending
    BY <1>1, <1>5, ResetKeeps
<1>9. BucketInv(Looked(s, t)[k], k) /\ Looked(s, t)[k].pending = bucket[k].pending
    BY <1>5, <1>6, <1>8
<1> QED
    BY <1>2, <1>4, <1>6, <1>7, <1>9

(* The parts of the invariant after a step that takes no time. *)
LEMMA Assemble ==
    ASSUME IInv, now' = now,
           entries' \subseteq Key,
           bucket' = [k \in Key |-> bucket'[k]],
           \A k \in Key : BucketInv(bucket'[k], k),
           \A k \in Key \ entries' : bucket'[k] = NoBucket,
           holds' \in [Attempt -> {{}} \cup {{c[1], c[2]} : c \in Checks}],
           seen' \in [Attempt -> [Key -> Nat]],
           nextCleanup' \in Nat,
           \A k \in Key : bucket'[k].pending = Cardinality(Holders(k)'),
           \A a \in Attempt : holds'[a] \subseteq entries'
    PROVE  IInv'
<1>1. \A k \in Key : bucket'[k] \in Bucket
    BY DEF BucketInv
<1>2. bucket' \in [Key -> Bucket]
    BY <1>1
<1>3. TypeOK'
    BY <1>2 DEF IInv, TypeOK
<1>4. ReservationsExact'
    BY DEF ReservationsExact
<1>5. (\A k \in Key : BucketInv(bucket[k], k))'
    BY DEF BucketInv, Available
<1> QED
    BY <1>3, <1>4, <1>5 DEF IInv

-----------------------------------------------------------------------------
(* A refused check prunes and resets, and keeps the invariant. *)
LEMMA RefuseStep ==
    ASSUME IInv, NEW a \in Attempt, NEW s \in Key, NEW t \in Key, Refuse(a, s, t)
    PROVE  IInv'
<1>1. /\ entries' = Kept
      /\ bucket' = [k \in Key |-> IF k \in Kept THEN Looked(s, t)[k] ELSE NoBucket]
      /\ nextCleanup' = IF now < nextCleanup THEN nextCleanup ELSE now + CleanupPeriod
      /\ holds' = holds /\ seen' = seen /\ now' = now
    BY DEF Refuse, Pruned
<1>2. TypeOK /\ ReservationsExact
    BY DEF IInv
<1>3. Kept \subseteq Key
    BY <1>2 DEF Kept, TypeOK
<1>4. nextCleanup' \in Nat
    BY <1>1, <1>2, LimiterAssumption, SMT DEF TypeOK
<1>5. \A k \in Key : BucketInv(bucket'[k], k) /\ bucket'[k].pending = bucket[k].pending
    <2> TAKE k \in Key
    <2>1. CASE k \in Kept
        BY <1>1, <2>1, LookedKeeps
    <2>2. CASE k \notin Kept
        <3>1. bucket'[k] = NoBucket
            BY <1>1, <2>2
        <3>2. bucket[k].pending = 0
            BY <2>2, LookedKeeps
        <3> QED
            BY <1>2, <3>1, <3>2, EmptyBucket DEF NoBucket, TypeOK
    <2> QED
        BY <2>1, <2>2
<1>6. \A x \in Attempt : holds[x] \subseteq Kept
    <2> SUFFICES ASSUME NEW x \in Attempt, NEW k \in holds[x] PROVE k \in Kept
        OBVIOUS
    <2>1. k \in Key /\ bucket[k].pending >= 1
        BY HeldPending
    <2>2. k \notin Kept => bucket[k].pending = 0
        BY <2>1, LookedKeeps
    <2> QED
        BY <2>1, <2>2, SMT
<1>7. \A k \in Key : Holders(k)' = Holders(k)
    BY <1>1 DEF Holders
<1>8. \A k \in Key : bucket'[k].pending = Cardinality(Holders(k)')
    BY <1>2, <1>5, <1>7 DEF ReservationsExact
<1>9. \A k \in Key \ entries' : bucket'[k] = NoBucket
    BY <1>1
<1>10. bucket' = [k \in Key |-> bucket'[k]]
    BY <1>1
<1>11. /\ holds' \in [Attempt -> {{}} \cup {{c[1], c[2]} : c \in Checks}]
       /\ seen' \in [Attempt -> [Key -> Nat]]
    BY <1>1, <1>2 DEF TypeOK
<1> QED
    BY <1>1, <1>3, <1>4, <1>5, <1>6, <1>8, <1>9, <1>10, <1>11, Assemble

(* A reservation finds a place in both budgets, outside of their cooldowns. *)
LEMMA ReserveStep ==
    ASSUME IInv, NEW a \in Attempt, NEW s \in Key, NEW t \in Key, Reserve(a, s, t),
           {s, t} \in {{c[1], c[2]} : c \in Checks}
    PROVE  IInv'
<1> DEFINE L == Looked(s, t)
<1>1. /\ holds[a] = {} /\ ~Refused(s, t)
      /\ entries' = Kept \cup {s, t}
      /\ bucket' = [k \in Key |-> IF k \in {s, t} THEN [L[k] EXCEPT !.pending = @ + 1] ELSE L[k]]
      /\ holds' = [holds EXCEPT ![a] = {s, t}]
      /\ seen' = [seen EXCEPT ![a] = [k \in Key |->
                     IF k \in {s, t} THEN bucket'[k].generation ELSE 0]]
      /\ nextCleanup' = IF now < nextCleanup THEN nextCleanup ELSE now + CleanupPeriod
      /\ now' = now
    BY DEF Reserve, Pruned
<1>2. TypeOK /\ ReservationsExact
    BY DEF IInv
<1>3. \A k \in Key : BucketInv(L[k], k) /\ L[k].pending = bucket[k].pending
    BY LookedKeeps
<1>4. \A k \in {s, t} : ~Retry(L[k], k)
    BY <1>1 DEF Refused
<1>5. \A k \in Key : k \notin Kept /\ k \notin {s, t} => L[k] = NoBucket
    BY LookedKeeps
<1> HIDE DEF L
<1>6. nextCleanup' \in Nat
    BY <1>1, <1>2, LimiterAssumption, SMT DEF TypeOK
<1>7. now \in Nat
    BY <1>2 DEF TypeOK
<1>8. \A k \in Key :
         /\ BucketInv(bucket'[k], k)
         /\ bucket'[k].pending = IF k \in {s, t} THEN bucket[k].pending + 1
                                 ELSE bucket[k].pending
    <2> TAKE k \in Key
    <2>1. CASE k \in {s, t}
        <3>1. bucket'[k] = [L[k] EXCEPT !.pending = @ + 1]
            BY <1>1, <2>1
        <3>2. BucketInv([L[k] EXCEPT !.pending = @ + 1], k)
            BY <1>3, <1>4, <1>7, <2>1, ReserveKeeps
        <3>3. [L[k] EXCEPT !.pending = @ + 1].pending = L[k].pending + 1
            BY <1>3, Zenon DEF BucketInv, Bucket
        <3> QED
            BY <1>3, <2>1, <3>1, <3>2, <3>3
    <2>2. CASE k \notin {s, t}
        BY <1>1, <1>3, <2>2
    <2> QED
        BY <2>1, <2>2
<1>9. \A k \in Key : bucket'[k].generation \in Nat
    BY <1>8 DEF BucketInv, Bucket
<1>10. seen' \in [Attempt -> [Key -> Nat]]
    BY <1>1, <1>2, <1>9 DEF TypeOK
<1>11. holds' \in [Attempt -> {{}} \cup {{c[1], c[2]} : c \in Checks}]
    BY <1>1, <1>2 DEF TypeOK
<1>12. \A k \in Key : bucket'[k].pending = Cardinality(Holders(k)')
    <2> TAKE k \in Key
    <2>1. Cardinality(Holders(k)') =
              IF k \in {s, t} THEN Cardinality(Holders(k)) + 1 ELSE Cardinality(Holders(k))
        BY <1>1, <1>2, HoldersAdd
    <2>2. bucket[k].pending = Cardinality(Holders(k))
        BY <1>2 DEF ReservationsExact
    <2> QED
        BY <1>8, <2>1, <2>2
<1>13. \A x \in Attempt : holds'[x] \subseteq entries'
    <2> TAKE x \in Attempt
    <2>1. CASE x = a
        BY <1>1, <1>2, <2>1 DEF TypeOK
    <2>2. CASE x # a
        <3>1. holds'[x] = holds[x]
            BY <1>1, <1>2, <2>2 DEF TypeOK
        <3> SUFFICES ASSUME NEW k \in holds[x] PROVE k \in Kept
            BY <1>1, <3>1
        <3>2. k \in Key /\ bucket[k].pending >= 1
            BY HeldPending
        <3>3. k \notin Kept => bucket[k].pending = 0
            BY <3>2, LookedKeeps
        <3> QED
            BY <3>2, <3>3, SMT
    <2> QED
        BY <2>1, <2>2
<1>14. entries' \subseteq Key
    BY <1>1, <1>2 DEF Kept, TypeOK
<1>15. \A k \in Key \ entries' : bucket'[k] = NoBucket
    BY <1>1, <1>5
<1>16. bucket' = [k \in Key |-> bucket'[k]]
    BY <1>1
<1> QED
    BY <1>1, <1>6, <1>8, <1>10, <1>11, <1>12, <1>13, <1>14, <1>15, <1>16, Assemble

(* The bucket of a check that ends. *)
LEMMA SettledKeeps ==
    ASSUME IInv, NEW a \in Attempt, NEW verified \in BOOLEAN, NEW k \in holds[a]
    PROVE  /\ BucketInv(Settled(a, k, verified), k)
           /\ Settled(a, k, verified).pending = bucket[k].pending - 1
<1> DEFINE r == [bucket[k] EXCEPT !.pending = @ - 1]
           b == ResetExpired(r)
<1>1. k \in Key /\ bucket[k].pending >= 1
    BY HeldPending
<1>2. now \in Nat /\ BucketInv(bucket[k], k)
    BY <1>1 DEF IInv, TypeOK
<1>3. BucketInv(r, k) /\ r.pending = bucket[k].pending - 1 /\ r.pending + 1 <= Available(r, k)
    BY <1>1, <1>2, ReleaseKeeps
<1>4. Settled(a, k, verified) = IF ~verified /\ b.generation = seen[a][k] THEN Record(b, k) ELSE b
    BY DEF Settled
<1> HIDE DEF r
<1>5. BucketInv(b, k) /\ b.pending = r.pending
    BY <1>2, <1>3, ResetKeeps
<1>6. b.pending + 1 <= Available(b, k)
    <2>1. CASE r.expires > now
        BY <1>3, <2>1 DEF ResetExpired
    <2>2. CASE ~(r.expires > now)
        <3>1. r \in Bucket
            BY <1>3 DEF BucketInv
        <3>2. b.count = 0
            BY <2>2, <3>1, Zenon DEF ResetExpired, Bucket
        <3>3. r.count \in Nat /\ r.pending \in Nat
            BY <3>1 DEF Bucket
        <3>4. r.pending + 1 <= Limit(k)
            BY <1>3, <3>3, LimitPositive, SMT DEF Available
        <3> HIDE DEF b
        <3> QED
            BY <1>5, <3>2, <3>3, <3>4, LimitPositive, SMT DEF Available
    <2> QED
        BY <2>1, <2>2
<1> HIDE DEF b
<1>7. BucketInv(Record(b, k), k) /\ Record(b, k).pending = b.pending
    BY <1>2, <1>5, <1>6, RecordKeeps
<1> QED
    BY <1>3, <1>4, <1>5, <1>7

(* The end of a check settles both budgets. *)
LEMMA FinishStep ==
    ASSUME IInv, NEW a \in Attempt, NEW verified \in BOOLEAN, Finish(a, verified)
    PROVE  IInv'
<1> DEFINE S(k) == Settled(a, k, verified)
           gone == {k \in holds[a] : Emptied(S(k))}
<1>1. /\ entries' = entries \ gone
      /\ bucket' = [k \in Key |-> IF k \in gone THEN NoBucket
                                  ELSE IF k \in holds[a] THEN S(k) ELSE bucket[k]]
      /\ holds' = [holds EXCEPT ![a] = {}]
      /\ seen' = [seen EXCEPT ![a] = [k \in Key |-> 0]]
      /\ nextCleanup' = nextCleanup /\ now' = now
    BY DEF Finish
<1>2. TypeOK /\ ReservationsExact
    BY DEF IInv
<1>3. \A k \in holds[a] : BucketInv(S(k), k) /\ S(k).pending = bucket[k].pending - 1
    BY SettledKeeps
<1>4. \A k \in gone : k \in holds[a] /\ S(k).pending = 0
    BY DEF Emptied
<1> HIDE DEF S, gone
<1>5. \A k \in Key :
         /\ BucketInv(bucket'[k], k)
         /\ bucket'[k].pending = IF k \in holds[a] THEN bucket[k].pending - 1
                                 ELSE bucket[k].pending
    <2> TAKE k \in Key
    <2>1. CASE k \in gone
        <3>1. bucket'[k] = NoBucket
            BY <1>1, <2>1
        <3>2. k \in holds[a] /\ bucket[k].pending - 1 = 0
            BY <1>3, <1>4, <2>1
        <3> QED
            BY <1>2, <3>1, <3>2, EmptyBucket DEF NoBucket, TypeOK
    <2>2. CASE k \notin gone /\ k \in holds[a]
        BY <1>1, <1>3, <2>2
    <2>3. CASE k \notin gone /\ k \notin holds[a]
        BY <1>1, <2>3 DEF IInv
    <2> QED
        BY <1>4, <2>1, <2>2, <2>3
<1>6. \A k \in Key : bucket'[k].pending = Cardinality(Holders(k)')
    <2> TAKE k \in Key
    <2>1. Cardinality(Holders(k)') =
              IF k \in holds[a] THEN Cardinality(Holders(k)) - 1 ELSE Cardinality(Holders(k))
        BY <1>1, <1>2, HoldersRemove
    <2>2. bucket[k].pending = Cardinality(Holders(k))
        BY <1>2 DEF ReservationsExact
    <2> QED
        BY <1>5, <2>1, <2>2
<1>7. \A x \in Attempt : holds'[x] \subseteq entries'
    <2> TAKE x \in Attempt
    <2>1. CASE x = a
        BY <1>1, <1>2, <2>1 DEF TypeOK
    <2>2. CASE x # a
        <3>1. holds'[x] = holds[x] /\ holds'[a] = {}
            BY <1>1, <1>2, <2>2 DEF TypeOK
        <3> SUFFICES ASSUME NEW k \in holds[x] PROVE k \in entries'
            BY <3>1
        <3>2. k \in Key /\ k \in entries
            BY HeldPending
        <3>3. x \in Holders(k)'
            BY <3>1 DEF Holders
        <3>4. Cardinality(Holders(k)') # 0
            <4>1. IsFiniteSet(Holders(k)')
                <5>1. Holders(k)' \subseteq Attempt
                    BY DEF Holders
                <5>2. IsFiniteSet(Attempt)
                    BY LimiterAssumption
                <5> QED
                    BY <5>1, <5>2, FS_Subset
            <4> QED
                BY <3>3, <4>1, FS_EmptySet
        <3>5. bucket'[k].pending # 0
            BY <1>6, <3>2, <3>4
        <3>6. k \notin gone
            BY <1>1, <3>2, <3>5 DEF NoBucket
        <3> QED
            BY <1>1, <3>2, <3>6
    <2> QED
        BY <2>1, <2>2
<1>8. entries' \subseteq Key
    BY <1>1, <1>2 DEF TypeOK
<1>9. \A k \in Key \ entries' : bucket'[k] = NoBucket
    <2> SUFFICES ASSUME NEW k \in Key, k \notin entries' PROVE bucket'[k] = NoBucket
        OBVIOUS
    <2>1. CASE k \in gone
        BY <1>1, <2>1
    <2>2. CASE k \notin gone
        <3>1. k \notin entries /\ k \notin holds[a]
            BY <1>1, <1>2, <2>2 DEF ReservationsExact
        <3> QED
            BY <1>1, <1>2, <2>2, <3>1 DEF TypeOK
    <2> QED
        BY <2>1, <2>2
<1>10. bucket' = [k \in Key |-> bucket'[k]]
    BY <1>1
<1>11. holds' \in [Attempt -> {{}} \cup {{c[1], c[2]} : c \in Checks}]
    BY <1>1, <1>2 DEF TypeOK
<1>12. seen' \in [Attempt -> [Key -> Nat]]
    BY <1>1, <1>2 DEF TypeOK
<1>13. nextCleanup' \in Nat
    BY <1>1, <1>2 DEF TypeOK
<1> QED
    BY <1>1, <1>5, <1>6, <1>7, <1>8, <1>9, <1>10, <1>11, <1>12, <1>13, Assemble

(* An administrator's clear keeps the reservations of the checks under way. *)
LEMMA ClearStep ==
    ASSUME IInv, NEW ks, Clear(ks)
    PROVE  IInv'
<1>1. /\ entries' = {k \in entries : k \in ks => bucket[k].pending # 0}
      /\ bucket' = [k \in Key |-> IF k \notin ks THEN bucket[k]
                                  ELSE IF bucket[k].pending = 0 THEN NoBucket
                                  ELSE Cleared(bucket[k])]
      /\ holds' = holds /\ seen' = seen /\ nextCleanup' = nextCleanup /\ now' = now
    BY DEF Clear
<1>2. TypeOK /\ ReservationsExact
    BY DEF IInv
<1>3. now \in Nat
    BY <1>2 DEF TypeOK
<1>4. \A k \in Key : BucketInv(bucket'[k], k) /\ bucket'[k].pending = bucket[k].pending
    <2> TAKE k \in Key
    <2>1. BucketInv(bucket[k], k)
        BY DEF IInv
    <2>2. CASE k \notin ks
        BY <1>1, <2>1, <2>2
    <2>3. CASE k \in ks /\ bucket[k].pending = 0
        <3>1. bucket'[k] = NoBucket
            BY <1>1, <2>3
        <3> QED
            BY <1>3, <2>3, <3>1, EmptyBucket DEF NoBucket
    <2>4. CASE k \in ks /\ bucket[k].pending # 0
        <3>1. bucket'[k] = Cleared(bucket[k])
            BY <1>1, <2>4
        <3>2. ~(bucket[k].blocked > now)
            BY <2>1, <2>4 DEF BucketInv
        <3> QED
            BY <1>3, <2>1, <3>1, <3>2, ClearKeeps
    <2> QED
        BY <2>2, <2>3, <2>4
<1>5. \A k \in Key : Holders(k)' = Holders(k)
    BY <1>1 DEF Holders
<1>6. \A k \in Key : bucket'[k].pending = Cardinality(Holders(k)')
    BY <1>2, <1>4, <1>5 DEF ReservationsExact
<1>7. \A x \in Attempt : holds'[x] \subseteq entries'
    <2> SUFFICES ASSUME NEW x \in Attempt, NEW k \in holds[x] PROVE k \in entries'
        BY <1>1
    <2>1. k \in entries /\ bucket[k].pending >= 1
        BY HeldPending
    <2>2. bucket[k].pending # 0
        BY <2>1, SMT
    <2> QED
        BY <1>1, <2>1, <2>2
<1>8. \A k \in Key \ entries' : bucket'[k] = NoBucket
    <2> SUFFICES ASSUME NEW k \in Key, k \notin entries' PROVE bucket'[k] = NoBucket
        OBVIOUS
    <2>1. CASE k \in entries
        BY <1>1, <2>1
    <2>2. CASE k \notin entries
        <3>1. bucket[k] = NoBucket /\ bucket[k].pending = 0
            BY <1>2, <2>2 DEF TypeOK, NoBucket
        <3> QED
            BY <1>1, <3>1
    <2> QED
        BY <2>1, <2>2
<1>9. entries' \subseteq Key /\ bucket' = [k \in Key |-> bucket'[k]]
    BY <1>1, <1>2 DEF TypeOK
<1>10. /\ holds' \in [Attempt -> {{}} \cup {{c[1], c[2]} : c \in Checks}]
       /\ seen' \in [Attempt -> [Key -> Nat]]
       /\ nextCleanup' \in Nat
    BY <1>1, <1>2 DEF TypeOK
<1> QED
    BY <1>1, <1>4, <1>6, <1>7, <1>8, <1>9, <1>10, Assemble

(* Time only ends cooldowns. *)
LEMMA TickStep ==
    ASSUME IInv, Tick
    PROVE  IInv'
<1>1. /\ now' = now + 1
      /\ entries' = entries /\ bucket' = bucket /\ holds' = holds
      /\ seen' = seen /\ nextCleanup' = nextCleanup
    BY DEF Tick
<1>2. TypeOK'
    <2>1. now' \in Nat
        BY <1>1, SMT DEF IInv, TypeOK
    <2> QED
        BY <1>1, <2>1 DEF IInv, TypeOK
<1>3. ReservationsExact'
    BY <1>1 DEF IInv, ReservationsExact, Holders
<1>4. ASSUME NEW k \in Key PROVE BucketInv(bucket[k], k)'
    <2>1. BucketInv(bucket[k], k) /\ now \in Nat
        BY DEF IInv, TypeOK
    <2>2. bucket[k].blocked \in Nat
        BY <2>1 DEF BucketInv, Bucket
    <2>3. bucket[k].blocked > now + 1 => bucket[k].blocked > now
        BY <2>1, <2>2, SMT
    <2> QED
        BY <1>1, <2>1, <2>3 DEF BucketInv, Available
<1> QED
    BY <1>2, <1>3, <1>4 DEF IInv

(* IInv is inductive. *)
LEMMA InitIInv == Init => IInv
<1> SUFFICES ASSUME Init PROVE IInv
    OBVIOUS
<1>1. now = 0 /\ entries = {}
    BY DEF Init
<1>2. \A k \in Key : bucket[k] = NoBucket /\ Holders(k) = {}
    BY DEF Init, Holders
<1>3. NoBucket \in Bucket
    BY Zenon DEF NoBucket, Bucket
<1>4. TypeOK
    BY <1>3 DEF Init, TypeOK
<1>5. ReservationsExact
    <2>1. Cardinality({}) = 0
        BY FS_EmptySet
    <2> QED
        BY <1>2, <2>1 DEF Init, ReservationsExact, NoBucket
<1>6. \A k \in Key : BucketInv(bucket[k], k)
    BY <1>1, <1>2, EmptyBucket
<1> QED
    BY <1>4, <1>5, <1>6 DEF IInv

LEMMA NextIInv == IInv /\ [Next]_vars => IInv'
<1> SUFFICES ASSUME IInv, [Next]_vars PROVE IInv'
    OBVIOUS
<1>1. \A c \in Checks : c[1] \in Key /\ c[2] \in Key
    BY LimiterAssumption DEF Key
<1>2. ASSUME NEW a \in Attempt, NEW c \in Checks, Refuse(a, c[1], c[2]) PROVE IInv'
    BY <1>1, <1>2, RefuseStep
<1>3. ASSUME NEW a \in Attempt, NEW c \in Checks, Reserve(a, c[1], c[2]) PROVE IInv'
    BY <1>1, <1>3, ReserveStep
<1>4. ASSUME NEW a \in Attempt, NEW verified \in BOOLEAN, Finish(a, verified) PROVE IInv'
    BY <1>4, FinishStep
<1>5. ASSUME NEW ks \in ClearSets, Clear(ks) PROVE IInv'
    BY <1>5, ClearStep
<1>6. CASE Tick
    BY <1>6, TickStep
<1>7. CASE UNCHANGED vars
    BY <1>7 DEF vars, IInv, TypeOK, ReservationsExact, Holders, BucketInv, Available
<1> QED
    BY <1>2, <1>3, <1>4, <1>5, <1>6, <1>7 DEF Next

(* The inductive invariant holds in every reachable state. *)
THEOREM Invariant == Spec => []IInv
BY InitIInv, NextIInv, PTL DEF Spec

(* Every bucket is of its type and a key without entry has none. *)
THEOREM TypeCorrect == Spec => []TypeOK
<1>1. IInv => TypeOK
    BY DEF IInv
<1> QED
    BY <1>1, Invariant, PTL

(* Verify's reservations are counted exactly, and prune, clear and erasure   *)
(* never take the bucket of a check that is being hashed.                    *)
THEOREM ReservationsSound == Spec => []ReservationsExact
<1>1. IInv => ReservationsExact
    BY DEF IInv
<1> QED
    BY <1>1, Invariant, PTL

(* However many threads verify, no more checks run than the budget has left, *)
(* and one after a cooldown.                                                 *)
THEOREM BudgetSafe == Spec => []BudgetKept
<1>1. IInv => BudgetKept
    BY DEF IInv, BudgetKept, BucketInv, Available
<1> QED
    BY <1>1, Invariant, PTL

(* No check is under way against a key in its cooldown. *)
THEOREM CooldownSafe == Spec => []CooldownQuiet
<1>1. IInv => CooldownQuiet
    BY DEF IInv, CooldownQuiet, BucketInv
<1> QED
    BY <1>1, Invariant, PTL

(* A cooldown is ended by time or by an administrator's Clear only. *)
THEOREM CooldownStable == Spec => CooldownKept
<1> DEFINE Stays(k) == \/ bucket'[k].blocked = bucket[k].blocked
                       \/ \E ks \in ClearSets : k \in ks /\ Clear(ks)
<1>1. IInv /\ [Next]_vars =>
         [\A k \in Key : bucket[k].blocked > now => Stays(k)]_vars
    <2> SUFFICES ASSUME IInv, Next, NEW k \in Key, bucket[k].blocked > now PROVE Stays(k)
        OBVIOUS
    <2>1. BucketInv(bucket[k], k) /\ now \in Nat
        BY DEF IInv, TypeOK
    <2>2. bucket[k] \in Bucket /\ bucket[k].pending = 0
        BY <2>1 DEF BucketInv
    <2>3. bucket[k].expires > now /\ bucket[k].blocked # 0
        BY <2>1, <2>2, SMT DEF BucketInv, Bucket
    <2>4. k \in entries
        BY <2>3 DEF IInv, TypeOK, NoBucket
    <2>5. k \in Kept
        BY <2>3, <2>4 DEF Kept
    <2>6. ASSUME NEW s, NEW t PROVE Looked(s, t)[k] = bucket[k]
        BY <2>3, <2>5 DEF Looked, ResetExpired
    <2>7. ASSUME NEW a \in Attempt, NEW s, NEW t, Refuse(a, s, t) PROVE Stays(k)
        BY <2>5, <2>6, <2>7 DEF Refuse
    <2>8. ASSUME NEW a \in Attempt, NEW s, NEW t, Reserve(a, s, t) PROVE Stays(k)
        <3>1. bucket'[k] = IF k \in {s, t} THEN [Looked(s, t)[k] EXCEPT !.pending = @ + 1]
                           ELSE Looked(s, t)[k]
            BY <2>8 DEF Reserve
        <3>2. [bucket[k] EXCEPT !.pending = @ + 1].blocked = bucket[k].blocked
            BY <2>2, Zenon DEF Bucket
        <3> QED
            BY <2>6, <3>1, <3>2
    <2>9. ASSUME NEW a \in Attempt, NEW verified \in BOOLEAN, Finish(a, verified) PROVE Stays(k)
        <3>1. k \notin holds[a]
            <4> SUFFICES ASSUME k \in holds[a] PROVE FALSE
                OBVIOUS
            <4>1. bucket[k].pending >= 1
                BY HeldPending
            <4> QED
                BY <2>2, <4>1, SMT
        <3>2. bucket'[k] = bucket[k]
            BY <2>9, <3>1 DEF Finish
        <3> QED
            BY <3>2
    <2>10. ASSUME NEW ks \in ClearSets, Clear(ks) PROVE Stays(k)
        <3>1. CASE k \in ks
            BY <2>10, <3>1
        <3>2. CASE k \notin ks
            <4>1. bucket'[k] = bucket[k]
                BY <2>10, <3>2 DEF Clear
            <4> QED
                BY <4>1
        <3> QED
            BY <3>1, <3>2
    <2>11. CASE Tick
        <3>1. bucket' = bucket
            BY <2>11 DEF Tick
        <3> QED
            BY <3>1
    <2> HIDE DEF Stays
    <2> QED
        BY <2>7, <2>8, <2>9, <2>10, <2>11 DEF Next
<1> QED
    BY <1>1, Invariant, PTL DEF Spec, CooldownKept
-----------------------------------------------------------------------------
(* What a bucket tells of its escalation: a backoff is only kept with a spent *)
(* budget and until the recovery time after the cooldown is over.             *)
Escalated(b, k) ==
    Exponential /\ b.backoff > 0 =>
        /\ b.count = Limit(k)
        /\ b.expires = b.blocked + Recovery
        /\ b.backoff <= MaxBackoff

Escalating(b) == Exponential /\ b.backoff > 0 /\ b.expires > now

(* From b to c: c tells the same, and no less while b has not expired. *)
Remembers(b, c, k) ==
    /\ Escalated(b, k) => Escalated(c, k)
    /\ Escalated(b, k) /\ Escalating(b) =>
          c.backoff >= b.backoff /\ c.count = Limit(k) /\ c.expires > now

LEMMA RemembersTransitive ==
    ASSUME NEW b \in Bucket, NEW c \in Bucket, NEW d \in Bucket, NEW k,
           Remembers(b, c, k), Remembers(c, d, k)
    PROVE  Remembers(b, d, k)
BY SMT DEF Remembers, Escalating, Bucket

LEMMA ResetRemembers ==
    ASSUME now \in Nat, NEW k, NEW b \in Bucket
    PROVE  Remembers(b, ResetExpired(b), k)
<1>1. CASE b.expires > now
    <2>1. ResetExpired(b) = b
        BY <1>1 DEF ResetExpired
    <2> QED
        BY <1>1, <2>1, SMT DEF Remembers, Escalated, Escalating, Bucket
<1>2. CASE ~(b.expires > now)
    <2>1. ResetExpired(b) =
              [b EXCEPT !.count = 0, !.expires = now + Window, !.blocked = 0, !.backoff = 0]
        BY <1>2 DEF ResetExpired
    <2>2. ResetExpired(b).backoff = 0
        BY <2>1, Zenon DEF Bucket
    <2> QED
        BY <1>2, <2>2, SMT DEF Remembers, Escalated, Escalating
<1> QED
    BY <1>1, <1>2

LEMMA PendingRemembers ==
    ASSUME NEW k, NEW b \in Bucket, NEW n \in Nat
    PROVE  [b EXCEPT !.pending = n] \in Bucket /\ Remembers(b, [b EXCEPT !.pending = n], k)
<1> DEFINE c == [b EXCEPT !.pending = n]
<1>1. /\ c \in Bucket
      /\ c.backoff = b.backoff /\ c.count = b.count /\ c.expires = b.expires
      /\ c.blocked = b.blocked
    BY Zenon DEF Bucket
<1>2. b.backoff \in Nat
    BY DEF Bucket
<1> HIDE DEF c
<1>3. Remembers(b, c, k)
    BY <1>1, <1>2, SMT DEF Remembers, Escalated, Escalating
<1> QED
    BY <1>1, <1>3 DEF c

(* A failure after a cooldown doubles the backoff up to its maximum. *)
LEMMA RecordRemembers ==
    ASSUME now \in Nat, NEW k, NEW b, BucketInv(b, k)
    PROVE  Remembers(b, Record(b, k), k)
<1> DEFINE failed == IF b.count < Limit(k) THEN b.count + 1 ELSE b.count
           ends == now + Backoff(b) + IF Exponential THEN Recovery ELSE 0
           r == [b EXCEPT !.count = failed]
           c == [b EXCEPT !.count = failed, !.backoff = Backoff(b),
                          !.blocked = now + Backoff(b), !.expires = ends]
<1>1. b \in Bucket /\ b.count \in Nat /\ b.backoff \in Nat /\ b.expires \in Nat /\ b.blocked \in Nat
      /\ b.count <= Limit(k)
    BY DEF BucketInv, Bucket
<1>2. Limit(k) \in Nat
    BY LimitPositive
<1>3. failed \in Nat /\ failed <= Limit(k) /\ (b.count = Limit(k) => failed = Limit(k))
    BY <1>1, <1>2, SMT
<1>4. CASE failed < Limit(k)
    <2>1. Record(b, k) = r
        BY <1>4 DEF Record
    <2> HIDE DEF failed
    <2>2. r.count = failed /\ r.backoff = b.backoff
        BY <1>1, Zenon DEF Bucket
    <2> HIDE DEF r
    <2>3. b.count # Limit(k)
        BY <1>2, <1>3, <1>4, SMT
    <2> QED
        BY <1>1, <2>1, <2>2, <2>3, SMT DEF Remembers, Escalated, Escalating
<1>5. CASE ~(failed < Limit(k))
    <2>1. Record(b, k) = c
        BY <1>5 DEF Record
    <2>2. failed = Limit(k)
        BY <1>2, <1>3, <1>5, SMT
    <2>3. Backoff(b) \in Nat /\ (Exponential => Backoff(b) > 0 /\ Backoff(b) <= MaxBackoff)
        BY <1>1, LimiterAssumption, SMT DEF Backoff
    <2>4. Exponential /\ b.backoff > 0 /\ b.backoff <= MaxBackoff => Backoff(b) >= b.backoff
        BY <1>1, LimiterAssumption, SMT DEF Backoff
    <2>5. Exponential => ends = (now + Backoff(b)) + Recovery /\ ends > now
        BY <2>3, LimiterAssumption, SMT
    <2> HIDE DEF failed, ends
    <2>6. /\ c.count = failed /\ c.backoff = Backoff(b)
          /\ c.blocked = now + Backoff(b) /\ c.expires = ends
        BY <1>1, Zenon DEF Bucket
    <2> HIDE DEF c
    <2> QED
        BY <1>1, <2>1, <2>2, <2>3, <2>4, <2>5, <2>6, SMT DEF Remembers, Escalated, Escalating
<1> QED
    BY <1>4, <1>5

(* A bucket is only erased or forgotten when its escalation has expired. *)
LEMMA ErasedRemembers ==
    ASSUME NEW k, NEW b, ~Escalating(b)
    PROVE  Remembers(b, NoBucket, k)
BY SMT DEF Remembers, Escalated, NoBucket

LEMMA LookedRemembers ==
    ASSUME IInv, NEW s, NEW t, NEW k \in Key
    PROVE  /\ Remembers(bucket[k], Looked(s, t)[k], k)
           /\ k \notin Kept => ~Escalating(bucket[k])
<1>1. now \in Nat /\ bucket[k] \in Bucket /\ NoBucket \in Bucket
    BY Zenon DEF IInv, TypeOK, NoBucket, Bucket
<1>2. ASSUME k \notin Kept PROVE ~Escalating(bucket[k])
    <2>1. CASE k \in entries
        BY <1>2, <2>1 DEF Kept, Escalating
    <2>2. CASE k \notin entries
        <3>1. bucket[k].backoff = 0
            BY <2>2 DEF IInv, TypeOK, NoBucket
        <3> QED
            BY <3>1, SMT DEF Escalating
    <2> QED
        BY <2>1, <2>2
<1> DEFINE b == IF k \in Kept THEN bucket[k] ELSE NoBucket
<1>3. Looked(s, t)[k] = IF k \in {s, t} THEN ResetExpired(b) ELSE b
    BY DEF Looked
<1>4. b \in Bucket
    BY <1>1
<1>5. Remembers(bucket[k], b, k)
    <2>1. CASE k \in Kept
        BY <1>1, <2>1, SMT DEF Remembers, Escalating, Escalated, Bucket
    <2>2. CASE k \notin Kept
        BY <1>2, <2>2, ErasedRemembers
    <2> QED
        BY <2>1, <2>2
<1> HIDE DEF b
<1>6. Remembers(b, ResetExpired(b), k)
    BY <1>1, <1>4, ResetRemembers
<1>7. ResetExpired(b) \in Bucket
    <2>1. CASE b.expires > now
        BY <1>4, <2>1 DEF ResetExpired
    <2>2. CASE ~(b.expires > now)
        <3>1. now + Window \in Nat /\ 0 \in Nat
            BY <1>1, LimiterAssumption, SMT
        <3>2. [b EXCEPT !.count = 0, !.expires = now + Window, !.blocked = 0, !.backoff = 0]
                  \in Bucket
            BY <1>4, <3>1, Zenon DEF Bucket
        <3> QED
            BY <2>2, <3>2 DEF ResetExpired
    <2> QED
        BY <2>1, <2>2
<1>8. Remembers(bucket[k], ResetExpired(b), k)
    BY <1>1, <1>4, <1>5, <1>6, <1>7, RemembersTransitive
<1> QED
    BY <1>2, <1>3, <1>5, <1>8
EscInv == \A k \in Key : Escalated(bucket[k], k)

(* What Verify makes of a bucket after the hash, also when it erases it. *)
LEMMA SettledRemembers ==
    ASSUME IInv, NEW a \in Attempt, NEW verified \in BOOLEAN, NEW k \in holds[a]
    PROVE  /\ Remembers(bucket[k], Settled(a, k, verified), k)
           /\ Escalated(bucket[k], k) /\ Emptied(Settled(a, k, verified)) => ~Escalating(bucket[k])
<1> DEFINE r == [bucket[k] EXCEPT !.pending = @ - 1]
           b == ResetExpired(r)
<1>1. k \in Key /\ bucket[k].pending >= 1
    BY HeldPending
<1>2. now \in Nat /\ BucketInv(bucket[k], k) /\ bucket[k] \in Bucket
    BY <1>1 DEF IInv, TypeOK
<1>3. bucket[k].pending - 1 \in Nat
    BY <1>1, <1>2, SMT DEF Bucket
<1>4. r \in Bucket /\ Remembers(bucket[k], r, k)
    BY <1>2, <1>3, PendingRemembers
<1>5. BucketInv(r, k)
    BY <1>1, <1>2, ReleaseKeeps
<1>6. Settled(a, k, verified) = IF ~verified /\ b.generation = seen[a][k] THEN Record(b, k) ELSE b
    BY DEF Settled
<1> HIDE DEF r
<1>7. BucketInv(b, k) /\ b \in Bucket
    BY <1>2, <1>5, ResetKeeps DEF BucketInv
<1>8. Remembers(r, b, k)
    BY <1>2, <1>4, ResetRemembers
<1>9. Remembers(bucket[k], b, k)
    BY <1>2, <1>4, <1>7, <1>8, RemembersTransitive
<1> HIDE DEF b
<1>10. Remembers(b, Record(b, k), k)
    BY <1>2, <1>7, RecordRemembers
<1>11. Settled(a, k, verified) \in Bucket
    BY SettledKeeps DEF BucketInv
<1>12. Remembers(bucket[k], Settled(a, k, verified), k)
    <2>1. CASE Settled(a, k, verified) = b
        BY <1>9, <2>1
    <2>2. CASE Settled(a, k, verified) = Record(b, k)
        BY <1>2, <1>7, <1>9, <1>10, <1>11, <2>2, RemembersTransitive
    <2> QED
        BY <1>6, <2>1, <2>2
<1> QED
    BY <1>12, LimitPositive, SMT DEF Remembers, Emptied

(* Every step but an administrator's Clear remembers the escalations. *)
LEMMA StepRemembers ==
    ASSUME IInv, EscInv, Next, NEW k \in Key
    PROVE  \/ Remembers(bucket[k], bucket'[k], k)
           \/ \E ks \in ClearSets : k \in ks /\ Clear(ks) /\ bucket'[k].backoff = 0
<1> DEFINE Goal == \/ Remembers(bucket[k], bucket'[k], k)
                   \/ \E ks \in ClearSets : k \in ks /\ Clear(ks) /\ bucket'[k].backoff = 0
<1>1. now \in Nat /\ bucket[k] \in Bucket /\ BucketInv(bucket[k], k)
    BY DEF IInv, TypeOK
<1>2. Remembers(bucket[k], bucket[k], k)
    BY <1>1, SMT DEF Remembers, Escalated, Escalating, Bucket
<1>3. ASSUME NEW s, NEW t
      PROVE  /\ Remembers(bucket[k], Looked(s, t)[k], k)
             /\ k \notin Kept => ~Escalating(bucket[k])
    BY LookedRemembers
<1>4. ASSUME NEW a \in Attempt, NEW s, NEW t, Refuse(a, s, t) PROVE Goal
    <2>1. bucket'[k] = IF k \in Kept THEN Looked(s, t)[k] ELSE NoBucket
        BY <1>4 DEF Refuse
    <2>2. CASE k \in Kept
        BY <1>3, <2>1, <2>2
    <2>3. CASE k \notin Kept
        BY <1>3, <2>1, <2>3, ErasedRemembers
    <2> QED
        BY <2>2, <2>3
<1>5. ASSUME NEW a \in Attempt, NEW s, NEW t, Reserve(a, s, t) PROVE Goal
    <2> DEFINE l == Looked(s, t)[k]
    <2>1. bucket'[k] = IF k \in {s, t} THEN [l EXCEPT !.pending = @ + 1] ELSE l
        BY <1>5 DEF Reserve
    <2>2. l \in Bucket
        BY LookedKeeps DEF BucketInv
    <2>3. l.pending + 1 \in Nat
        BY <2>2, SMT DEF Bucket
    <2>4. Remembers(bucket[k], l, k)
        BY <1>3
    <2> HIDE DEF l
    <2>5. /\ [l EXCEPT !.pending = @ + 1] \in Bucket
          /\ Remembers(l, [l EXCEPT !.pending = @ + 1], k)
        BY <2>2, <2>3, PendingRemembers
    <2>6. Remembers(bucket[k], [l EXCEPT !.pending = @ + 1], k)
        BY <1>1, <2>2, <2>4, <2>5, RemembersTransitive
    <2> QED
        BY <2>1, <2>4, <2>6
<1>6. ASSUME NEW a \in Attempt, NEW verified \in BOOLEAN, Finish(a, verified) PROVE Goal
    <2> DEFINE S == Settled(a, k, verified)
    <2>1. /\ k \in holds[a] /\ Emptied(S) => bucket'[k] = NoBucket
          /\ k \in holds[a] /\ ~Emptied(S) => bucket'[k] = S
          /\ k \notin holds[a] => bucket'[k] = bucket[k]
        BY <1>6 DEF Finish
    <2>2. CASE k \notin holds[a]
        BY <1>2, <2>1, <2>2
    <2>3. CASE k \in holds[a] /\ ~Emptied(S)
        BY <2>1, <2>3, SettledRemembers
    <2>4. CASE k \in holds[a] /\ Emptied(S)
        <3>1. ~Escalating(bucket[k])
            BY <2>4, SettledRemembers DEF EscInv
        <3> QED
            BY <2>1, <2>4, <3>1, ErasedRemembers
    <2> QED
        BY <2>2, <2>3, <2>4
<1>7. ASSUME NEW ks \in ClearSets, Clear(ks) PROVE Goal
    <2>1. bucket'[k] = IF k \notin ks THEN bucket[k]
                       ELSE IF bucket[k].pending = 0 THEN NoBucket ELSE Cleared(bucket[k])
        BY <1>7 DEF Clear
    <2>2. CASE k \notin ks
        BY <1>2, <2>1, <2>2
    <2>3. CASE k \in ks
        <3>1. NoBucket.backoff = 0
            BY DEF NoBucket
        <3> DEFINE e == [bucket[k] EXCEPT !.generation = @ + 1, !.expires = now]
        <3>2. e \in [count : Nat, pending : Nat, expires : Nat, blocked : Nat, backoff : Nat,
                     generation : Nat] /\ e.expires = now
            <4>1. bucket[k].generation + 1 \in Nat
                BY <1>1, SMT DEF Bucket
            <4> QED
                BY <1>1, <4>1, Zenon DEF Bucket
        <3>3. Cleared(bucket[k]) = ResetExpired(e)
            BY DEF Cleared
        <3> HIDE DEF e
        <3>4. ~(e.expires > now)
            BY <1>1, <3>2, SMT
        <3>5. ResetExpired(e) =
                  [e EXCEPT !.count = 0, !.expires = now + Window, !.blocked = 0, !.backoff = 0]
            BY <3>4 DEF ResetExpired
        <3>6. ResetExpired(e).backoff = 0
            BY <3>2, <3>5, Zenon
        <3>7. bucket'[k].backoff = 0
            BY <2>1, <2>3, <3>1, <3>3, <3>6
        <3> QED
            BY <1>7, <2>3, <3>7
    <2> QED
        BY <2>2, <2>3
<1>8. ASSUME Tick PROVE Goal
    <2>1. bucket' = bucket
        BY <1>8 DEF Tick
    <2> QED
        BY <1>2, <2>1
<1> HIDE DEF Goal
<1>9. Goal
    BY <1>4, <1>5, <1>6, <1>7, <1>8 DEF Next
<1> QED
    BY <1>9 DEF Goal

LEMMA EscInductive == Spec => [](IInv /\ EscInv)
<1>1. Init => EscInv
    <2> SUFFICES ASSUME Init, NEW k \in Key PROVE Escalated(bucket[k], k)
        BY DEF EscInv
    <2>1. bucket[k].backoff = 0
        BY DEF Init, NoBucket
    <2> QED
        BY <2>1, SMT DEF Escalated
<1>2. IInv /\ EscInv /\ [Next]_vars => EscInv'
    <2> SUFFICES ASSUME IInv, EscInv, [Next]_vars, NEW k \in Key PROVE Escalated(bucket'[k], k)
        BY DEF EscInv, Escalated
    <2>1. Escalated(bucket[k], k)
        BY DEF EscInv
    <2>2. CASE Next
        <3>1. CASE Remembers(bucket[k], bucket'[k], k)
            BY <2>1, <3>1 DEF Remembers
        <3>2. CASE bucket'[k].backoff = 0
            BY <3>2, SMT DEF Escalated
        <3> QED
            BY <2>2, <3>1, <3>2, StepRemembers
    <2>3. CASE UNCHANGED vars
        BY <2>1, <2>3 DEF vars
    <2> QED
        BY <2>2, <2>3
<1> QED
    BY <1>1, <1>2, Invariant, PTL DEF Spec

(* After a cooldown Verify remembers failures and escalation for the recovery *)
(* time: refusals, prunes, successes and further failures keep or raise it.   *)
THEOREM EscalationStable == Spec => EscalationKept
<1>1. IInv /\ EscInv /\ [Next]_vars =>
         [\A k \in Key :
            /\ Exponential
            /\ bucket[k].backoff > 0
            /\ now < bucket[k].blocked + Recovery
            => \/ bucket'[k].backoff >= bucket[k].backoff /\ bucket'[k].count = Limit(k)
               \/ \E ks \in ClearSets : k \in ks /\ Clear(ks)]_vars
    <2> SUFFICES ASSUME IInv, EscInv, Next, NEW k \in Key, Exponential, bucket[k].backoff > 0,
                        now < bucket[k].blocked + Recovery
                 PROVE  \/ bucket'[k].backoff >= bucket[k].backoff /\ bucket'[k].count = Limit(k)
                        \/ \E ks \in ClearSets : k \in ks /\ Clear(ks)
        OBVIOUS
    <2>1. Escalated(bucket[k], k)
        BY DEF EscInv
    <2>2. Escalating(bucket[k])
        BY <2>1, SMT DEF Escalated, Escalating
    <2> QED
        BY <2>1, <2>2, StepRemembers DEF Remembers
<1> QED
    BY <1>1, EscInductive, PTL DEF Spec, EscalationKept

-----------------------------------------------------------------------------
(* Generations.  A check under way has read its bucket's generation when it  *)
(* reserved, and Clear moves the generation on.                              *)
LEMMA ClearMoves ==
    ASSUME IInv, NEW ks, Clear(ks), NEW a \in Attempt, NEW k \in holds[a], k \in ks
    PROVE  bucket'[k].generation = bucket[k].generation + 1
<1> DEFINE e == [bucket[k] EXCEPT !.generation = @ + 1, !.expires = now]
<1>1. k \in Key /\ bucket[k].pending >= 1
    BY HeldPending
<1>2. bucket[k] \in Bucket /\ bucket[k].generation + 1 \in Nat /\ now \in Nat
    <2>1. bucket[k] \in Bucket /\ now \in Nat
        BY <1>1 DEF IInv, TypeOK
    <2> QED
        BY <2>1, SMT DEF Bucket
<1>3. bucket'[k] = Cleared(bucket[k])
    <2>1. bucket[k].pending # 0
        BY <1>1, <1>2, SMT DEF Bucket
    <2> QED
        BY <1>1, <2>1 DEF Clear
<1>4. e \in Bucket /\ e.generation = bucket[k].generation + 1
    BY <1>2, Zenon DEF Bucket
<1>5. Cleared(bucket[k]) = ResetExpired(e)
    BY DEF Cleared
<1> HIDE DEF e
<1>6. ResetExpired(e).generation = e.generation
    BY <1>4 DEF ResetExpired, Bucket
<1> QED
    BY <1>3, <1>4, <1>5, <1>6

(* Settling a check leaves the generation alone. *)
LEMMA SettledGeneration ==
    ASSUME IInv, NEW a \in Attempt, NEW verified \in BOOLEAN, NEW k \in holds[a]
    PROVE  Settled(a, k, verified).generation = bucket[k].generation
<1> DEFINE c == [bucket[k] EXCEPT !.pending = @ - 1]
           b == ResetExpired(c)
<1>1. /\ k \in Key /\ now \in Nat /\ bucket[k] \in Bucket /\ BucketInv(bucket[k], k)
      /\ bucket[k].pending >= 1
    BY HeldPending DEF IInv, TypeOK
<1>2. c.generation = bucket[k].generation /\ BucketInv(c, k)
    BY <1>1, ReleaseKeeps DEF Bucket
<1>3. Settled(a, k, verified) = IF ~verified /\ b.generation = seen[a][k] THEN Record(b, k) ELSE b
    BY DEF Settled
<1> HIDE DEF c
<1>4. b.generation = c.generation /\ b \in Bucket
    BY <1>1, <1>2, ResetKeeps DEF BucketInv
<1> HIDE DEF b
<1>5. Record(b, k).generation = b.generation
    BY <1>4 DEF Record, Bucket
<1> QED
    BY <1>2, <1>3, <1>4, <1>5

(* A reservation reads the generation, and only Clear changes it afterwards. *)
LEMMA GenerationStep ==
    ASSUME IInv, IInv', Next, NEW a \in Attempt, NEW k \in holds'[a]
    PROVE  \/ k \notin holds[a] /\ seen'[a][k] = bucket'[k].generation
           \/ /\ k \in holds[a] /\ seen'[a][k] = seen[a][k]
              /\ \/ bucket'[k].generation = bucket[k].generation
                 \/ bucket'[k].generation = bucket[k].generation + 1
<1> DEFINE Goal == \/ k \notin holds[a] /\ seen'[a][k] = bucket'[k].generation
                   \/ /\ k \in holds[a] /\ seen'[a][k] = seen[a][k]
                      /\ \/ bucket'[k].generation = bucket[k].generation
                         \/ bucket'[k].generation = bucket[k].generation + 1
<1>1. now \in Nat /\ TypeOK
    BY DEF IInv, TypeOK
<1>2. k \in Key /\ k \in entries'
    <2>1. holds'[a] \in {{}} \cup {{c[1], c[2]} : c \in Checks}
        BY DEF IInv, TypeOK
    <2>2. \A c \in Checks : c[1] \in Source /\ c[2] \in Target
        BY LimiterAssumption
    <2>3. holds'[a] \subseteq entries'
        BY DEF IInv, ReservationsExact
    <2> QED
        BY <2>1, <2>2, <2>3 DEF Key
<1>3. ASSUME k \in holds[a], NEW s, NEW t
      PROVE  k \in Kept /\ Looked(s, t)[k].generation = bucket[k].generation
    <2>1. bucket[k].pending >= 1 /\ bucket[k] \in Bucket /\ BucketInv(bucket[k], k)
        BY <1>2, <1>3, HeldPending DEF IInv, TypeOK
    <2>2. bucket[k].pending # 0
        BY <2>1, SMT DEF Bucket
    <2>3. k \in Kept
        BY <1>2, <2>2, LookedKeeps
    <2>4. ResetExpired(bucket[k]).generation = bucket[k].generation
        BY <1>1, <2>1, ResetKeeps
    <2>5. Looked(s, t)[k] = IF k \in {s, t} THEN ResetExpired(bucket[k]) ELSE bucket[k]
        BY <1>2, <2>3 DEF Looked
    <2> QED
        BY <2>3, <2>4, <2>5
<1>4. ASSUME NEW x \in Attempt, NEW s, NEW t, Refuse(x, s, t) PROVE Goal
    <2>1. /\ bucket'[k] = IF k \in Kept THEN Looked(s, t)[k] ELSE NoBucket
          /\ UNCHANGED <<holds, seen>>
        BY <1>2, <1>4 DEF Refuse
    <2> QED
        BY <1>3, <2>1
<1>5. ASSUME NEW x \in Attempt, NEW s, NEW t, Reserve(x, s, t) PROVE Goal
    <2>1. /\ bucket'[k] = IF k \in {s, t} THEN [Looked(s, t)[k] EXCEPT !.pending = @ + 1]
                          ELSE Looked(s, t)[k]
          /\ holds' = [holds EXCEPT ![x] = {s, t}] /\ holds[x] = {}
          /\ seen' = [seen EXCEPT ![x] = [j \in Key |->
                        IF j \in {s, t} THEN bucket'[j].generation ELSE 0]]
        BY <1>2, <1>5 DEF Reserve
    <2>2. holds \in [Attempt -> {{}} \cup {{c[1], c[2]} : c \in Checks}]
          /\ seen \in [Attempt -> [Key -> Nat]]
        BY <1>1 DEF TypeOK
    <2>3. CASE a = x
        <3>1. k \in {s, t} /\ k \notin holds[a]
            BY <2>1, <2>2, <2>3
        <3>2. seen'[a] = [j \in Key |-> IF j \in {s, t} THEN bucket'[j].generation ELSE 0]
            BY <2>1, <2>2, <2>3
        <3> QED
            BY <1>2, <3>1, <3>2
    <2>4. CASE a # x
        <3>1. holds'[a] = holds[a] /\ seen'[a] = seen[a]
            BY <2>1, <2>2, <2>4
        <3> DEFINE l == Looked(s, t)[k]
        <3>2. l.generation = bucket[k].generation /\ l \in Bucket
            BY <1>2, <1>3, <3>1, LookedKeeps DEF BucketInv
        <3>3. bucket'[k] = l \/ bucket'[k] = [l EXCEPT !.pending = @ + 1]
            BY <2>1
        <3> HIDE DEF l
        <3>4. [l EXCEPT !.pending = @ + 1].generation = l.generation
            BY <3>2 DEF Bucket
        <3> QED
            BY <3>1, <3>2, <3>3, <3>4
    <2> QED
        BY <2>3, <2>4
<1>6. ASSUME NEW x \in Attempt, NEW verified \in BOOLEAN, Finish(x, verified) PROVE Goal
    <2> DEFINE S == Settled(x, k, verified)
    <2>1. /\ k \in holds[x] /\ Emptied(S) => k \notin entries'
          /\ k \in holds[x] /\ ~Emptied(S) => bucket'[k] = S
          /\ k \notin holds[x] => bucket'[k] = bucket[k]
          /\ holds' = [holds EXCEPT ![x] = {}]
          /\ seen' = [seen EXCEPT ![x] = [j \in Key |-> 0]]
        BY <1>2, <1>6 DEF Finish
    <2>2. a # x /\ holds'[a] = holds[a] /\ seen'[a] = seen[a]
        BY <1>1, <2>1 DEF TypeOK
    <2>3. CASE k \notin holds[x]
        BY <2>1, <2>2, <2>3
    <2>4. CASE k \in holds[x]
        <3>1. S.generation = bucket[k].generation
            BY <2>4, SettledGeneration
        <3> QED
            BY <1>2, <2>1, <2>2, <2>4, <3>1
    <2> QED
        BY <2>3, <2>4
<1>7. ASSUME NEW ks \in ClearSets, Clear(ks) PROVE Goal
    <2>1. UNCHANGED <<holds, seen>> /\ (k \notin ks => bucket'[k] = bucket[k])
        BY <1>2, <1>7 DEF Clear
    <2>2. k \in ks => bucket'[k].generation = bucket[k].generation + 1
        BY <1>7, <2>1, ClearMoves
    <2> QED
        BY <2>1, <2>2
<1>8. ASSUME Tick PROVE Goal
    BY <1>8 DEF Tick
<1> HIDE DEF Goal
<1>9. Goal
    BY <1>4, <1>5, <1>6, <1>7, <1>8 DEF Next
<1> QED
    BY <1>9 DEF Goal

(* The checks overtaken by a clear still hold their bucket, and its          *)
(* generation has moved past the one they read.                              *)
StaleInv ==
    /\ stale \subseteq Attempt \X Key
    /\ \A a \in Attempt : \A k \in holds[a] : seen[a][k] <= bucket[k].generation
    /\ \A r \in stale : r[2] \in holds[r[1]] /\ seen[r[1]][r[2]] < bucket[r[2]].generation

LEMMA StaleNext == ASSUME IInv, IInv', StaleInv, [HNext]_hvars PROVE StaleInv'
<1>1. CASE UNCHANGED hvars
    BY <1>1 DEF hvars, vars, StaleInv
<1>2. CASE HNext
    <2>1. /\ Next
          /\ stale' = {r \in Attempt \X Key : r[2] \in holds'[r[1]] /\
                          (r \in stale \/ \E ks \in ClearSets : r[2] \in ks /\ Clear(ks))}
        BY <1>2 DEF HNext
    <2>2. ASSUME NEW a \in Attempt, NEW k \in holds'[a]
          PROVE  /\ k \in holds[a] => k \in Key
                 /\ k \in holds[a] => seen[a][k] \in Nat /\ bucket[k].generation \in Nat
                 /\ bucket'[k].generation \in Nat
        <3>1. bucket'[k] \in Bucket
            <4>1. holds'[a] \in {{}} \cup {{c[1], c[2]} : c \in Checks}
                BY DEF IInv, TypeOK
            <4>2. \A c \in Checks : c[1] \in Source /\ c[2] \in Target
                BY LimiterAssumption
            <4>3. k \in Key
                BY <2>2, <4>1, <4>2 DEF Key
            <4> QED
                BY <4>3 DEF IInv, TypeOK
        <3>2. k \in holds[a] => k \in Key
            BY HeldKeys DEF IInv
        <3>3. k \in holds[a] => bucket[k] \in Bucket /\ seen[a][k] \in Nat
            BY <3>2 DEF IInv, TypeOK
        <3> QED
            BY <3>1, <3>2, <3>3 DEF Bucket
    <2>3. ASSUME NEW a \in Attempt, NEW k \in holds'[a] PROVE seen'[a][k] <= bucket'[k].generation
        <3>1. k \in holds[a] => seen[a][k] <= bucket[k].generation
            BY DEF StaleInv
        <3> PICK o, p, g, h : /\ o = seen[a][k] /\ p = seen'[a][k] /\ g = bucket[k].generation
                              /\ h = bucket'[k].generation
            OBVIOUS
        <3>2. /\ h \in Nat
              /\ \/ p = h
                 \/ o \in Nat /\ g \in Nat /\ o <= g /\ p = o /\ (h = g \/ h = g + 1)
            BY <2>1, <2>2, <3>1, GenerationStep
        <3>3. p <= h
            BY ONLY <3>2, SMT
        <3> QED
            BY <3>3
    <2>4. ASSUME NEW r \in stale'
          PROVE  r[2] \in holds'[r[1]] /\ seen'[r[1]][r[2]] < bucket'[r[2]].generation
        <3>1. /\ r[1] \in Attempt /\ r[2] \in holds'[r[1]]
              /\ r \in stale \/ \E ks \in ClearSets : r[2] \in ks /\ Clear(ks)
            BY <2>1, <2>4
        <3> PICK a, k : a = r[1] /\ k = r[2]
            OBVIOUS
        <3> PICK o, p, g, h : /\ o = seen[a][k] /\ p = seen'[a][k] /\ g = bucket[k].generation
                              /\ h = bucket'[k].generation
            OBVIOUS
        <3>2. CASE r \in stale
            <4>1. k \in holds[a] /\ o < g
                BY <3>2 DEF StaleInv
            <4>2. o \in Nat /\ g \in Nat /\ p = o /\ (h = g \/ h = g + 1)
                BY <2>1, <2>2, <3>1, <4>1, GenerationStep
            <4>3. p < h
                BY ONLY <4>1, <4>2, SMT
            <4> QED
                BY <3>1, <4>3
        <3>3. ASSUME NEW ks \in ClearSets, k \in ks, Clear(ks)
              PROVE  r[2] \in holds'[r[1]] /\ seen'[r[1]][r[2]] < bucket'[r[2]].generation
            <4>1. UNCHANGED <<holds, seen>>
                BY <3>3 DEF Clear
            <4>2. k \in holds[a] /\ o <= g /\ p = o
                BY <3>1, <4>1 DEF StaleInv
            <4>3. h = g + 1
                BY <3>1, <3>3, <4>2, ClearMoves
            <4>4. o \in Nat /\ g \in Nat
                BY <2>2, <3>1, <4>2
            <4>5. p < h
                BY ONLY <4>2, <4>3, <4>4, SMT
            <4> QED
                BY <3>1, <4>5
        <3> QED
            BY <3>1, <3>2, <3>3
    <2>5. stale' \subseteq Attempt \X Key
        BY <2>1
    <2> QED
        BY <2>3, <2>4, <2>5 DEF StaleInv
<1> QED
    BY <1>1, <1>2

(* The end of an overtaken check records no failure. *)
LEMMA StaleEnds ==
    ASSUME IInv, StaleInv, Next, NEW r \in stale, holds'[r[1]] = {}
    PROVE  /\ bucket'[r[2]].count <= bucket[r[2]].count
           /\ bucket'[r[2]].backoff <= bucket[r[2]].backoff
<1> PICK a, k : a = r[1] /\ k = r[2]
    OBVIOUS
<1>1. a \in Attempt /\ k \in holds[a] /\ seen[a][k] < bucket[k].generation /\ holds'[a] = {}
    BY DEF StaleInv
<1>2. /\ k \in Key /\ now \in Nat /\ bucket[k] \in Bucket /\ BucketInv(bucket[k], k)
      /\ bucket[k].pending >= 1 /\ TypeOK /\ seen[a][k] \in Nat
    BY <1>1, HeldPending DEF IInv, TypeOK
<1>3. PICK verified \in BOOLEAN : Finish(a, verified)
    <2>1. ASSUME NEW x \in Attempt, NEW s, NEW t, Refuse(x, s, t) \/ Reserve(x, s, t) PROVE FALSE
        <3>1. CASE Refuse(x, s, t)
            BY <1>1, <3>1 DEF Refuse
        <3>2. CASE Reserve(x, s, t)
            <4>1. x # a /\ holds' = [holds EXCEPT ![x] = {s, t}]
                BY <1>1, <3>2 DEF Reserve
            <4>2. holds'[a] = holds[a]
                BY <1>1, <1>2, <4>1 DEF TypeOK
            <4> QED
                BY <1>1, <4>2
        <3> QED
            BY <2>1, <3>1, <3>2
    <2>2. ASSUME NEW x \in Attempt, x # a, NEW verified \in BOOLEAN, Finish(x, verified) PROVE FALSE
        <3>1. holds' = [holds EXCEPT ![x] = {}]
            BY <2>2 DEF Finish
        <3>2. holds'[a] = holds[a]
            BY <1>1, <1>2, <2>2, <3>1 DEF TypeOK
        <3> QED
            BY <1>1, <3>2
    <2>3. ASSUME NEW ks, Clear(ks) PROVE FALSE
        BY <1>1, <2>3 DEF Clear
    <2>4. ASSUME Tick PROVE FALSE
        BY <1>1, <2>4 DEF Tick
    <2> QED
        BY <1>1, <2>1, <2>2, <2>3, <2>4 DEF Next
<1> DEFINE c == [bucket[k] EXCEPT !.pending = @ - 1]
           b == ResetExpired(c)
           S == Settled(a, k, verified)
<1>4. S = b
    <2>1. c.generation = bucket[k].generation /\ BucketInv(c, k)
        BY <1>2, ReleaseKeeps DEF Bucket
    <2>2. S = IF ~verified /\ b.generation = seen[a][k] THEN Record(b, k) ELSE b
        BY DEF Settled
    <2> HIDE DEF c
    <2>3. b.generation = bucket[k].generation
        BY <1>2, <2>1, ResetKeeps
    <2>4. b.generation # seen[a][k]
        <3>1. bucket[k].generation \in Nat
            BY <1>2 DEF Bucket
        <3> QED
            BY <1>1, <1>2, <2>3, <3>1, SMT
    <2> QED
        BY <2>2, <2>4
<1>5. bucket'[k] = NoBucket \/ bucket'[k] = S
    BY <1>1, <1>2, <1>3 DEF Finish
<1>6. /\ c.count = bucket[k].count /\ c.backoff = bucket[k].backoff
      /\ c \in Bucket
    <2>1. bucket[k].pending - 1 \in Nat
        BY <1>2, SMT DEF Bucket
    <2> QED
        BY <1>2, <2>1, Zenon DEF Bucket
<1> HIDE DEF c
<1>7. /\ b.count = c.count \/ b.count = 0
      /\ b.backoff = c.backoff \/ b.backoff = 0
    BY <1>6, Zenon DEF ResetExpired, Bucket
<1>8. NoBucket.count = 0 /\ NoBucket.backoff = 0
    BY DEF NoBucket
<1>9. bucket[k].count \in Nat /\ bucket[k].backoff \in Nat
    BY <1>2 DEF Bucket
<1> HIDE DEF b, S
<1> PICK m, n, u, v : /\ m = bucket'[k].count /\ n = bucket[k].count
                      /\ u = bucket'[k].backoff /\ v = bucket[k].backoff
    OBVIOUS
<1>10. (m = n \/ m = 0) /\ (u = v \/ u = 0) /\ n \in Nat /\ v \in Nat
    BY <1>4, <1>5, <1>6, <1>7, <1>8, <1>9
<1>11. m <= n /\ u <= v
    BY ONLY <1>10, SMT
<1> QED
    BY <1>11

(* A failure that was being computed when its bucket was cleared is never    *)
(* counted afterwards and starts no cooldown, for any number of threads and  *)
(* clears (the generations of DeviceAuthLimiter::Clear).                     *)
THEOREM ClearsHold == HSpec => ClearedForgotten
<1>1. HInit => Init /\ StaleInv
    <2> SUFFICES ASSUME HInit PROVE Init /\ StaleInv
        OBVIOUS
    <2>1. Init /\ stale = {}
        BY DEF HInit
    <2>2. \A a \in Attempt : holds[a] = {}
        BY <2>1 DEF Init
    <2> QED
        BY <2>1, <2>2 DEF StaleInv
<1>2. [HNext]_hvars => [Next]_vars
    BY DEF HNext, hvars
<1>3. HSpec => Spec
    BY <1>1, <1>2, PTL DEF HSpec, Spec
<1>4. IInv /\ IInv' /\ StaleInv /\ [HNext]_hvars => StaleInv'
    BY StaleNext
<1>5. IInv /\ StaleInv /\ [HNext]_hvars =>
         [\A r \in stale : holds'[r[1]] = {} =>
            /\ bucket'[r[2]].count <= bucket[r[2]].count
            /\ bucket'[r[2]].backoff <= bucket[r[2]].backoff]_hvars
    BY StaleEnds DEF HNext
<1> QED
    BY <1>1, <1>3, <1>4, <1>5, Invariant, PTL DEF HSpec, ClearedForgotten
=============================================================================
