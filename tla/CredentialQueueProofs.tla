------------------------- MODULE CredentialQueueProofs -------------------------
(***************************************************************************)
(* What every reachable state of CredentialQueue satisfies, for any number *)
(* of sources, workers and requests, any limits and any delays.            *)
(***************************************************************************)
EXTENDS MCCredentialQueue, FiniteSetTheorems, TLAPS

(* The accounts and the limits are inductive together with the types, once   *)
(* the outstanding requests are known to be finitely many.                   *)
QueueInv == TypeOK /\ AccountsAgree /\ LimitsHold /\ IsFiniteSet(ids)

-----------------------------------------------------------------------------
(* Removing places from a FIFO: what is left is the kept places in order. *)
Place(kept, n) == Cardinality({m \in kept : m <= n})

LEMMA PlaceOf ==
    ASSUME NEW kept \in SUBSET Nat, IsFiniteSet(kept)
    PROVE  /\ \A n \in kept : Place(kept, n) \in 1..Cardinality(kept)
           /\ \A m, n \in kept : m < n => Place(kept, m) < Place(kept, n)
           /\ \A m, n \in kept : Place(kept, m) = Place(kept, n) => m = n
           /\ \A k \in 1..Cardinality(kept) : \E n \in kept : Place(kept, n) = k
<1> DEFINE upto(n) == {m \in kept : m <= n}
           f == [n \in kept |-> Place(kept, n)]
<1>0. Cardinality(kept) \in Nat
  BY FS_CardinalityType
<1>1. \A n \in kept : IsFiniteSet(upto(n)) /\ Cardinality(upto(n)) \in Nat
                        /\ Cardinality(upto(n)) <= Cardinality(kept)
  <2> TAKE n \in kept
  <2>1. upto(n) \in SUBSET kept
    OBVIOUS
  <2> HIDE DEF upto
  <2> QED BY <2>1, FS_Subset, FS_CardinalityType
<1>2. \A n \in kept : Cardinality(upto(n)) # 0
  <2> TAKE n \in kept
  <2>1. n \in upto(n)
    BY SMT
  <2> HIDE DEF upto
  <2> QED BY <1>1, <2>1, FS_EmptySet
<1>3. \A m, n \in kept : m < n => Cardinality(upto(m)) < Cardinality(upto(n))
  <2> SUFFICES ASSUME NEW m \in kept, NEW n \in kept, m < n
               PROVE  Cardinality(upto(m)) < Cardinality(upto(n))
    OBVIOUS
  <2>1. upto(m) \in SUBSET upto(n) /\ n \in upto(n) /\ n \notin upto(m)
    <3>1. m \in Nat /\ n \in Nat /\ \A x \in kept : x \in Nat
      OBVIOUS
    <3>2. n <= n /\ ~(n <= m) /\ \A x \in Nat : x <= m => x <= n
      BY ONLY <3>1, m < n, SMT
    <3> QED BY <3>1, <3>2
  <2>2. IsFiniteSet(upto(n)) /\ Cardinality(upto(m)) \in Nat /\ Cardinality(upto(n)) \in Nat
    BY <1>1
  <2> HIDE DEF upto
  <2>3. Cardinality(upto(m)) <= Cardinality(upto(n)) /\ Cardinality(upto(m)) # Cardinality(upto(n))
    BY <2>1, <2>2, FS_Subset
  <2> QED BY ONLY <2>2, <2>3, SMT
<1>4. \A n \in kept : Place(kept, n) = Cardinality(upto(n))
  BY DEF Place
<1> HIDE DEF upto
<1>5. \A n \in kept : Place(kept, n) \in 1..Cardinality(kept)
  BY <1>0, <1>1, <1>2, <1>4, SMT
<1>6. \A m, n \in kept : m < n => Place(kept, m) < Place(kept, n)
  BY <1>3, <1>4
<1>7. \A m, n \in kept : Place(kept, m) = Place(kept, n) => m = n
  <2> SUFFICES ASSUME NEW m \in kept, NEW n \in kept, Place(kept, m) = Place(kept, n), m # n
               PROVE  FALSE
    OBVIOUS
  <2>1. m < n \/ n < m
    BY SMT
  <2>2. Place(kept, m) < Place(kept, n) \/ Place(kept, n) < Place(kept, m)
    BY <1>6, <2>1
  <2>3. Place(kept, m) \in Nat /\ Place(kept, n) \in Nat
    BY <1>1, <1>4
  <2> QED BY ONLY <2>2, <2>3, Place(kept, m) = Place(kept, n), SMT
<1>8. f \in Surjection(kept, 1..Cardinality(kept))
  <2>1. f \in Injection(kept, 1..Cardinality(kept))
    BY <1>5, <1>7 DEF Injection, IsInjective
  <2>2. IsFiniteSet(1..Cardinality(kept)) /\ Cardinality(1..Cardinality(kept)) = Cardinality(kept)
    BY <1>0, FS_Interval, SMT
  <2> HIDE DEF f
  <2> QED BY <2>1, <2>2, FS_Injection
<1>9. \A k \in 1..Cardinality(kept) : \E n \in kept : Place(kept, n) = k
  BY <1>8 DEF Surjection
<1> QED BY <1>5, <1>6, <1>7, <1>9

LEMMA WithoutIs ==
    ASSUME NEW T, NEW fifo \in Seq(T), NEW gone \in SUBSET DOMAIN fifo
    PROVE  /\ Without(fifo, gone) \in Seq(T)
           /\ IsFiniteSet(gone) /\ Cardinality(gone) \in Nat
           /\ Len(Without(fifo, gone)) = Len(fifo) - Cardinality(gone)
           /\ \E at \in [DOMAIN Without(fifo, gone) -> DOMAIN fifo \ gone] :
                /\ \A k \in DOMAIN Without(fifo, gone) : Without(fifo, gone)[k] = fifo[at[k]]
                /\ \A n \in DOMAIN fifo \ gone : \E k \in DOMAIN Without(fifo, gone) : at[k] = n
                /\ \A j, k \in DOMAIN Without(fifo, gone) : at[j] = at[k] => j = k
<1> DEFINE kept == DOMAIN fifo \ gone
           size == Cardinality(kept)
           at == [k \in 1..size |-> CHOOSE n \in kept : Place(kept, n) = k]
           w == [k \in 1..size |-> fifo[at[k]]]
<1>1. Len(fifo) \in Nat /\ DOMAIN fifo = 1..Len(fifo)
  BY SMT
<1>2. IsFiniteSet(DOMAIN fifo) /\ Cardinality(DOMAIN fifo) = Len(fifo)
  <2>1. IsFiniteSet(1..Len(fifo))
        /\ Cardinality(1..Len(fifo)) = IF 1 > Len(fifo) THEN 0 ELSE Len(fifo) - 1 + 1
    BY <1>1, FS_Interval
  <2>2. (IF 1 > Len(fifo) THEN 0 ELSE Len(fifo) - 1 + 1) = Len(fifo)
    BY <1>1, SMT
  <2> QED BY <1>1, <2>1, <2>2
<1>3. IsFiniteSet(gone) /\ IsFiniteSet(kept) /\ Cardinality(gone) \in Nat /\ size \in Nat
  BY <1>2, FS_Subset, FS_CardinalityType
<1>4. size = Len(fifo) - Cardinality(gone)
  <2>1. DOMAIN fifo \cap gone = gone
    OBVIOUS
  <2> QED BY <1>2, <2>1, FS_Difference, ZenonT(40)
<1>5. kept \in SUBSET Nat
  BY <1>1, SMT
<1>6. Without(fifo, gone) = w
  <2>1. Without(fifo, gone)
            = [k \in 1..size |-> fifo[CHOOSE n \in kept : Cardinality({m \in kept : m <= n}) = k]]
    BY DEF Without
  <2> QED BY <2>1 DEF Place
<1> HIDE DEF kept
<1>7. \A k \in 1..size : at[k] \in kept /\ Place(kept, at[k]) = k
  BY <1>3, <1>5, PlaceOf
<1>8. \A n \in kept : Place(kept, n) \in 1..size /\ at[Place(kept, n)] = n
  <2> TAKE n \in kept
  <2>1. Place(kept, n) \in 1..size
    BY <1>3, <1>5, PlaceOf
  <2>2. at[Place(kept, n)] \in kept /\ Place(kept, at[Place(kept, n)]) = Place(kept, n)
    BY <1>7, <2>1
  <2> HIDE DEF at
  <2> QED BY <1>3, <1>5, <2>1, <2>2, PlaceOf
<1>9. at \in [1..size -> kept]
  BY <1>7
<1>10. \A j, k \in 1..size : at[j] = at[k] => j = k
  <2> SUFFICES ASSUME NEW j \in 1..size, NEW k \in 1..size, at[j] = at[k] PROVE j = k
    OBVIOUS
  <2> HIDE DEF at
  <2> QED BY <1>7
<1> HIDE DEF at
<1>11. \A k \in 1..size : w[k] = fifo[at[k]]
  OBVIOUS
<1>12. w \in Seq(T) /\ Len(w) = size /\ DOMAIN w = 1..size
  <2>1. \A k \in 1..size : fifo[at[k]] \in T
    <3>1. \A n \in kept : fifo[n] \in T
      BY SMT DEF kept
    <3> QED BY <1>7, <3>1
  <2> HIDE DEF size
  <2> QED BY <1>3, <2>1, SMT
<1> HIDE DEF w, size
<1> QED BY <1>3, <1>4, <1>6, <1>8, <1>9, <1>10, <1>11, <1>12, SMTT(40) DEF kept

-----------------------------------------------------------------------------
(* Who waits and who runs. *)
Request == [id : Job, deadline : Nat]

Unique ==
    \A s, r \in Source : \A n \in DOMAIN waiting[s], m \in DOMAIN waiting[r] :
        waiting[s][n].id = waiting[r][m].id => s = r /\ n = m

LEMMA FifoTypes ==
    ASSUME TypeOK, NEW s \in Source
    PROVE  /\ waiting[s] \in Seq(Request) /\ Len(waiting[s]) \in Nat
           /\ DOMAIN waiting[s] = 1..Len(waiting[s])
           /\ \A n \in DOMAIN waiting[s] : waiting[s][n] \in Request /\ waiting[s][n].id \in Waiting(s)
           /\ \A i \in Waiting(s) : \E n \in DOMAIN waiting[s] : waiting[s][n].id = i
           /\ outstanding[s] \in Nat /\ outstanding \in [Source -> Nat]
<1>1. waiting[s] \in Seq(Request) /\ outstanding[s] \in Nat /\ outstanding \in [Source -> Nat]
  BY DEF TypeOK, Request
<1>2. /\ Len(waiting[s]) \in Nat /\ DOMAIN waiting[s] = 1..Len(waiting[s])
      /\ \A n \in DOMAIN waiting[s] : waiting[s][n] \in Request
  BY <1>1, SMT
<1> QED BY <1>1, <1>2 DEF Waiting

LEMMA RunningTypes ==
    ASSUME TypeOK
    PROVE  /\ IsFiniteSet(Worker) /\ 0 \notin Source
           /\ \A s \in Source : IsFiniteSet(RunningOf(s)) /\ Cardinality(RunningOf(s)) \in Nat
           /\ \A w \in Worker : running[w] # Idle =>
                running[w].source \in Source /\ \E i \in Job : running[w].id = {i}
           /\ Idle.id = {} /\ Idle.source = 0
<1>1. IsFiniteSet(Worker)
  BY QueueAssumption, FS_Interval, SMT DEF Worker
<1>2. \A s \in Source : RunningOf(s) \in SUBSET Worker
  BY DEF RunningOf
<1>3. \A s \in Source : IsFiniteSet(RunningOf(s)) /\ Cardinality(RunningOf(s)) \in Nat
  BY <1>1, <1>2, FS_Subset, FS_CardinalityType
<1>4. \A w \in Worker : running[w] # Idle =>
        running[w].source \in Source /\ \E i \in Job : running[w].id = {i}
  BY DEF TypeOK
<1>5. 0 \notin Source /\ Idle.id = {} /\ Idle.source = 0
  BY SMT DEF Source, Idle
<1> QED BY <1>1, <1>3, <1>4, <1>5

-----------------------------------------------------------------------------
(* The accounts, part by part. *)
Counted == \A s \in Source : outstanding[s] = Len(waiting[s]) + Cardinality(RunningOf(s))
RunningIds == UNION {running[w].id : w \in Worker}
Listed == ids = (UNION {Waiting(s) : s \in Source}) \cup RunningIds
WaitsOrRuns == \A s \in Source : \A i \in Waiting(s) : i \notin RunningIds
RunsOnce == \A v, w \in Worker : running[v].id = running[w].id /\ running[v] # Idle => v = w
Bounded == \A s \in Source : outstanding[s] <= SourceCapacity
Fits == Cardinality(ids) <= Capacity /\ IsFiniteSet(ids)

LEMMA RunsIn == ASSUME TypeOK, NEW i PROVE JobRunning(i) <=> i \in RunningIds
<1>1. \A w \in Worker : i \in running[w].id => running[w].id = {i}
  BY RunningTypes
<1> QED BY <1>1 DEF JobRunning, RunningIds

LEMMA QueueParts ==
    QueueInv <=> /\ TypeOK /\ Counted /\ Listed /\ Unique /\ WaitsOrRuns /\ RunsOnce
                 /\ Bounded /\ Fits
<1>1. TypeOK => (WaitsOrRuns <=> \A s \in Source : \A i \in Waiting(s) : ~JobRunning(i))
  BY RunsIn DEF WaitsOrRuns
<1>2. Counted => (Bounded <=> \A s \in Source :
                        Len(waiting[s]) + Cardinality(RunningOf(s)) <= SourceCapacity)
  BY DEF Counted, Bounded
<1> QED BY <1>1, <1>2 DEF QueueInv, AccountsAgree, LimitsHold, Counted, Listed, Unique, RunsOnce, RunningIds,
            Fits

LEMMA QueuePartsNext ==
    ASSUME TypeOK', Counted', Listed', Unique', WaitsOrRuns', RunsOnce', Bounded', Fits'
    PROVE  QueueInv'
  BY QueueParts, PTL

LEMMA QueueFrame ==
    ASSUME QueueInv, UNCHANGED <<waiting, outstanding, ids, running>>, TypeOK'
    PROVE  QueueInv'
<1>1. UNCHANGED <<Counted, Listed, Unique, WaitsOrRuns, RunsOnce, Bounded, Fits>>
  BY DEF Counted, Listed, Unique, WaitsOrRuns, RunsOnce, Bounded, Fits, Waiting, RunningOf, RunningIds
<1> QED BY <1>1, QueueParts, QueuePartsNext

LEMMA QueueEnqueue == ASSUME QueueInv, NEW i \in Job, NEW s \in Source, Enqueue(i, s) PROVE QueueInv'
<1> PICK e, new : e = [id |-> i, deadline |-> now + Timeout] /\ new = Append(waiting[s], e)
  OBVIOUS
<1>0. /\ TypeOK /\ Counted /\ Listed /\ Unique /\ WaitsOrRuns /\ RunsOnce
      /\ Bounded /\ Fits
  BY QueueParts
<1>1. /\ waiting' = [waiting EXCEPT ![s] = new] /\ outstanding' = [outstanding EXCEPT ![s] = @ + 1]
      /\ ids' = ids \cup {i} /\ running' = running /\ outstanding[s] < SourceCapacity
      /\ i \notin ids /\ Cardinality(ids) < Capacity
  BY DEF Enqueue
<1>2. e \in Request /\ e.id = i
  BY <1>0, QueueAssumption, SMT DEF Request, TypeOK
<1>3. waiting \in [Source -> Seq(Request)]
  BY <1>0 DEF TypeOK, Request
<1>4. /\ new \in Seq(Request) /\ Len(new) = Len(waiting[s]) + 1
      /\ \A n \in DOMAIN new : \/ n \in DOMAIN waiting[s] /\ new[n] = waiting[s][n]
                               \/ n = Len(waiting[s]) + 1 /\ new[n] = e
      /\ \A n \in DOMAIN waiting[s] : n \in DOMAIN new /\ new[n] = waiting[s][n]
      /\ Len(waiting[s]) + 1 \in DOMAIN new /\ new[Len(waiting[s]) + 1] = e
  BY <1>2, <1>3, SMT
<1>5. waiting'[s] = new /\ \A r \in Source : r # s => waiting'[r] = waiting[r]
  BY <1>1, <1>3
<1>6. \A r \in Source : i \notin Waiting(r)
  BY <1>0, <1>1 DEF Listed
<1>7. i \notin RunningIds
  BY <1>0, <1>1 DEF Listed
<1>8. Unique'
  <2>1. \A r \in Source : \A n \in DOMAIN waiting'[r] :
            \/ n \in DOMAIN waiting[r] /\ waiting'[r][n] = waiting[r][n] /\ waiting[r][n].id # i
            \/ r = s /\ n = Len(waiting[s]) + 1 /\ waiting'[r][n].id = i
    BY <1>2, <1>4, <1>5, <1>6 DEF Waiting
  <2> QED BY <1>0, <2>1 DEF Unique
<1>9. \A r \in Source : Waiting(r)' = IF r = s THEN Waiting(r) \cup {i} ELSE Waiting(r)
  <2>1. \A x \in Waiting(s)' : x = i \/ x \in Waiting(s)
    BY <1>2, <1>4, <1>5 DEF Waiting
  <2>2. i \in Waiting(s)' /\ \A x \in Waiting(s) : x \in Waiting(s)'
    BY <1>2, <1>4, <1>5 DEF Waiting
  <2>3. \A r \in Source : r # s => Waiting(r)' = Waiting(r)
    BY <1>5 DEF Waiting
  <2> QED BY <2>1, <2>2, <2>3
<1>10. RunningIds' = RunningIds /\ \A r \in Source : RunningOf(r)' = RunningOf(r)
  BY <1>1 DEF RunningIds, RunningOf
<1>11. Listed'
  BY <1>0, <1>1, <1>9, <1>10 DEF Listed
<1>12. WaitsOrRuns'
  BY <1>0, <1>7, <1>9, <1>10 DEF WaitsOrRuns
<1>13. RunsOnce'
  BY <1>0, <1>1 DEF RunsOnce
<1>14. \A r \in Source : /\ Len(waiting[r]) \in Nat /\ Cardinality(RunningOf(r)) \in Nat
                         /\ outstanding[r] \in Nat /\ outstanding \in [Source -> Nat]
  BY <1>0, FifoTypes, RunningTypes
<1>15. /\ outstanding'[s] = outstanding[s] + 1
       /\ \A r \in Source : r # s => outstanding'[r] = outstanding[r]
  BY <1>1, <1>14
<1>16. Counted'
  <2>1. outstanding'[s] = Len(waiting'[s]) + Cardinality(RunningOf(s))
    <3>1. outstanding[s] = Len(waiting[s]) + Cardinality(RunningOf(s))
      BY <1>0 DEF Counted
    <3>2. Len(waiting'[s]) = Len(waiting[s]) + 1
      BY <1>4, <1>5
    <3> QED BY ONLY <1>14, <1>15, <3>1, <3>2, s \in Source, SMT
  <2> QED BY <1>0, <1>5, <1>10, <1>15, <2>1 DEF Counted
<1>17. Bounded'
  <2>1. outstanding[s] + 1 <= SourceCapacity
    BY <1>1, <1>14, QueueAssumption, SMT
  <2> QED BY <1>0, <1>15, <2>1 DEF Bounded
<1>18. Fits'
  <2>1. IsFiniteSet(ids') /\ Cardinality(ids') = Cardinality(ids) + 1 /\ Cardinality(ids) \in Nat
    BY <1>0, <1>1, FS_AddElement, FS_CardinalityType DEF Fits
  <2>2. Cardinality(ids) + 1 <= Capacity
    BY <1>1, <2>1, QueueAssumption, SMT
  <2> QED BY <2>1, <2>2 DEF Fits
<1>19. TypeOK'
  <2>1. waiting' \in [Source -> Seq(Request)]
    BY <1>1, <1>3, <1>4
  <2>2. outstanding' \in [Source -> Nat]
    <3>1. outstanding[s] + 1 \in Nat
      BY <1>14, SMT
    <3> QED BY <1>1, <1>14, <3>1
  <2> QED BY <1>0, <1>1, <2>1, <2>2 DEF TypeOK, Request, Enqueue
<1> QED BY <1>8, <1>11, <1>12, <1>13, <1>16, <1>17, <1>18, <1>19, QueuePartsNext

Ids(fifo) == {fifo[n].id : n \in DOMAIN fifo}

(* What a FIFO keeps when the places in gone leave it. *)
Thinned(new, old, gone) ==
    /\ Cardinality(gone) \in Nat /\ Len(new) \in Nat /\ Len(new) = Len(old) - Cardinality(gone)
    /\ \A n \in DOMAIN old : n \notin gone => \E k \in DOMAIN new : new[k] = old[n]
    /\ \E at \in [DOMAIN new -> DOMAIN old] :
         /\ \A k \in DOMAIN new : at[k] \notin gone /\ new[k] = old[at[k]]
         /\ \A j, k \in DOMAIN new : at[j] = at[k] => j = k

LEMMA WithoutThins ==
    ASSUME NEW T, NEW p \in Seq(T), NEW g \in SUBSET DOMAIN p, NEW q, q = Without(p, g)
    PROVE  q \in Seq(T) /\ Thinned(q, p, g)
<1>1. /\ q \in Seq(T) /\ IsFiniteSet(g) /\ Cardinality(g) \in Nat
      /\ Len(q) = Len(p) - Cardinality(g)
  BY WithoutIs
<1>2. PICK at \in [DOMAIN q -> DOMAIN p \ g] :
                /\ \A k \in DOMAIN q : q[k] = p[at[k]]
                /\ \A n \in DOMAIN p \ g : \E k \in DOMAIN q : at[k] = n
                /\ \A j, k \in DOMAIN q : at[j] = at[k] => j = k
  <2>1. \E at \in [DOMAIN Without(p, g) -> DOMAIN p \ g] :
                /\ \A k \in DOMAIN Without(p, g) : Without(p, g)[k] = p[at[k]]
                /\ \A n \in DOMAIN p \ g : \E k \in DOMAIN Without(p, g) : at[k] = n
                /\ \A j, k \in DOMAIN Without(p, g) : at[j] = at[k] => j = k
    BY WithoutIs
  <2> QED BY <2>1
<1>3. Len(q) \in Nat
  BY ONLY <1>1, SMT
<1>4. \A k \in DOMAIN q : at[k] \in DOMAIN p /\ at[k] \notin g
  BY <1>2
<1>5. \A n \in DOMAIN p : n \notin g => \E k \in DOMAIN q : q[k] = p[n]
  <2> SUFFICES ASSUME NEW n \in DOMAIN p, n \notin g PROVE \E k \in DOMAIN q : q[k] = p[n]
    OBVIOUS
  <2>1. PICK k \in DOMAIN q : at[k] = n
    BY <1>2
  <2>2. q[k] = p[at[k]]
    BY <1>2
  <2> QED BY <2>1, <2>2
<1>6. at \in [DOMAIN q -> DOMAIN p]
  BY <1>2, <1>4
<1>7. \E a \in [DOMAIN q -> DOMAIN p] :
          /\ \A k \in DOMAIN q : a[k] \notin g /\ q[k] = p[a[k]]
          /\ \A j, k \in DOMAIN q : a[j] = a[k] => j = k
  BY ONLY <1>2, <1>4, <1>6
<1> QED BY ONLY <1>1, <1>3, <1>5, <1>7 DEF Thinned

LEMMA ThinnedByNone == ASSUME NEW T, NEW p \in Seq(T) PROVE Thinned(p, p, {})
<1>1. Len(p) \in Nat /\ Cardinality({}) = 0
  BY FS_EmptySet, SMT
<1>2. Len(p) = Len(p) - 0
  BY <1>1, SMT
<1> DEFINE at == [k \in DOMAIN p |-> k]
<1>3. at \in [DOMAIN p -> DOMAIN p] /\ \A k \in DOMAIN p : at[k] = k
  OBVIOUS
<1> HIDE DEF at
<1>4. \E a \in [DOMAIN p -> DOMAIN p] :
          /\ \A k \in DOMAIN p : a[k] \notin {} /\ p[k] = p[a[k]]
          /\ \A j, k \in DOMAIN p : a[j] = a[k] => j = k
  BY <1>3
<1>5. 0 \in Nat
  OBVIOUS
<1> QED BY ONLY <1>1, <1>2, <1>4, <1>5 DEF Thinned

Distinct(fifos) ==
    \A s, r \in Source : \A n \in DOMAIN fifos[s], m \in DOMAIN fifos[r] :
        fifos[s][n].id = fifos[r][m].id => s = r /\ n = m

Lost(fifos, gone) == {i \in Job : \E s \in Source : \E n \in gone[s] : fifos[s][n].id = i}

(* Of FIFOs that hold each request once: exactly the requests at the places leave. *)
LEMMA ThinnedIds ==
    ASSUME NEW old \in [Source -> Seq(Request)], NEW gone, NEW new,
           \A s \in Source : gone[s] \in SUBSET DOMAIN old[s],
           \A s \in Source : Thinned(new[s], old[s], gone[s]),
           Distinct(old)
    PROVE  /\ Distinct(new)
           /\ \A s \in Source : Ids(new[s]) = Ids(old[s]) \ Lost(old, gone)
           /\ \A i \in Lost(old, gone) : \E s \in Source : i \in Ids(old[s])
<1>t. \A s \in Source : \A n \in DOMAIN old[s] : old[s][n].id \in Job
  <2> TAKE s \in Source
  <2>1. old[s] \in Seq(Request)
    OBVIOUS
  <2>2. \A n \in DOMAIN old[s] : old[s][n] \in Request
    BY ONLY <2>1, SMT
  <2> QED BY <2>2 DEF Request
<1>2. ASSUME NEW s \in Source, NEW r \in Source, NEW n \in DOMAIN new[s], NEW m \in DOMAIN new[r],
             new[s][n].id = new[r][m].id
      PROVE  s = r /\ n = m
  <2>1. PICK f \in [DOMAIN new[s] -> DOMAIN old[s]] :
            /\ \A k \in DOMAIN new[s] : f[k] \notin gone[s] /\ new[s][k] = old[s][f[k]]
            /\ \A j, k \in DOMAIN new[s] : f[j] = f[k] => j = k
    BY ZenonT(40) DEF Thinned
  <2>2. PICK g \in [DOMAIN new[r] -> DOMAIN old[r]] :
            \A k \in DOMAIN new[r] : g[k] \notin gone[r] /\ new[r][k] = old[r][g[k]]
    BY ZenonT(40) DEF Thinned
  <2>3. f[n] \in DOMAIN old[s] /\ new[s][n] = old[s][f[n]]
    BY <2>1
  <2>4. g[m] \in DOMAIN old[r] /\ new[r][m] = old[r][g[m]]
    BY <2>2
  <2>5. s = r
    BY <1>2, <2>3, <2>4 DEF Distinct
  <2>6. new[s][m] = old[s][f[m]] /\ f[m] \in DOMAIN old[s]
    BY <2>1, <2>5
  <2>7. f[n] = f[m]
    BY <1>2, <2>3, <2>5, <2>6 DEF Distinct
  <2> QED BY <2>1, <2>5, <2>7
<1>3. Distinct(new)
  BY <1>2 DEF Distinct
<1>5. ASSUME NEW s \in Source PROVE Ids(new[s]) = Ids(old[s]) \ Lost(old, gone)
  <2>0. Thinned(new[s], old[s], gone[s])
    OBVIOUS
  <2>1. ASSUME NEW i \in Ids(new[s]) PROVE i \in Ids(old[s]) /\ i \notin Lost(old, gone)
    <3>1. PICK k \in DOMAIN new[s] : i = new[s][k].id
      BY <2>1 DEF Ids
    <3>2. PICK n \in DOMAIN old[s] : n \notin gone[s] /\ new[s][k] = old[s][n]
      <4>1. PICK f \in [DOMAIN new[s] -> DOMAIN old[s]] :
                \A j \in DOMAIN new[s] : f[j] \notin gone[s] /\ new[s][j] = old[s][f[j]]
        BY <2>0, Zenon DEF Thinned
      <4> QED BY <4>1
    <3>3. i = old[s][n].id
      BY <3>1, <3>2
    <3>4. i \in Ids(old[s])
      BY <3>3 DEF Ids
    <3>5. ASSUME i \in Lost(old, gone) PROVE FALSE
      <4>1. PICK r \in Source : \E m \in gone[r] : old[r][m].id = i
        BY <3>5, Zenon DEF Lost
      <4>2. PICK m \in gone[r] : old[r][m].id = i
        BY <4>1
      <4>3. m \in DOMAIN old[r]
        OBVIOUS
      <4>4. s = r /\ n = m
        BY <3>3, <4>2, <4>3 DEF Distinct
      <4> QED BY <3>2, <4>2, <4>4
    <3> QED BY <3>4, <3>5
  <2>2. ASSUME NEW i \in Ids(old[s]), i \notin Lost(old, gone) PROVE i \in Ids(new[s])
    <3>1. PICK n \in DOMAIN old[s] : i = old[s][n].id
      BY <2>2 DEF Ids
    <3>2. n \notin gone[s]
      BY <1>t, <2>2, <3>1, Zenon DEF Lost
    <3>3. PICK k \in DOMAIN new[s] : new[s][k] = old[s][n]
      BY <2>0, <3>2, Zenon DEF Thinned
    <3> QED BY <3>1, <3>3 DEF Ids
  <2> QED BY <2>1, <2>2
<1>6. ASSUME NEW i \in Lost(old, gone) PROVE \E s \in Source : i \in Ids(old[s])
  <2>1. PICK s \in Source : \E n \in gone[s] : old[s][n].id = i
    BY <1>6, Zenon DEF Lost
  <2>2. PICK n \in gone[s] : old[s][n].id = i
    BY <2>1
  <2>3. n \in DOMAIN old[s]
    OBVIOUS
  <2>4. i \in Ids(old[s])
    BY <2>2, <2>3 DEF Ids
  <2> QED BY <2>4
<1> QED BY <1>3, <1>5, <1>6

(* Cancel and Pump's prune: places leave the FIFOs, and their requests ids_. *)
LEMMA Pruned ==
    ASSUME QueueInv, NEW gone,
           \A s \in Source : gone[s] \in SUBSET DOMAIN waiting[s],
           waiting' \in [Source -> Seq(Request)],
           \A s \in Source : Thinned(waiting'[s], waiting[s], gone[s]),
           \A s \in Source : outstanding'[s] = outstanding[s] - Cardinality(gone[s]),
           ids' = ids \ Lost(waiting, gone),
           running' = running
    PROVE  /\ \A s \in Source : outstanding'[s] \in Nat
           /\ TypeOK' => QueueInv'
<1>0. /\ TypeOK /\ Counted /\ Listed /\ Unique /\ WaitsOrRuns /\ RunsOnce
      /\ Bounded /\ Fits
  BY QueueParts
<1> PICK old, new : old = waiting /\ new = waiting'
  OBVIOUS
<1>3. /\ old \in [Source -> Seq(Request)]
      /\ \A s \in Source : gone[s] \in SUBSET DOMAIN old[s]
      /\ Distinct(old)
  <2>1. waiting \in [Source -> Seq(Request)]
    BY <1>0 DEF TypeOK, Request
  <2>2. Distinct(waiting)
    BY <1>0, Zenon DEF Unique, Distinct
  <2> QED BY <2>1, <2>2
<1>1. \A s \in Source : Thinned(new[s], old[s], gone[s])
  OBVIOUS
<1> PICK lost : lost = Lost(old, gone)
  OBVIOUS
<1>5. /\ Distinct(new)
      /\ \A s \in Source : Ids(new[s]) = Ids(old[s]) \ lost
      /\ \A i \in lost : \E s \in Source : i \in Ids(old[s])
  BY ONLY <1>1, <1>3, lost = Lost(old, gone), ThinnedIds
<1>8. \A s \in Source : Waiting(s) = Ids(old[s]) /\ Waiting(s)' = Ids(new[s])
  BY DEF Waiting, Ids
<1>6. RunningIds' = RunningIds /\ \A r \in Source : RunningOf(r)' = RunningOf(r)
  BY DEF RunningIds, RunningOf
<1>7. ids' = ids \ lost
  OBVIOUS
<1>u. Unique'
  BY <1>5 DEF Unique, Distinct
<1>9. Listed'
  <2>1. \A i : i \in ids <=> (\E s \in Source : i \in Ids(old[s])) \/ i \in RunningIds
    BY <1>0, <1>8 DEF Listed
  <2>2. \A i \in RunningIds : i \notin lost
    <3>1. \A s \in Source : \A i \in Ids(old[s]) : i \notin RunningIds
      BY <1>0, <1>8 DEF WaitsOrRuns
    <3> QED BY ONLY <1>5, <3>1
  <2>3. \A i : i \in ids' <=> (\E s \in Source : i \in Ids(new[s])) \/ i \in RunningIds
    BY ONLY <2>1, <2>2, <1>5, <1>7
  <2>4. (UNION {Waiting(s) : s \in Source})' = UNION {Ids(new[s]) : s \in Source}
    BY <1>8
  <2>5. ids' = (UNION {Ids(new[s]) : s \in Source}) \cup RunningIds
    BY ONLY <2>3
  <2> QED BY <1>6, <2>4, <2>5 DEF Listed
<1>10. WaitsOrRuns'
  BY <1>0, <1>5, <1>6, <1>8 DEF WaitsOrRuns
<1>11. RunsOnce'
  BY <1>0 DEF RunsOnce
<1>12. \A s \in Source : /\ outstanding'[s] = Len(waiting'[s]) + Cardinality(RunningOf(s))
                         /\ outstanding'[s] \in Nat
                         /\ outstanding'[s] <= outstanding[s]
  <2> TAKE s \in Source
  <2>1. /\ Len(waiting[s]) \in Nat /\ Cardinality(RunningOf(s)) \in Nat /\ outstanding[s] \in Nat
        /\ Cardinality(gone[s]) \in Nat /\ Len(waiting'[s]) \in Nat
    BY <1>0, <1>1, FifoTypes, RunningTypes DEF Thinned
  <2>2. /\ outstanding[s] = Len(waiting[s]) + Cardinality(RunningOf(s))
        /\ outstanding'[s] = outstanding[s] - Cardinality(gone[s])
        /\ Len(waiting'[s]) = Len(waiting[s]) - Cardinality(gone[s])
    BY <1>0, <1>1 DEF Counted, Thinned
  <2> PICK o, p, l, m, g, c : /\ o = outstanding[s] /\ p = outstanding'[s] /\ l = Len(waiting[s])
                              /\ m = Len(waiting'[s]) /\ g = Cardinality(gone[s])
                              /\ c = Cardinality(RunningOf(s))
    OBVIOUS
  <2>3. o \in Nat /\ l \in Nat /\ m \in Nat /\ g \in Nat /\ c \in Nat
        /\ o = l + c /\ p = o - g /\ m = l - g
    BY <2>1, <2>2
  <2>4. p = m + c /\ p \in Nat /\ p <= o
    BY ONLY <2>3, SMT
  <2> QED BY <2>4
<1>13. Counted'
  BY <1>6, <1>12 DEF Counted
<1>14. Bounded'
  <2>1. \A s \in Source : outstanding[s] <= SourceCapacity /\ outstanding[s] \in Nat
    BY <1>0, FifoTypes DEF Bounded
  <2>2. \A s \in Source : outstanding'[s] <= SourceCapacity
    <3> TAKE s \in Source
    <3> PICK o, p : o = outstanding[s] /\ p = outstanding'[s]
      OBVIOUS
    <3>1. o \in Nat /\ p \in Nat /\ p <= o /\ o <= SourceCapacity /\ SourceCapacity \in Nat
      BY <1>12, <2>1, QueueAssumption
    <3>2. p <= SourceCapacity
      BY ONLY <3>1, SMT
    <3> QED BY <3>2
  <2> QED BY <2>2 DEF Bounded
<1>15. Fits'
  <2>1. ids' \in SUBSET ids
    BY <1>7
  <2>2. IsFiniteSet(ids') /\ Cardinality(ids') <= Cardinality(ids)
        /\ Cardinality(ids') \in Nat /\ Cardinality(ids) \in Nat /\ Cardinality(ids) <= Capacity
    BY <1>0, <2>1, FS_Subset, FS_CardinalityType DEF Fits
  <2>3. Cardinality(ids') <= Capacity
    BY ONLY <2>2, QueueAssumption, SMT
  <2> QED BY <2>2, <2>3 DEF Fits
<1>16. TypeOK' => QueueInv'
  BY <1>u, <1>9, <1>10, <1>11, <1>13, <1>14, <1>15, QueuePartsNext
<1> QED BY <1>12, <1>16

LEMMA QueueCancel == ASSUME QueueInv, NEW i \in Job, Cancel(i) PROVE QueueInv'
<1>0. TypeOK /\ Unique
  BY QueueParts
<1>1. /\ ids' = ids \ {i} /\ notBefore' = Erased(notBefore, outstanding')
      /\ UNCHANGED <<running, lastSource, scan, freed, alive, now>>
  BY DEF Cancel
<1>2. PICK s \in Source : \E n \in DOMAIN waiting[s] :
        /\ waiting[s][n].id = i
        /\ waiting' = [waiting EXCEPT ![s] = Without(@, {n})]
        /\ outstanding' = [outstanding EXCEPT ![s] = @ - 1]
  BY Zenon DEF Cancel
<1>3. PICK n \in DOMAIN waiting[s] :
        /\ waiting[s][n].id = i
        /\ waiting' = [waiting EXCEPT ![s] = Without(@, {n})]
        /\ outstanding' = [outstanding EXCEPT ![s] = @ - 1]
  BY <1>2
<1> PICK gone : gone = [r \in Source |-> IF r = s THEN {n} ELSE {}]
  OBVIOUS
<1>4. gone[s] = {n} /\ \A r \in Source : r # s => gone[r] = {}
  OBVIOUS
<1>5. \A r \in Source : gone[r] \in SUBSET DOMAIN waiting[r]
  BY <1>4
<1>6. waiting \in [Source -> Seq(Request)] /\ outstanding \in [Source -> Nat]
  BY <1>0 DEF TypeOK, Request
<1>7. waiting'[s] = Without(waiting[s], gone[s]) /\ \A r \in Source : r # s => waiting'[r] = waiting[r]
  BY <1>3, <1>4, <1>6
<1>8. waiting'[s] \in Seq(Request) /\ Thinned(waiting'[s], waiting[s], gone[s])
  <2>1. waiting[s] \in Seq(Request)
    BY <1>6
  <2> QED BY <1>5, <1>7, <2>1, WithoutThins
<1>9. waiting' \in [Source -> Seq(Request)]
  BY <1>3, <1>6, <1>8
<1>10. \A r \in Source : Thinned(waiting'[r], waiting[r], gone[r])
  <2> SUFFICES ASSUME NEW r \in Source, r # s PROVE Thinned(waiting'[r], waiting[r], gone[r])
    BY <1>8
  <2>1. waiting[r] \in Seq(Request)
    BY <1>6
  <2>2. Thinned(waiting[r], waiting[r], {})
    BY <2>1, ThinnedByNone
  <2> QED BY <1>4, <1>7, <2>2
<1>11. \A r \in Source : outstanding'[r] = outstanding[r] - Cardinality(gone[r])
  <2>1. Cardinality({n}) = 1 /\ Cardinality({}) = 0
    BY FS_Singleton, FS_EmptySet
  <2>2. outstanding'[s] = outstanding[s] - 1
    BY <1>3, <1>6
  <2>3. \A r \in Source : r # s => outstanding'[r] = outstanding[r] - 0
    BY <1>3, <1>6, SMT
  <2> QED BY <1>4, <2>1, <2>2, <2>3
<1>12. Lost(waiting, gone) = {i}
  <2>1. i \in Lost(waiting, gone)
    BY <1>3, <1>4 DEF Lost
  <2>2. ASSUME NEW j \in Lost(waiting, gone) PROVE j = i
    <3>1. PICK r \in Source : \E m \in gone[r] : waiting[r][m].id = j
      BY <2>2, Zenon DEF Lost
    <3> QED BY <1>3, <1>4, <3>1
  <2> QED BY <2>1, <2>2
<1>13. ids' = ids \ Lost(waiting, gone)
  BY <1>1, <1>12
<1>14. (\A r \in Source : outstanding'[r] \in Nat) /\ (TypeOK' => QueueInv')
  BY <1>1, <1>5, <1>9, <1>10, <1>11, <1>13, Pruned
<1>15. outstanding' \in [Source -> Nat]
  BY <1>3, <1>6, <1>14
<1>16. notBefore' \in [Source -> Nat]
  <2>1. notBefore \in [Source -> Nat]
    BY <1>0 DEF TypeOK
  <2> QED BY <1>1, <2>1 DEF Erased
<1>17. TypeOK'
  BY <1>0, <1>1, <1>9, <1>15, <1>16 DEF TypeOK, Request
<1> QED BY <1>14, <1>17

LEMMA QueuePumpBegin == ASSUME QueueInv, PumpBegin PROVE QueueInv'
<1>0. TypeOK /\ Unique
  BY QueueParts
<1>1. /\ ids' = ids \ GoneIds /\ notBefore' = Erased(notBefore, outstanding')
      /\ waiting' = [s \in Source |-> Without(waiting[s], Gone(s))]
      /\ outstanding' = [s \in Source |-> outstanding[s] - Cardinality(Gone(s))]
      /\ scan' = 1 /\ freed' = {i \in GoneIds : alive[i]}
      /\ UNCHANGED <<running, lastSource, alive, now>>
  BY DEF PumpBegin
<1> PICK gone : gone = [s \in Source |-> Gone(s)]
  OBVIOUS
<1>2. \A s \in Source : gone[s] = Gone(s) /\ gone[s] \in SUBSET DOMAIN waiting[s]
  BY DEF Gone
<1>3. waiting \in [Source -> Seq(Request)]
  BY <1>0 DEF TypeOK, Request
<1>4. \A s \in Source : waiting'[s] \in Seq(Request) /\ Thinned(waiting'[s], waiting[s], gone[s])
  <2> TAKE s \in Source
  <2>1. waiting[s] \in Seq(Request) /\ waiting'[s] = Without(waiting[s], gone[s])
    BY <1>1, <1>2, <1>3
  <2> QED BY <1>2, <2>1, WithoutThins
<1>5. waiting' \in [Source -> Seq(Request)]
  <2>1. waiting' = [s \in Source |-> waiting'[s]]
    BY <1>1
  <2> QED BY <1>4, <2>1
<1>6. \A s \in Source : outstanding'[s] = outstanding[s] - Cardinality(gone[s])
  BY <1>1, <1>2
<1>7. \A s \in Source : \A n \in DOMAIN waiting[s] : waiting[s][n].id \in Job
  BY <1>0, FifoTypes DEF Request
<1>8. \A i : i \in GoneIds <=> \E s \in Source : \E n \in Gone(s) : waiting[s][n].id = i
  BY DEF GoneIds
<1>9. GoneIds = Lost(waiting, gone)
  <2>1. \A i \in GoneIds : i \in Job
    BY <1>2, <1>7, <1>8
  <2>2. \A i : i \in Lost(waiting, gone) <=>
                i \in Job /\ \E s \in Source : \E n \in gone[s] : waiting[s][n].id = i
    BY DEF Lost
  <2>3. \A i : i \in GoneIds <=> i \in Lost(waiting, gone)
    BY <1>2, <1>8, <2>1, <2>2
  <2> QED BY <2>3
<1>10. (\A s \in Source : outstanding'[s] \in Nat) /\ (TypeOK' => QueueInv')
  BY <1>1, <1>2, <1>4, <1>5, <1>6, <1>9, Pruned
<1>11. outstanding' \in [Source -> Nat]
  BY <1>1, <1>10
<1>12. notBefore' \in [Source -> Nat]
  <2>1. notBefore \in [Source -> Nat]
    BY <1>0 DEF TypeOK
  <2> QED BY <1>1, <2>1 DEF Erased
<1>13. freed' \subseteq Job
  BY <1>1, <1>9 DEF Lost
<1>14. scan' \in 0..Workers
  BY <1>1, QueueAssumption, SMT
<1>15. TypeOK'
  BY <1>0, <1>1, <1>5, <1>11, <1>12, <1>13, <1>14 DEF TypeOK, Request
<1> QED BY <1>10, <1>15

Held == [id : {{i} : i \in Job}, source : Source]

LEMMA QueueComplete == ASSUME QueueInv, NEW w \in Worker, Complete(w) PROVE QueueInv'
<1>0. /\ TypeOK /\ Counted /\ Listed /\ Unique /\ WaitsOrRuns /\ RunsOnce
      /\ Bounded /\ Fits
  BY QueueParts
<1>1. /\ ids' = ids \ running[w].id /\ notBefore' = Erased(notBefore, outstanding')
      /\ running[w] # Idle /\ running' = [running EXCEPT ![w] = Idle]
      /\ outstanding' = [outstanding EXCEPT ![running[w].source] = @ - 1]
      /\ UNCHANGED <<waiting, lastSource, scan, freed, alive, now>>
  BY DEF Complete
<1>2. PICK s \in Source, i \in Job : running[w].source = s /\ running[w].id = {i}
  BY <1>0, <1>1, RunningTypes
<1>3. running \in [Worker -> {Idle} \cup Held] /\ outstanding \in [Source -> Nat]
  BY <1>0 DEF TypeOK, Held
<1>4. running'[w] = Idle /\ \A v \in Worker : v # w => running'[v] = running[v]
  BY <1>1, <1>3
<1>5. running' \in [Worker -> {Idle} \cup Held]
  BY <1>1, <1>3
<1>6. Idle.id = {} /\ Idle.source = 0 /\ 0 \notin Source
  BY <1>0, RunningTypes
<1>7. \A x : x \in RunningIds' <=> x \in RunningIds /\ x # i
  <2>1. ASSUME NEW x, x \in RunningIds' PROVE x \in RunningIds /\ x # i
    <3>1. PICK v \in Worker : x \in running'[v].id
      BY <2>1 DEF RunningIds
    <3>2. v # w /\ x \in running[v].id
      BY <1>4, <1>6, <3>1
    <3>3. running[v] # Idle /\ running[v].id = {x}
      BY <1>0, <1>6, <3>2, RunningTypes
    <3>4. x # i
      BY <1>0, <1>2, <3>2, <3>3 DEF RunsOnce
    <3>5. x \in RunningIds
      BY <3>2 DEF RunningIds
    <3> QED BY <3>4, <3>5
  <2>2. ASSUME NEW x, x \in RunningIds, x # i PROVE x \in RunningIds'
    <3>1. PICK v \in Worker : x \in running[v].id
      BY <2>2 DEF RunningIds
    <3>2. v # w
      BY <1>2, <2>2, <3>1
    <3>3. x \in running'[v].id
      BY <1>4, <3>1, <3>2
    <3> QED BY <3>3 DEF RunningIds
  <2> QED BY <2>1, <2>2
<1>8. i \in RunningIds
  BY <1>2 DEF RunningIds
<1>9. \A r \in Source : Waiting(r)' = Waiting(r)
  BY <1>1 DEF Waiting
<1>10. Listed'
  <2>1. \A x : x \in ids <=> (\E r \in Source : x \in Waiting(r)) \/ x \in RunningIds
    BY <1>0 DEF Listed
  <2>2. \A r \in Source : i \notin Waiting(r)
    BY <1>0, <1>8 DEF WaitsOrRuns
  <2>3. ids' = ids \ {i}
    BY <1>1, <1>2
  <2>4. \A x : x \in ids' <=> (\E r \in Source : x \in Waiting(r)) \/ x \in RunningIds'
    BY ONLY <2>1, <2>2, <2>3, <1>7
  <2>5. (UNION {Waiting(r) : r \in Source})' = UNION {Waiting(r) : r \in Source}
    BY <1>9
  <2>6. ids' = (UNION {Waiting(r) : r \in Source}) \cup RunningIds'
    BY ONLY <2>4
  <2> QED BY <2>5, <2>6 DEF Listed
<1>11. Unique'
  BY <1>0, <1>1 DEF Unique
<1>12. WaitsOrRuns'
  BY <1>0, <1>7, <1>9 DEF WaitsOrRuns
<1>13. RunsOnce'
  <2>1. ASSUME NEW v \in Worker, NEW u \in Worker, running'[v].id = running'[u].id, running'[v] # Idle
        PROVE  v = u
    <3>1. v # w /\ running'[v] = running[v]
      BY <1>4, <2>1
    <3>2. running[v].id # {}
      BY <1>0, <2>1, <3>1, RunningTypes
    <3>3. u # w
      BY <1>4, <1>6, <2>1, <3>1, <3>2
    <3> QED BY <1>0, <1>4, <2>1, <3>1, <3>3 DEF RunsOnce
  <2> QED BY <2>1 DEF RunsOnce
<1>14. /\ w \in RunningOf(s) /\ RunningOf(s)' = RunningOf(s) \ {w}
       /\ \A r \in Source : r # s => RunningOf(r)' = RunningOf(r)
  BY <1>2, <1>4, <1>6 DEF RunningOf
<1>15. \A r \in Source : /\ Len(waiting[r]) \in Nat /\ Cardinality(RunningOf(r)) \in Nat
                         /\ IsFiniteSet(RunningOf(r)) /\ outstanding[r] \in Nat
                         /\ outstanding[r] = Len(waiting[r]) + Cardinality(RunningOf(r))
                         /\ outstanding[r] <= SourceCapacity
  BY <1>0, FifoTypes, RunningTypes DEF Counted, Bounded
<1>16. Cardinality(RunningOf(s)') = Cardinality(RunningOf(s)) - 1 /\ Cardinality(RunningOf(s)') \in Nat
  BY <1>14, <1>15, FS_RemoveElement, FS_CardinalityType
<1>17. outstanding'[s] = outstanding[s] - 1 /\ \A r \in Source : r # s => outstanding'[r] = outstanding[r]
  BY <1>1, <1>2, <1>3
<1>18. /\ outstanding'[s] = Len(waiting[s]) + Cardinality(RunningOf(s)')
       /\ outstanding'[s] \in Nat /\ outstanding'[s] <= SourceCapacity
  <2> PICK o, p, l, c, d : /\ o = outstanding[s] /\ p = outstanding'[s] /\ l = Len(waiting[s])
                           /\ c = Cardinality(RunningOf(s)) /\ d = Cardinality(RunningOf(s)')
    OBVIOUS
  <2>1. o \in Nat /\ l \in Nat /\ c \in Nat /\ d \in Nat /\ o = l + c /\ p = o - 1 /\ d = c - 1
        /\ o <= SourceCapacity /\ SourceCapacity \in Nat
    BY <1>15, <1>16, <1>17, QueueAssumption
  <2>2. p = l + d /\ p \in Nat /\ p <= SourceCapacity
    BY ONLY <2>1, SMT
  <2> QED BY <2>2
<1>19. Counted'
  BY <1>1, <1>14, <1>15, <1>17, <1>18 DEF Counted
<1>20. Bounded'
  BY <1>15, <1>17, <1>18 DEF Bounded
<1>21. Fits'
  <2>1. ids' \in SUBSET ids
    BY <1>1
  <2>2. IsFiniteSet(ids') /\ Cardinality(ids') <= Cardinality(ids)
        /\ Cardinality(ids') \in Nat /\ Cardinality(ids) \in Nat /\ Cardinality(ids) <= Capacity
    BY <1>0, <2>1, FS_Subset, FS_CardinalityType DEF Fits
  <2>3. Cardinality(ids') <= Capacity
    BY ONLY <2>2, QueueAssumption, SMT
  <2> QED BY <2>2, <2>3 DEF Fits
<1>22. TypeOK'
  <2>1. outstanding' \in [Source -> Nat]
    BY <1>1, <1>2, <1>3, <1>18
  <2>2. notBefore \in [Source -> Nat]
    BY <1>0 DEF TypeOK
  <2>3. notBefore' \in [Source -> Nat]
    BY <1>1, <2>2 DEF Erased
  <2>4. ids' \subseteq Job
    BY <1>0, <1>1 DEF TypeOK
  <2> QED BY <1>0, <1>1, <1>5, <2>1, <2>3, <2>4 DEF TypeOK, Held
<1> QED BY <1>10, <1>11, <1>12, <1>13, <1>19, <1>20, <1>21, <1>22, QueuePartsNext

LEMMA PushedTypes ==
    ASSUME TypeOK, NEW rs \in SUBSET Source, NEW d \in [rs -> Delay]
    PROVE  Pushed(rs, d) \in [Source -> Nat] /\ \A s \in rs : Pushed(rs, d)[s] > now
<1>1. \A s \in rs : now + d[s] \in Nat /\ now + d[s] > now
  <2> TAKE s \in rs
  <2>1. d[s] \in Nat \ {0} /\ now \in Nat
    <3>1. d[s] \in Delay
      OBVIOUS
    <3>2. now \in Nat
      BY QueueAssumption, SMT DEF TypeOK
    <3> QED BY <3>1, <3>2, QueueAssumption
  <2> QED BY ONLY <2>1, SMT
<1>2. notBefore \in [Source -> Nat]
  BY DEF TypeOK
<1> QED BY <1>1, <1>2 DEF Pushed

LEMMA ScannedTypes == ASSUME TypeOK, scan # 0, Scanned PROVE scan' \in 0..Workers /\ freed' \subseteq Job
<1>1. scan' \in 0..Workers
  BY QueueAssumption, SMT DEF TypeOK, Scanned
<1>2. freed' \subseteq Job
  BY SMT DEF TypeOK, Scanned
<1> QED BY <1>1, <1>2

LEMMA QueueQuiet == ASSUME QueueInv, PumpBusy \/ PumpNone \/ Tick \/ \E i \in Job : Die(i) PROVE QueueInv'
<1>0. TypeOK
  BY DEF QueueInv
<1>1. CASE PumpBusy
  <2>1. /\ scan # 0 /\ Scanned
        /\ UNCHANGED <<waiting, notBefore, running, lastSource, ids, outstanding, alive, now>>
    BY <1>1 DEF PumpBusy, Scanned
  <2>2. TypeOK'
    BY <1>0, <2>1, ScannedTypes DEF TypeOK
  <2> QED BY <2>1, <2>2, QueueFrame
<1>2. CASE PumpNone
  <2>1. /\ scan # 0 /\ Scanned
        /\ UNCHANGED <<waiting, running, lastSource, ids, outstanding, alive, now>>
    BY <1>2 DEF PumpNone, Scanned
  <2>2. PICK d \in [Ready -> Delay] : notBefore' = Pushed(Ready, d)
    BY <1>2 DEF PumpNone
  <2>3. Ready \in SUBSET Source
    BY DEF Ready
  <2>4. notBefore' \in [Source -> Nat]
    BY <1>0, <2>2, <2>3, PushedTypes
  <2>5. TypeOK'
    BY <1>0, <2>1, <2>4, ScannedTypes DEF TypeOK
  <2> QED BY <2>1, <2>5, QueueFrame
<1>3. CASE Tick
  <2>1. now' \in 0..MaxTime
    BY <1>0, <1>3, QueueAssumption, SMT DEF Tick, TypeOK
  <2>2. UNCHANGED <<waiting, notBefore, running, lastSource, ids, outstanding, alive, scan, freed>>
    BY <1>3 DEF Tick, queue
  <2>3. TypeOK'
    BY <1>0, <2>1, <2>2 DEF TypeOK
  <2> QED BY <2>2, <2>3, QueueFrame
<1>4. ASSUME NEW i \in Job, Die(i) PROVE QueueInv'
  <2>1. alive' = [alive EXCEPT ![i] = FALSE]
    BY <1>4 DEF Die
  <2>2. UNCHANGED <<waiting, notBefore, running, lastSource, ids, outstanding, now, scan, freed>>
    BY <1>4 DEF Die, queue
  <2>3. TypeOK'
    BY <1>0, <2>1, <2>2 DEF TypeOK
  <2> QED BY <2>2, <2>3, QueueFrame
<1> QED BY <1>1, <1>2, <1>3, <1>4

LEMMA ThinnedByTail ==
    ASSUME NEW T, NEW p \in Seq(T), p # <<>>
    PROVE  /\ Tail(p) \in Seq(T) /\ Thinned(Tail(p), p, {1})
           /\ 1 \in DOMAIN p /\ Head(p) = p[1] /\ Head(p) \in T
<1> PICK q : q = Tail(p)
  OBVIOUS
<1>1. /\ q \in Seq(T) /\ Len(p) \in Nat \ {0} /\ Len(q) = Len(p) - 1 /\ Len(q) \in Nat
      /\ DOMAIN p = 1..Len(p) /\ DOMAIN q = 1..Len(q) /\ Head(p) = p[1] /\ Head(p) \in T
      /\ \A k \in 1..Len(q) : q[k] = p[k + 1]
  BY SMT
<1>2. Cardinality({1}) = 1
  BY FS_Singleton
<1> DEFINE at == [k \in DOMAIN q |-> k + 1]
<1>3. \A k \in DOMAIN q : k + 1 \in DOMAIN p /\ k + 1 # 1 /\ k \in Nat
  BY ONLY <1>1, SMT
<1>4. at \in [DOMAIN q -> DOMAIN p] /\ \A k \in DOMAIN q : at[k] = k + 1
  BY <1>3
<1> HIDE DEF at
<1>5. \A j, k \in DOMAIN q : at[j] = at[k] => j = k
  <2> SUFFICES ASSUME NEW j \in DOMAIN q, NEW k \in DOMAIN q, at[j] = at[k] PROVE j = k
    OBVIOUS
  <2>1. j + 1 = k + 1 /\ j \in Nat /\ k \in Nat
    BY <1>3, <1>4
  <2> QED BY ONLY <2>1, SMT
<1>6. \A k \in DOMAIN q : at[k] \notin {1} /\ q[k] = p[at[k]]
  BY <1>1, <1>3, <1>4
<1>7. \A n \in DOMAIN p : n \notin {1} => \E k \in DOMAIN q : q[k] = p[n]
  <2> SUFFICES ASSUME NEW n \in DOMAIN p, n # 1 PROVE \E k \in DOMAIN q : q[k] = p[n]
    OBVIOUS
  <2> PICK k : k = n - 1
    OBVIOUS
  <2>1. k \in 1..Len(q) /\ k + 1 = n
    BY ONLY <1>1, n \in DOMAIN p, n # 1, k = n - 1, SMT
  <2> QED BY <1>1, <2>1
<1>8. 1 \in Nat /\ 1 \in DOMAIN p
  BY ONLY <1>1, SMT
<1>9. Thinned(q, p, {1})
  BY ONLY <1>1, <1>2, <1>4, <1>5, <1>6, <1>7, <1>8 DEF Thinned
<1> QED BY <1>1, <1>8, <1>9

LEMMA QueuePumpStart == ASSUME QueueInv, NEW s \in Source, PumpStart(s) PROVE QueueInv'
<1>0. /\ TypeOK /\ Counted /\ Listed /\ Unique /\ WaitsOrRuns /\ RunsOnce
      /\ Bounded /\ Fits
  BY QueueParts
<1> PICK i, w : i = Head(waiting[s]).id /\ w = scan
  OBVIOUS
<1>1. /\ scan # 0 /\ running[w] = Idle /\ s \in Ready
      /\ running' = [running EXCEPT ![w] = [id |-> {i}, source |-> s]]
      /\ waiting' = [waiting EXCEPT ![s] = Tail(@)]
      /\ lastSource' = s /\ Scanned
      /\ UNCHANGED <<ids, outstanding, alive, now>>
  BY DEF PumpStart, Scanned
<1>2. w \in Worker
  BY <1>0, <1>1, QueueAssumption, SMT DEF TypeOK, Worker
<1>3. /\ running \in [Worker -> {Idle} \cup Held] /\ outstanding \in [Source -> Nat]
      /\ waiting \in [Source -> Seq(Request)]
  BY <1>0 DEF TypeOK, Held, Request
<1>4. waiting[s] \in Seq(Request) /\ waiting[s] # <<>>
  BY <1>1, <1>3 DEF Ready
<1>5. /\ Tail(waiting[s]) \in Seq(Request) /\ Thinned(Tail(waiting[s]), waiting[s], {1})
      /\ 1 \in DOMAIN waiting[s] /\ Head(waiting[s]) = waiting[s][1] /\ Head(waiting[s]) \in Request
  BY <1>4, ThinnedByTail
<1>6. i \in Job /\ waiting[s][1].id = i
  BY <1>5 DEF Request
<1>7. waiting' \in [Source -> Seq(Request)]
  BY <1>1, <1>3, <1>5
<1>8. waiting'[s] = Tail(waiting[s]) /\ \A r \in Source : r # s => waiting'[r] = waiting[r]
  BY <1>1, <1>3
<1> PICK gone : gone = [r \in Source |-> IF r = s THEN {1} ELSE {}]
  OBVIOUS
<1>9. gone[s] = {1} /\ \A r \in Source : r # s => gone[r] = {}
  OBVIOUS
<1>10. \A r \in Source : Thinned(waiting'[r], waiting[r], gone[r]) /\ gone[r] \in SUBSET DOMAIN waiting[r]
  <2> TAKE r \in Source
  <2>1. CASE r = s
    BY <1>5, <1>8, <1>9, <2>1
  <2>2. CASE r # s
    <3>1. waiting[r] \in Seq(Request)
      BY <1>3
    <3>2. Thinned(waiting[r], waiting[r], {})
      BY <3>1, ThinnedByNone
    <3> QED BY <1>8, <1>9, <2>2, <3>2
  <2> QED BY <2>1, <2>2
<1>11. Distinct(waiting)
  BY <1>0, Zenon DEF Unique, Distinct
<1> PICK old, new : old = waiting /\ new = waiting'
  OBVIOUS
<1>12. /\ Distinct(new)
       /\ \A r \in Source : Ids(new[r]) = Ids(old[r]) \ Lost(old, gone)
  <2>1. /\ old \in [Source -> Seq(Request)] /\ Distinct(old)
        /\ \A r \in Source : gone[r] \in SUBSET DOMAIN old[r]
        /\ \A r \in Source : Thinned(new[r], old[r], gone[r])
    BY <1>3, <1>10, <1>11
  <2> QED BY ONLY <2>1, ThinnedIds
<1>13. Lost(old, gone) = {i}
  <2>1. i \in Lost(old, gone)
    BY <1>6, <1>9 DEF Lost
  <2>2. ASSUME NEW j \in Lost(old, gone) PROVE j = i
    <3>1. PICK r \in Source : \E m \in gone[r] : old[r][m].id = j
      BY <2>2, Zenon DEF Lost
    <3> QED BY <1>6, <1>9, <3>1
  <2> QED BY <2>1, <2>2
<1>14. \A r \in Source : Waiting(r) = Ids(old[r]) /\ Waiting(r)' = Ids(new[r])
  BY DEF Waiting, Ids
<1>15. \A r \in Source : Waiting(r)' = Waiting(r) \ {i}
  BY <1>12, <1>13, <1>14
<1>16. i \in Waiting(s)
  BY <1>5, <1>6 DEF Waiting
<1>17. Unique'
  BY <1>12 DEF Unique, Distinct
<1>18. i \notin RunningIds
  BY <1>0, <1>16 DEF WaitsOrRuns
<1> PICK e : e = [id |-> {i}, source |-> s]
  OBVIOUS
<1>19. e \in Held /\ e.id = {i} /\ e.source = s
  BY <1>6 DEF Held
<1>20. /\ running'[w] = e /\ \A v \in Worker : v # w => running'[v] = running[v]
       /\ running' \in [Worker -> {Idle} \cup Held]
  BY <1>1, <1>2, <1>3, <1>19
<1>21. Idle.id = {} /\ Idle.source = 0 /\ 0 \notin Source
  BY <1>0, RunningTypes
<1>22. \A x : x \in RunningIds' <=> x \in RunningIds \/ x = i
  <2>1. ASSUME NEW x, x \in RunningIds' PROVE x \in RunningIds \/ x = i
    <3>1. PICK v \in Worker : x \in running'[v].id
      BY <2>1 DEF RunningIds
    <3>2. CASE v = w
      BY <1>19, <1>20, <3>1, <3>2
    <3>3. CASE v # w
      BY <1>20, <3>1, <3>3 DEF RunningIds
    <3> QED BY <3>2, <3>3
  <2>2. i \in RunningIds'
    BY <1>2, <1>19, <1>20 DEF RunningIds
  <2>3. ASSUME NEW x, x \in RunningIds PROVE x \in RunningIds'
    <3>1. PICK v \in Worker : x \in running[v].id
      BY <2>3 DEF RunningIds
    <3>2. v # w
      BY <1>1, <1>21, <3>1
    <3>3. x \in running'[v].id
      BY <1>20, <3>1, <3>2
    <3> QED BY <3>3 DEF RunningIds
  <2> QED BY <2>1, <2>2, <2>3
<1>23. Listed'
  <2>1. \A x : x \in ids <=> (\E r \in Source : x \in Waiting(r)) \/ x \in RunningIds
    BY <1>0 DEF Listed
  <2>2. \A x : x \in ids' <=> (\E r \in Source : x \in Ids(new[r])) \/ x \in RunningIds'
    BY <1>1, <1>14, <1>15, <1>16, <1>22, <2>1
  <2>3. (UNION {Waiting(r) : r \in Source})' = UNION {Ids(new[r]) : r \in Source}
    BY <1>14
  <2>4. ids' = (UNION {Ids(new[r]) : r \in Source}) \cup RunningIds'
    BY ONLY <2>2
  <2> QED BY <2>3, <2>4 DEF Listed
<1>24. WaitsOrRuns'
  BY <1>0, <1>15, <1>22 DEF WaitsOrRuns
<1>25. RunsOnce'
  <2>1. ASSUME NEW v \in Worker, v # w, running[v].id = {i} PROVE FALSE
    BY <1>18, <2>1 DEF RunningIds
  <2>2. ASSUME NEW v \in Worker, NEW u \in Worker, running'[v].id = running'[u].id, running'[v] # Idle
        PROVE  v = u
    <3>1. CASE v = w
      BY <1>19, <1>20, <2>1, <2>2, <3>1
    <3>2. CASE v # w /\ u = w
      BY <1>19, <1>20, <2>1, <2>2, <3>2
    <3>3. CASE v # w /\ u # w
      BY <1>0, <1>20, <2>2, <3>3 DEF RunsOnce
    <3> QED BY <3>1, <3>2, <3>3
  <2> QED BY <2>2 DEF RunsOnce
<1>26. /\ w \notin RunningOf(s) /\ RunningOf(s)' = RunningOf(s) \cup {w}
       /\ \A r \in Source : r # s => RunningOf(r)' = RunningOf(r)
  <2>1. w \notin RunningOf(s) /\ \A r \in Source : w \notin RunningOf(r)
    BY <1>1, <1>21 DEF RunningOf
  <2>2. \A r \in Source : \A v \in Worker : v # w => (v \in RunningOf(r)' <=> v \in RunningOf(r))
    BY <1>20 DEF RunningOf
  <2>3. \A r \in Source : w \in RunningOf(r)' <=> r = s
    BY <1>2, <1>19, <1>20 DEF RunningOf
  <2>4. \A r \in Source : RunningOf(r) \in SUBSET Worker /\ RunningOf(r)' \in SUBSET Worker
    BY DEF RunningOf
  <2> QED BY ONLY <2>1, <2>2, <2>3, <2>4, <1>2, s \in Source
<1>27. \A r \in Source : /\ Len(waiting[r]) \in Nat /\ Cardinality(RunningOf(r)) \in Nat
                         /\ IsFiniteSet(RunningOf(r)) /\ outstanding[r] \in Nat
                         /\ outstanding[r] = Len(waiting[r]) + Cardinality(RunningOf(r))
  BY <1>0, FifoTypes, RunningTypes DEF Counted
<1>28. Cardinality(RunningOf(s)') = Cardinality(RunningOf(s)) + 1
  BY <1>26, <1>27, FS_AddElement
<1>29. outstanding[s] = Len(waiting'[s]) + Cardinality(RunningOf(s)')
  <2>1. Len(waiting'[s]) = Len(waiting[s]) - 1
    BY <1>4, <1>8, SMT
  <2> PICK o, l, m, c, d : /\ o = outstanding[s] /\ l = Len(waiting[s]) /\ m = Len(waiting'[s])
                           /\ c = Cardinality(RunningOf(s)) /\ d = Cardinality(RunningOf(s)')
    OBVIOUS
  <2>2. o \in Nat /\ l \in Nat /\ c \in Nat /\ o = l + c /\ m = l - 1 /\ d = c + 1
    BY <1>27, <1>28, <2>1
  <2>3. o = m + d
    BY ONLY <2>2, SMT
  <2> QED BY <2>3
<1>30. Counted'
  BY <1>1, <1>8, <1>26, <1>27, <1>29 DEF Counted
<1>31. Bounded' /\ Fits'
  BY <1>0, <1>1 DEF Bounded, Fits
<1>32. TypeOK'
  <2>1. PICK d \in [Before(s) -> Delay] : notBefore' = Pushed(Before(s), d)
    BY DEF PumpStart
  <2>2. Before(s) \in SUBSET Source
    BY DEF Before, Ready
  <2>3. notBefore' \in [Source -> Nat]
    BY <1>0, <2>1, <2>2, PushedTypes
  <2>4. lastSource' \in 0..Sources
    BY <1>1, QueueAssumption, SMT DEF Source
  <2> QED BY <1>0, <1>1, <1>7, <1>20, <2>3, <2>4, ScannedTypes DEF TypeOK, Held, Request
<1> QED BY <1>17, <1>23, <1>24, <1>25, <1>30, <1>31, <1>32, QueuePartsNext

-----------------------------------------------------------------------------
LEMMA QueueInit == ASSUME Init PROVE QueueInv
<1>1. TypeOK
  BY QueueAssumption, SMT DEF Init, TypeOK
<1>2. /\ \A s \in Source : waiting[s] = <<>> /\ outstanding[s] = 0
      /\ ids = {} /\ \A w \in Worker : running[w] = Idle
  BY DEF Init
<1>3. Idle.id = {} /\ Idle.source = 0 /\ 0 \notin Source
  BY <1>1, RunningTypes
<1>4. \A s \in Source : Waiting(s) = {} /\ RunningOf(s) = {}
  <2>1. DOMAIN <<>> = {}
    BY SMT
  <2> QED BY <1>2, <1>3, <2>1 DEF Waiting, RunningOf
<1>5. RunningIds = {}
  BY <1>2, <1>3 DEF RunningIds
<1>6. Cardinality({}) = 0 /\ IsFiniteSet({}) /\ Len(<<>>) = 0 /\ 0 = 0 + 0
  BY FS_EmptySet, SMT
<1>7. Counted
  BY <1>2, <1>4, <1>6 DEF Counted
<1>8. Listed
  BY <1>2, <1>4, <1>5 DEF Listed
<1>9. Unique
  <2>1. DOMAIN <<>> = {}
    BY SMT
  <2> QED BY <1>2, <2>1 DEF Unique
<1>10. WaitsOrRuns /\ RunsOnce
  BY <1>2, <1>4 DEF WaitsOrRuns, RunsOnce
<1>11. Bounded /\ Fits
  <2>1. 0 <= Capacity /\ 0 <= SourceCapacity
    BY QueueAssumption, SMT
  <2> QED BY <1>2, <1>6, <2>1 DEF Bounded, Fits
<1> QED BY <1>1, <1>7, <1>8, <1>9, <1>10, <1>11, QueueParts

LEMMA QueueNext == ASSUME QueueInv, [Next]_vars PROVE QueueInv'
<1>1. CASE UNCHANGED vars
  <2>1. UNCHANGED <<waiting, outstanding, notBefore, ids, running, lastSource, scan, freed, alive, now>>
    BY <1>1 DEF vars, queue
  <2>2. TypeOK'
    BY <2>1 DEF QueueInv, TypeOK
  <2> QED BY <2>1, <2>2, QueueFrame
<1>2. CASE Next
  BY <1>2, QueueEnqueue, QueueCancel, QueueComplete, QueuePumpBegin, QueuePumpStart, QueueQuiet
     DEF Next, PumpStep
<1> QED BY <1>1, <1>2

LEMMA QueueSpec == Spec => []QueueInv
<1>1. Init => QueueInv
  BY QueueInit
<1>2. QueueInv /\ [Next]_vars => QueueInv'
  BY QueueNext
<1> QED BY <1>1, <1>2, PTL DEF Spec

(* Every queue, slot and count has its type, and waiting requests carry a    *)
(* deadline (CredentialQueue in credential_queue.h).                         *)
THEOREM QueueTypes == Spec => []TypeOK
<1>1. QueueInv => TypeOK
  BY DEF QueueInv
<1> QED BY <1>1, QueueSpec, PTL

(* ids_, Source::outstanding and the places of the requests agree in every   *)
(* state, also between two callbacks of a running Pump, so Enqueue's limits  *)
(* hold for any capacities.                                                  *)
THEOREM AccountsExact == Spec => []QueueSound
<1>1. QueueInv => QueueSound
  BY DEF QueueInv, QueueSound
<1> QED BY <1>1, QueueSpec, PTL

-----------------------------------------------------------------------------
(* The round robin.  A source that waits comes before everyone it let pass. *)
TurnAfter(last, s) == IF s > last THEN s - last ELSE s + Sources - last

RoundInv ==
    /\ TypeOK
    /\ passed \in [Source -> SUBSET Source]
    /\ \A r \in Source : \A s \in passed[r] : r \in Ready /\ Turn(r) < Turn(s)

LEMMA TurnTypes ==
    ASSUME NEW last \in 0..Sources, NEW s \in Source
    PROVE  TurnAfter(last, s) \in 1..Sources
<1>1. s \in Nat /\ 1 <= s /\ s <= Sources /\ last \in Nat /\ last <= Sources /\ Sources \in Nat
  BY QueueAssumption, SMT DEF Source
<1>2. TurnAfter(last, s) = IF s > last THEN s - last ELSE s + Sources - last
  BY DEF TurnAfter
<1> QED BY ONLY <1>1, <1>2, SMT

(* Serving s0 moves it to the end and those after it up by as much. *)
LEMMA TurnsMove ==
    ASSUME NEW last \in 0..Sources, NEW s0 \in Source, NEW s \in Source
    PROVE  /\ TurnAfter(s0, s0) = Sources
           /\ TurnAfter(last, s0) < TurnAfter(last, s) =>
                TurnAfter(s0, s) = TurnAfter(last, s) - TurnAfter(last, s0)
           /\ TurnAfter(last, s0) = TurnAfter(last, s) => s = s0
<1>1. /\ s \in Nat /\ 1 <= s /\ s <= Sources /\ last \in Nat /\ last <= Sources /\ Sources \in Nat
      /\ s0 \in Nat /\ 1 <= s0 /\ s0 <= Sources
  BY QueueAssumption, SMT DEF Source
<1> PICK a, b, c, d : /\ a = TurnAfter(s0, s0) /\ b = TurnAfter(last, s0)
                      /\ c = TurnAfter(last, s) /\ d = TurnAfter(s0, s)
  OBVIOUS
<1>2. /\ a = (IF s0 > s0 THEN s0 - s0 ELSE s0 + Sources - s0)
      /\ b = (IF s0 > last THEN s0 - last ELSE s0 + Sources - last)
      /\ c = (IF s > last THEN s - last ELSE s + Sources - last)
      /\ d = (IF s > s0 THEN s - s0 ELSE s + Sources - s0)
  BY DEF TurnAfter
<1>3. a = Sources /\ (b < c => d = c - b) /\ (b = c => s = s0)
  BY ONLY <1>1, <1>2, SMT
<1> QED BY <1>3

(* Whom a step serves: the source of the request a scan starts, or nobody. *)
LEMMA ServedBy ==
    ASSUME TypeOK, [Next]_vars
    PROVE  \/ Served = {} /\ UNCHANGED lastSource
           \/ \E s \in Source : Served = {s} /\ PumpStart(s)
<1>1. running \in [Worker -> {Idle} \cup Held] /\ Idle.source = 0 /\ 0 \notin Source
  BY RunningTypes DEF TypeOK, Held
<1>2. ASSUME UNCHANGED running PROVE Served = {}
  BY <1>1, <1>2 DEF Served
<1>3. ASSUME NEW w \in Worker, Complete(w) PROVE Served = {} /\ UNCHANGED lastSource
  <2>1. running' = [running EXCEPT ![w] = Idle] /\ UNCHANGED lastSource
    BY <1>3 DEF Complete
  <2>2. \A v \in Worker : running[v] = Idle => running'[v].source = 0
    BY <1>1, <2>1
  <2> QED BY <1>1, <2>1, <2>2 DEF Served
<1>4. ASSUME NEW s \in Source, PumpStart(s) PROVE Served = {s}
  <2> PICK e : e = [id |-> {Head(waiting[s]).id}, source |-> s]
    OBVIOUS
  <2>1. running[scan] = Idle /\ running' = [running EXCEPT ![scan] = e] /\ e.source = s
    BY <1>4 DEF PumpStart
  <2>2. scan \in Worker
    BY <1>4, QueueAssumption, SMT DEF TypeOK, Worker, PumpStart
  <2>3. running'[scan] = e /\ \A v \in Worker : v # scan => running'[v] = running[v]
    BY <1>1, <2>1, <2>2
  <2>4. s \in Served
    BY <2>1, <2>2, <2>3 DEF Served
  <2>5. ASSUME NEW r \in Served PROVE r = s
    <3>1. PICK w \in Worker : running[w] = Idle /\ running'[w].source = r
      BY DEF Served
    <3>2. r \in Source
      BY DEF Served
    <3> QED BY <1>1, <2>1, <2>3, <3>1, <3>2
  <2> QED BY <2>4, <2>5
<1>5. ASSUME UNCHANGED <<running, lastSource>> PROVE Served = {} /\ UNCHANGED lastSource
  BY <1>2, <1>5
<1>6. CASE UNCHANGED vars
  BY <1>5, <1>6 DEF vars, queue
<1>7. CASE Next
  <2>1. ASSUME NEW i \in Job, NEW s \in Source, Enqueue(i, s) PROVE UNCHANGED <<running, lastSource>>
    BY <2>1 DEF Enqueue
  <2>2. ASSUME NEW i \in Job, Cancel(i) \/ Die(i) PROVE UNCHANGED <<running, lastSource>>
    BY <2>2 DEF Cancel, Die, queue
  <2>3. PumpBegin \/ PumpBusy \/ PumpNone \/ Tick => UNCHANGED <<running, lastSource>>
    BY DEF PumpBegin, PumpBusy, PumpNone, Tick, queue
  <2> QED BY <1>3, <1>4, <1>5, <1>7, <2>1, <2>2, <2>3 DEF Next, PumpStep
<1> QED BY <1>6, <1>7

(* A source the scan could have taken before s was told to wait. *)
LEMMA ServedBefore ==
    ASSUME TypeOK, NEW s \in Source, PumpStart(s), NEW r \in Source, r # s,
           waiting'[r] # <<>>, ~(notBefore'[r] > now')
    PROVE  r \in Ready /\ Turn(s) < Turn(r)
<1>1. PICK d \in [Before(s) -> Delay] : notBefore' = Pushed(Before(s), d)
  BY DEF PumpStart
<1>2. Before(s) \in SUBSET Source
  BY DEF Before, Ready
<1>3. now' = now /\ waiting' = [waiting EXCEPT ![s] = Tail(@)]
  BY DEF PumpStart, Scanned
<1>4. waiting \in [Source -> Seq(Request)] /\ notBefore \in [Source -> Nat] /\ now \in Nat
  <2>1. now \in 0..MaxTime
    BY DEF TypeOK
  <2>2. now \in Nat
    BY ONLY <2>1, QueueAssumption, SMT
  <2> QED BY <2>2 DEF TypeOK, Request
<1>5. r \notin Before(s)
  BY <1>1, <1>2, <1>3, PushedTypes
<1>6. notBefore'[r] = notBefore[r]
  BY <1>1, <1>5 DEF Pushed
<1>7. waiting'[r] = waiting[r]
  BY <1>3, <1>4
<1>8. notBefore[r] <= now
  <2>1. notBefore[r] \in Nat /\ ~(notBefore[r] > now)
    BY <1>3, <1>4, <1>6
  <2> QED BY ONLY <2>1, <1>4, SMT
<1>9. r \in Ready
  BY <1>7, <1>8 DEF Ready
<1>10. Turn(r) = TurnAfter(lastSource, r) /\ Turn(s) = TurnAfter(lastSource, s)
  BY DEF Turn, TurnAfter
<1>11. lastSource \in 0..Sources
  BY DEF TypeOK
<1>12. Turn(r) # Turn(s) /\ ~(Turn(r) < Turn(s))
  BY <1>5, <1>9, <1>10, <1>11, TurnsMove DEF Before
<1>13. Turn(r) \in Nat /\ Turn(s) \in Nat
  BY <1>10, <1>11, TurnTypes
<1> QED BY ONLY <1>9, <1>12, <1>13, SMT

LEMMA RoundNext == ASSUME RoundInv, TypeOK', [HNext]_hvars PROVE RoundInv'
<1>1. CASE UNCHANGED hvars
  <2>1. UNCHANGED <<waiting, notBefore, lastSource, now, passed>>
    BY <1>1 DEF hvars, vars, queue
  <2>2. Ready' = Ready /\ \A s \in Source : Turn(s)' = Turn(s)
    BY <2>1 DEF Ready, Turn
  <2> QED BY <2>1, <2>2 DEF RoundInv
<1>2. CASE HNext
  <2>1. /\ [Next]_vars
        /\ passed' = [r \in Source |->
             IF r \in Served \/ waiting'[r] = <<>> \/ notBefore'[r] > now'
             THEN {} ELSE passed[r] \cup Served]
    BY <1>2 DEF HNext
  <2>2. Served \in SUBSET Source
    BY DEF Served
  <2>3. passed' \in [Source -> SUBSET Source]
    BY <2>1, <2>2 DEF RoundInv
  <2>4. \A r \in Source : passed'[r] # {} =>
            /\ r \notin Served /\ waiting'[r] # <<>> /\ ~(notBefore'[r] > now')
            /\ passed'[r] = passed[r] \cup Served
    BY <2>1
  <2>5. lastSource \in 0..Sources /\ lastSource' \in 0..Sources
    BY DEF RoundInv, TypeOK
  <2>6. \A r \in Source : Turn(r) = TurnAfter(lastSource, r) /\ Turn(r)' = TurnAfter(lastSource', r)
    BY DEF Turn, TurnAfter
  <2>7. \A r \in Source : passed'[r] # {} => r \in Ready'
    <3> SUFFICES ASSUME NEW r \in Source, passed'[r] # {} PROVE r \in Ready'
      OBVIOUS
    <3>1. waiting'[r] # <<>> /\ ~(notBefore'[r] > now')
      BY <2>4
    <3>2. notBefore'[r] \in Nat
      BY DEF TypeOK
    <3>3. now' \in 0..MaxTime
      BY DEF TypeOK
    <3>4. notBefore'[r] <= now'
      BY ONLY <3>1, <3>2, <3>3, QueueAssumption, SMT
    <3> QED BY <3>1, <3>4 DEF Ready
  <2>8. ASSUME NEW r \in Source, NEW s \in passed'[r] PROVE Turn(r)' < Turn(s)'
    <3>0. /\ r \notin Served /\ waiting'[r] # <<>> /\ ~(notBefore'[r] > now')
          /\ s \in passed[r] \cup Served /\ s \in Source
      BY <2>3, <2>4, <2>8
    <3>1. s \in passed[r] => Turn(r) < Turn(s)
      BY DEF RoundInv
    <3>2. CASE Served = {} /\ UNCHANGED lastSource
      BY <2>6, <3>0, <3>1, <3>2
    <3>3. ASSUME NEW s0 \in Source, Served = {s0}, PumpStart(s0) PROVE Turn(r)' < Turn(s)'
      <4>1. r # s0 /\ Turn(s0) < Turn(r)
        BY <3>0, <3>3, ServedBefore DEF RoundInv
      <4>2. lastSource' = s0
        BY <3>3 DEF PumpStart
      <4> PICK l, a, b, c, p, q, t : /\ l = lastSource /\ a = TurnAfter(l, s0)
                                  /\ b = TurnAfter(l, r) /\ c = TurnAfter(l, s)
                                  /\ p = TurnAfter(s0, r) /\ q = TurnAfter(s0, s)
                                  /\ t = TurnAfter(s0, s0)
        OBVIOUS
      <4>3. l \in 0..Sources
        BY <2>5
      <4>4. a \in 1..Sources /\ b \in 1..Sources /\ c \in 1..Sources
        BY <3>0, <4>3, TurnTypes
      <4>5. t = Sources /\ (a < b => p = b - a) /\ (a < c => q = c - a)
        BY <3>0, <4>3, TurnsMove
      <4>6. a < b
        BY <2>6, <4>1
      <4>7. s = s0 \/ b < c
        BY <2>6, <3>0, <3>1, <3>3
      <4>8. CASE s = s0
        <5>1. q = Sources
          BY <4>5, <4>8
        <5>2. p < q
          BY ONLY <4>4, <4>5, <4>6, <5>1, QueueAssumption, SMT
        <5> QED BY <2>6, <3>0, <4>2, <5>2
      <4>9. CASE b < c
        <5>1. p < q
          BY ONLY <4>4, <4>5, <4>6, <4>9, SMT
        <5> QED BY <2>6, <3>0, <4>2, <5>1
      <4> QED BY <4>7, <4>8, <4>9
    <3> QED BY <2>1, <3>2, <3>3, ServedBy DEF RoundInv
  <2> QED BY <2>3, <2>7, <2>8 DEF RoundInv
<1> QED BY <1>1, <1>2

LEMMA RoundStep ==
    ASSUME RoundInv, [HNext]_hvars, NEW r \in Source, Served \cap passed[r] # {}
    PROVE  r \in Served \/ waiting'[r] = <<>> \/ notBefore'[r] > now'
<1>1. [Next]_vars
  BY DEF HNext, hvars
<1>2. PICK s \in Source : Served = {s} /\ PumpStart(s)
  BY <1>1, ServedBy DEF RoundInv
<1>3. Turn(r) < Turn(s)
  BY <1>2 DEF RoundInv
<1> SUFFICES ASSUME r # s, waiting'[r] # <<>>, ~(notBefore'[r] > now') PROVE FALSE
  BY <1>2
<1>4. Turn(s) < Turn(r)
  BY <1>2, ServedBefore DEF RoundInv
<1>5. lastSource \in 0..Sources /\ Turn(r) = TurnAfter(lastSource, r) /\ Turn(s) = TurnAfter(lastSource, s)
  BY DEF RoundInv, TypeOK, Turn, TurnAfter
<1>6. Turn(r) \in 1..Sources /\ Turn(s) \in 1..Sources
  BY <1>5, TurnTypes
<1> QED BY ONLY <1>3, <1>4, <1>6, SMT

(* A burst of one source never keeps the others behind it: Pump starts from  *)
(* upper_bound(last_source_), so among the sources that stay ready and are   *)
(* not told to wait nobody is served twice before everyone was served once,  *)
(* for any number of sources and workers.                                    *)
THEOREM FairTurns == HSpec => RoundRobin
<1>1. HInit => Init /\ RoundInv
  <2> SUFFICES ASSUME HInit PROVE Init /\ RoundInv
    OBVIOUS
  <2>1. Init /\ passed = [s \in Source |-> {}]
    BY DEF HInit
  <2>2. TypeOK
    BY <2>1, QueueInit DEF QueueInv
  <2> QED BY <2>1, <2>2 DEF RoundInv
<1>2. [HNext]_hvars => [Next]_vars
  BY DEF HNext, hvars
<1>3. HSpec => Spec
  BY <1>1, <1>2, PTL DEF HSpec, Spec
<1>4. RoundInv /\ TypeOK' /\ [HNext]_hvars => RoundInv'
  BY RoundNext
<1>5. RoundInv /\ [HNext]_hvars => \A r \in Source : Served \cap passed[r] # {} =>
         r \in Served \/ waiting'[r] = <<>> \/ notBefore'[r] > now'
  BY RoundStep
<1> QED BY <1>1, <1>3, <1>4, <1>5, QueueTypes, PTL DEF HSpec, RoundRobin

-----------------------------------------------------------------------------
(* CredentialService.  What waits is what is listed and does not run. *)
Split ==
    /\ \A i : i \in InQueue <=> i \in ids /\ i \notin RunningIds
    /\ \A i : i \in RunningIds <=> \E w \in Worker : i \in Slots[w]
    /\ \A w \in Worker : Slots[w] = running[w].id

LEMMA InQueueIs == ASSUME QueueInv PROVE Split /\ InQueue \subseteq Job /\ RunningIds \subseteq ids
<1>1. TypeOK /\ Listed /\ WaitsOrRuns
  BY QueueParts
<1>2. \A i : i \in InQueue <=> \E s \in Source : i \in Waiting(s)
  BY DEF InQueue
<1>3. \A i : i \in ids <=> i \in InQueue \/ i \in RunningIds
  BY <1>1 DEF Listed, InQueue
<1>4. ids \subseteq Job
  BY <1>1 DEF TypeOK
<1>5. \A w \in Worker : Slots[w] = running[w].id
  BY DEF Slots
<1>6. \A i : i \in RunningIds <=> \E w \in Worker : i \in Slots[w]
  BY <1>5 DEF RunningIds
<1> QED BY <1>1, <1>2, <1>3, <1>4, <1>5, <1>6 DEF WaitsOrRuns, Split

LEMMA InQueueNext == ASSUME QueueInv' PROVE Split'
  BY InQueueIs, PTL

(* Steps that neither take from the queue nor run anything. *)
LEMMA SlotsFrame ==
    ASSUME running' = running
    PROVE  Slots' = Slots /\ RunningIds' = RunningIds
  BY DEF Slots, RunningIds

LEMMA PhaseFrame ==
    ASSUME scan' = scan, freed' = freed
    PROVE  Phase' = Phase /\ Callable' = Callable
  BY DEF Phase, Callable

LEMMA QueueFrameService ==
    ASSUME UNCHANGED <<waiting, running>>
    PROVE  InQueue' = InQueue /\ Slots' = Slots
  BY DEF InQueue, Waiting, Slots

LEMMA EnqueueSubmits ==
    ASSUME QueueInv, QueueInv', NEW i \in Job, NEW s \in Source, Enqueue(i, s)
    PROVE  Service!Submit(i)
<1>1. /\ ids' = ids \cup {i} /\ i \notin ids /\ alive[i]
      /\ scan = 0 \/ (scan = 1 /\ i \in freed)
      /\ UNCHANGED <<running, scan, freed, alive>>
  BY DEF Enqueue
<1>2. Slots' = Slots /\ RunningIds' = RunningIds /\ Phase' = Phase /\ Callable' = Callable
  BY <1>1, SlotsFrame, PhaseFrame
<1>3. i \notin InQueue /\ i \notin RunningIds
  BY <1>1, InQueueIs DEF Split
<1>4. \A x : x \in InQueue' <=> x \in InQueue \/ x = i
  BY <1>1, <1>2, <1>3, InQueueIs, InQueueNext DEF Split
<1>5. InQueue' = InQueue \cup {i}
  BY <1>4
<1>6. \A w \in Worker : i \notin Slots[w]
  BY <1>3, InQueueIs DEF Split
<1>7. Phase = "none" \/ (Phase = "expiring" /\ i \in Callable)
  BY <1>1, SMT DEF Phase, Callable
<1> QED BY <1>1, <1>2, <1>3, <1>5, <1>6, <1>7 DEF Service!Submit

LEMMA CancelCancels ==
    ASSUME QueueInv, QueueInv', NEW i \in Job, Cancel(i)
    PROVE  Service!Cancel(i)
<1>1. scan = 0 /\ ~alive[i] /\ ids' = ids \ {i} /\ UNCHANGED <<running, scan, freed, alive>>
  BY DEF Cancel
<1>2. Slots' = Slots /\ RunningIds' = RunningIds /\ Phase' = Phase /\ Callable' = Callable
  BY <1>1, SlotsFrame, PhaseFrame
<1>3. \A x : x \in InQueue' <=> x \in InQueue /\ x # i
  BY <1>1, <1>2, InQueueIs, InQueueNext DEF Split
<1>4. InQueue' = InQueue \ {i}
  BY <1>3
<1>5. Phase = "none"
  BY <1>1 DEF Phase
<1> QED BY <1>1, <1>2, <1>4, <1>5 DEF Service!Cancel

LEMMA CompleteCompletes ==
    ASSUME QueueInv, QueueInv', NEW w \in Worker, Complete(w)
    PROVE  Service!Complete(w)
<1>1. /\ scan = 0 /\ running[w] # Idle /\ ids' = ids \ running[w].id
      /\ running' = [running EXCEPT ![w] = Idle] /\ UNCHANGED <<scan, freed, alive>>
  BY DEF Complete
<1>2. TypeOK /\ RunsOnce
  BY QueueParts
<1>3. PICK i \in Job : running[w].id = {i}
  BY <1>1, <1>2, RunningTypes
<1>4. running'[w].id = {} /\ \A v \in Worker : v # w => running'[v] = running[v]
  BY <1>1, <1>2, RunningTypes DEF TypeOK
<1>5. Slots' = [Slots EXCEPT ![w] = {}]
  BY <1>4 DEF Slots
<1>6. Slots[w] # {} /\ i \in RunningIds
  BY <1>3, InQueueIs DEF Split
<1>7. \A x : x \in RunningIds' <=> x \in RunningIds /\ x # i
  <2>1. \A v \in Worker : i \in running[v].id => v = w
    BY <1>1, <1>2, <1>3, RunningTypes DEF RunsOnce
  <2>2. ASSUME NEW x PROVE x \in RunningIds' <=> x \in RunningIds /\ x # i
    BY <1>3, <1>4, <2>1 DEF RunningIds
  <2> QED BY <2>2
<1>8. \A x : x \in InQueue' <=> x \in InQueue
  BY <1>1, <1>3, <1>6, <1>7, InQueueIs, InQueueNext DEF Split
<1>9. InQueue' = InQueue
  BY <1>8
<1>10. Phase = "none" /\ Phase' = Phase /\ Callable' = Callable
  BY <1>1, PhaseFrame DEF Phase
<1> QED BY <1>1, <1>5, <1>6, <1>9, <1>10 DEF Service!Complete

(* A request of a closed connection is gone, whether its deadline has passed or not. *)
LEMMA PumpPrunes ==
    ASSUME QueueInv, QueueInv', PumpBegin
    PROVE  \E late \in SUBSET Job : Service!Prune(late)
<1> PICK late : late = {i \in GoneIds : alive[i]}
  OBVIOUS
<1>1. /\ scan = 0 /\ scan' = 1 /\ ids' = ids \ GoneIds /\ freed' = late
      /\ UNCHANGED <<running, alive>>
  BY DEF PumpBegin
<1>2. Slots' = Slots /\ RunningIds' = RunningIds
  BY <1>1, SlotsFrame
<1>3. Phase = "none" /\ Phase' = "expiring" /\ Callable' = late
  BY <1>1, SMT DEF Phase, Callable
<1>4. \A i : i \in GoneIds <=> \E s \in Source : \E n \in Gone(s) : waiting[s][n].id = i
  BY DEF GoneIds
<1>5. GoneIds \subseteq InQueue
  <2> SUFFICES ASSUME NEW i \in GoneIds PROVE i \in InQueue
    OBVIOUS
  <2>1. PICK s \in Source : \E n \in Gone(s) : waiting[s][n].id = i
    BY <1>4
  <2>2. i \in Waiting(s)
    BY <2>1 DEF Gone, Waiting
  <2> QED BY <2>2 DEF InQueue
<1>6. ASSUME NEW i \in InQueue, ~alive[i] PROVE i \in GoneIds
  <2>1. PICK s \in Source : i \in Waiting(s)
    BY <1>6 DEF InQueue
  <2>2. PICK n \in DOMAIN waiting[s] : waiting[s][n].id = i
    BY <2>1 DEF Waiting
  <2>3. n \in Gone(s)
    BY <1>6, <2>2 DEF Gone, Keeps
  <2> QED BY <1>4, <2>2, <2>3
<1>7. \A x : x \in InQueue' <=> x \in InQueue /\ x \notin GoneIds
  BY <1>1, <1>2, InQueueIs, InQueueNext DEF Split
<1>8. InQueue' = {i \in InQueue : alive[i]} \ late
  BY <1>5, <1>6, <1>7
<1>9. late \in SUBSET {i \in InQueue : alive[i]} /\ late \in SUBSET Job
  BY <1>5, InQueueIs
<1>10. Service!Prune(late)
  BY <1>1, <1>2, <1>3, <1>8, <1>9 DEF Service!Prune
<1> QED BY <1>9, <1>10

(* How a scan moves the pump on, and the workers that were free stay distinct. *)
LEMMA ScanPhase ==
    ASSUME TypeOK, scan # 0, Scanned
    PROVE  /\ Phase # "none" /\ Phase' \in {"starting", "none"} /\ Callable' = {}
           /\ ids' = ids /\ alive' = alive /\ scan \in Worker
<1>1. scan \in 0..Workers /\ Workers \in Nat \ {0}
  BY QueueAssumption DEF TypeOK
<1>2. scan' = (IF scan = Workers THEN 0 ELSE scan + 1) /\ ids' = ids /\ alive' = alive
  BY DEF Scanned
<1>3. scan' # 1 /\ scan \in 1..Workers
  BY <1>1, <1>2, SMT
<1>4. Phase' = "none" \/ Phase' = "starting"
  BY <1>3, SMT DEF Phase
<1>5. Phase # "none"
  BY SMT DEF Phase
<1>6. Callable' = {}
  BY <1>3 DEF Callable
<1> QED BY <1>2, <1>3, <1>4, <1>5, <1>6 DEF Worker

LEMMA ScanStartsNone ==
    ASSUME QueueInv, scan # 0, Scanned, waiting' = waiting, running' = running
    PROVE  Service!Start
<1> PICK start : start = [w \in Worker |-> {}]
  OBVIOUS
<1>1. /\ Phase # "none" /\ Phase' \in {"starting", "none"} /\ Callable' = {} /\ alive' = alive
  BY ScanPhase, QueueParts
<1>2. InQueue' = InQueue /\ Slots' = Slots
  BY QueueFrameService
<1>3. start \in [Worker -> {{}} \cup {{i} : i \in InQueue}]
  OBVIOUS
<1>4. Slots' = [w \in Worker |-> Slots[w] \cup start[w]]
  BY <1>2 DEF Slots
<1>5. UNION {start[w] : w \in Worker} = {}
  OBVIOUS
<1>6. InQueue' = InQueue \ UNION {start[w] : w \in Worker}
  BY <1>2, <1>5
<1>7. /\ \A w \in Worker : start[w] # {} => Slots[w] = {}
      /\ \A v, w \in Worker : v # w => start[v] \cap start[w] = {}
  OBVIOUS
<1> QED BY <1>1, <1>3, <1>4, <1>6, <1>7 DEF Service!Start

LEMMA ScanStartsOne ==
    ASSUME QueueInv, QueueInv', NEW s \in Source, PumpStart(s)
    PROVE  Service!Start
<1> PICK i : i = Head(waiting[s]).id
  OBVIOUS
<1> PICK start : start = [w \in Worker |-> IF w = scan THEN {i} ELSE {}]
  OBVIOUS
<1>1. /\ scan # 0 /\ running[scan] = Idle /\ s \in Ready /\ Scanned
      /\ running' = [running EXCEPT ![scan] = [id |-> {i}, source |-> s]]
  BY DEF PumpStart
<1>2. TypeOK /\ Idle.id = {}
  BY QueueParts, RunningTypes
<1>3. /\ Phase # "none" /\ Phase' \in {"starting", "none"} /\ Callable' = {}
      /\ ids' = ids /\ alive' = alive /\ scan \in Worker
  BY <1>1, <1>2, ScanPhase
<1>4. i \in InQueue
  <2>1. waiting[s] \in Seq([id : Job, deadline : Nat]) /\ waiting[s] # <<>>
    BY <1>1, <1>2 DEF TypeOK, Ready
  <2>2. 1 \in DOMAIN waiting[s] /\ waiting[s][1].id = i
    BY <2>1
  <2>3. i \in Waiting(s)
    BY <2>2 DEF Waiting
  <2> QED BY <2>3 DEF InQueue
<1>5. running'[scan].id = {i} /\ \A v \in Worker : v # scan => running'[v] = running[v]
  BY <1>1, <1>2, <1>3 DEF TypeOK
<1>6. Slots[scan] = {} /\ \A w \in Worker : Slots[w] = running[w].id
  BY <1>1, <1>2, <1>3 DEF Slots
<1>7. Slots' = [w \in Worker |-> Slots[w] \cup start[w]]
  <2>1. \A w \in Worker : running'[w].id = Slots[w] \cup start[w]
    BY <1>5, <1>6
  <2> QED BY <2>1 DEF Slots
<1>8. \A x : x \in RunningIds' <=> x \in RunningIds \/ x = i
  <2>1. ASSUME NEW x PROVE x \in RunningIds' <=> x \in RunningIds \/ x = i
    BY <1>1, <1>2, <1>3, <1>5 DEF RunningIds
  <2> QED BY <2>1
<1>9. \A x : x \in InQueue' <=> x \in InQueue /\ x # i
  BY <1>3, <1>8, InQueueIs, InQueueNext DEF Split
<1>10. \A x : x \in UNION {start[w] : w \in Worker} <=> x = i
  BY <1>3
<1>11. InQueue' = InQueue \ UNION {start[w] : w \in Worker}
  BY <1>9, <1>10
<1>12. start \in [Worker -> {{}} \cup {{x} : x \in InQueue}]
  BY <1>4
<1>13. /\ \A w \in Worker : start[w] # {} => Slots[w] = {}
       /\ \A v, w \in Worker : v # w => start[v] \cap start[w] = {}
  BY <1>6
<1> QED BY <1>3, <1>7, <1>11, <1>12, <1>13 DEF Service!Start

LEMMA DieCloses ==
    ASSUME TypeOK, NEW i \in Job, Die(i)
    PROVE  Service!Close({i})
<1>1. alive' = [alive EXCEPT ![i] = FALSE] /\ UNCHANGED <<waiting, running, scan, freed>>
  BY DEF Die, queue
<1>2. alive' = [x \in Job |-> alive[x] /\ x \notin {i}]
  BY <1>1, Zenon DEF TypeOK
<1>3. InQueue' = InQueue /\ Slots' = Slots /\ Phase' = Phase /\ Callable' = Callable
  BY <1>1, QueueFrameService, PhaseFrame
<1> QED BY <1>2, <1>3 DEF Service!Close

LEMMA QueueServiceStep ==
    ASSUME QueueInv, QueueInv', [Next]_vars
    PROVE  [Service!Next]_(Service!vars)
<1>1. ASSUME NEW i \in Job, NEW s \in Source, Enqueue(i, s) PROVE Service!Next
  BY <1>1, EnqueueSubmits DEF Service!Next
<1>2. ASSUME NEW i \in Job, Cancel(i) PROVE Service!Next
  BY <1>2, CancelCancels DEF Service!Next
<1>3. ASSUME NEW i \in Job, Die(i) PROVE Service!Next
  <2>1. Service!Close({i})
    BY <1>3, DieCloses, QueueParts
  <2> QED BY <2>1 DEF Service!Next
<1>4. ASSUME NEW w \in Worker, Complete(w) PROVE Service!Next
  BY <1>4, CompleteCompletes DEF Service!Next
<1>5. ASSUME PumpBegin PROVE Service!Next
  BY <1>5, PumpPrunes DEF Service!Next
<1>6. ASSUME PumpStep PROVE Service!Next
  <2>1. CASE PumpBusy
    <3>1. scan # 0 /\ Scanned /\ waiting' = waiting /\ running' = running
      BY <2>1 DEF PumpBusy
    <3> QED BY <3>1, ScanStartsNone DEF Service!Next
  <2>2. CASE PumpNone
    <3>1. scan # 0 /\ Scanned /\ waiting' = waiting /\ running' = running
      BY <2>2 DEF PumpNone
    <3> QED BY <3>1, ScanStartsNone DEF Service!Next
  <2>3. ASSUME NEW s \in Source, PumpStart(s) PROVE Service!Next
    BY <2>3, ScanStartsOne DEF Service!Next
  <2> QED BY <1>6, <2>1, <2>2, <2>3 DEF PumpStep
<1>7. ASSUME UNCHANGED <<waiting, running, scan, freed, alive>> PROVE UNCHANGED Service!vars
  <2>1. InQueue' = InQueue /\ Slots' = Slots /\ Phase' = Phase /\ Callable' = Callable
    BY <1>7, QueueFrameService, PhaseFrame
  <2> QED BY <1>7, <2>1 DEF Service!vars
<1>8. ASSUME Tick PROVE UNCHANGED Service!vars
  BY <1>7, <1>8 DEF Tick, queue
<1>9. ASSUME UNCHANGED vars PROVE UNCHANGED Service!vars
  BY <1>7, <1>9 DEF vars, queue
<1> QED BY <1>1, <1>2, <1>3, <1>4, <1>5, <1>6, <1>8, <1>9 DEF Next

(* Seen from its callers, the queue only ever does what CredentialService     *)
(* allows it: Enqueue, Cancel, Complete and each part of Pump is one of its    *)
(* steps, for any number of workers, sources and requests.                     *)
THEOREM QueueServes == Spec => ServiceKept
<1>1. Init => Service!Init
  <2> SUFFICES ASSUME Init PROVE Service!Init
    OBVIOUS
  <2>1. \A s \in Source : waiting[s] = <<>>
    BY DEF Init
  <2>2. InQueue = {}
    BY <2>1 DEF InQueue, Waiting
  <2>3. Slots = [w \in Worker |-> {}]
    BY DEF Init, Slots, Idle
  <2>4. Phase = "none" /\ Callable = {} /\ alive = [i \in Job |-> TRUE]
    BY DEF Init, Phase, Callable
  <2> QED BY <2>2, <2>3, <2>4 DEF Service!Init
<1>2. QueueInv /\ QueueInv' /\ [Next]_vars => [Service!Next]_(Service!vars)
  BY QueueServiceStep
<1> QED BY <1>1, <1>2, QueueSpec, PTL DEF Spec, ServiceKept, Service!Spec
=============================================================================
