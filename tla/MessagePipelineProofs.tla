------------------------- MODULE MessagePipelineProofs -------------------------
(***************************************************************************)
(* What every reachable state of MessagePipeline satisfies, for any        *)
(* connections, hashing workers, limits, deadlines and messages.           *)
(*                                                                         *)
(* The counters, the deadlines and the workers depend on each other: a     *)
(* finished request posts the reset of the deadline it was given, which is *)
(* only safe because a connection has one request at a time; that it has   *)
(* one is decided by where the queue, the pump under way, the inbox, the   *)
(* thread and the completions hold it.                                     *)
(***************************************************************************)
EXTENDS MessagePipeline, FiniteSetTheorems, TLAPS

PumpCall == {"prune", "pump"}

(* The pump under way is above those still to be called, so it is the only one. *)
OnePump(s) ==
    \A m, n \in DOMAIN s : s[m].call = "pump" /\ s[n].call \in PumpCall => m <= n
NoPump(s) == \A n \in DOMAIN s : s[n].call # "pump"
Expiring(s) == {c \in Conn : \E n \in DOMAIN s : s[n].call = "pump" /\ c \in s[n].expired}

(* A connection has one request at a time: it waits, or was found expired by *)
(* the one pump under way, or a worker has it.                               *)
OneRequest ==
    /\ \A c \in waiting : credential[c]
    /\ \A w \in Worker : \A c \in slot[w] : credential[c] /\ c \notin waiting
    /\ \A v, w \in Worker : v # w => slot[v] \cap slot[w] = {}
    /\ OnePump(calls)
    /\ \A c \in Expiring(calls) : /\ credential[c] /\ c \notin waiting
                                  /\ \A w \in Worker : c \notin slot[w]

(* The request of a busy worker is in its inbox, in its thread or completed, *)
(* in exactly one of them.                                                   *)
HashedJob(c, w) == [kind |-> "hashed", conn |-> c, worker |-> w]
Bit(b) == IF b THEN 1 ELSE 0

WorkerHolds(w) ==
    /\ \A c, d \in slot[w] : c = d
    /\ \A c \in Conn : Bit(c \in inbox[w]) + Bit(c \in hashing[w])
                          + Count(jobs, {HashedJob(c, w)}) = Bit(c \in slot[w])

(* The resets under way for a connection are in the order of their deadlines *)
(* and none is of the request now pending; an answer is followed by a reset. *)
ResetsIn(posts, c) == {n \in DOMAIN posts : posts[n].kind = "reset" /\ posts[n].conn = c}
HashedLogin(c) == [kind |-> "login", conn |-> c, hashed |-> TRUE]

ResetsOrdered(posts, c, d, busy) ==
    /\ busy => d > 0
    /\ \A n \in ResetsIn(posts, c) :
          /\ 0 < posts[n].deadline /\ posts[n].deadline <= d
          /\ busy => posts[n].deadline < d
    /\ \A m, n \in ResetsIn(posts, c) : m < n => posts[m].deadline < posts[n].deadline

LoginsFollowed(posts, c) ==
    \A m \in DOMAIN posts : posts[m] = HashedLogin(c) => \E n \in ResetsIn(posts, c) : m < n

DeadlinesOrdered ==
    \A c \in Conn : ResetsOrdered(net, c, deadline[c], credential[c]) /\ LoginsFollowed(net, c)

PipeInv ==
    /\ TypeOK
    /\ CountsExact
    /\ OneRequest
    /\ \A w \in Worker : WorkerHolds(w)
    /\ DeadlinesOrdered
    /\ NothingRetained

-----------------------------------------------------------------------------
(* Sequences. *)
LEMMA SeqAppend ==
    ASSUME NEW T, NEW s \in Seq(T), NEW e \in T
    PROVE  /\ Append(s, e) \in Seq(T)
           /\ Len(s) \in Nat /\ DOMAIN s = 1..Len(s)
           /\ DOMAIN Append(s, e) = 1..(Len(s) + 1)
           /\ \A n \in DOMAIN s : Append(s, e)[n] = s[n]
           /\ Append(s, e)[Len(s) + 1] = e
  BY SMT

LEMMA SeqPush ==
    ASSUME NEW T, NEW s \in Seq(T), NEW e \in T
    PROVE  /\ <<e>> \o s \in Seq(T)
           /\ Len(s) \in Nat /\ DOMAIN s = 1..Len(s)
           /\ DOMAIN (<<e>> \o s) = 1..(Len(s) + 1)
           /\ \A n \in DOMAIN s : (<<e>> \o s)[n + 1] = s[n]
           /\ (<<e>> \o s)[1] = e
  BY SMT

LEMMA SeqTail ==
    ASSUME NEW T, NEW s \in Seq(T), s # <<>>
    PROVE  /\ Tail(s) \in Seq(T) /\ Head(s) \in T /\ Head(s) = s[1]
           /\ Len(s) \in Nat /\ DOMAIN s = 1..Len(s) /\ 1 \in DOMAIN s
           /\ Len(Tail(s)) = Len(s) - 1 /\ DOMAIN Tail(s) = 1..(Len(s) - 1)
           /\ \A n \in DOMAIN Tail(s) : n + 1 \in DOMAIN s /\ Tail(s)[n] = s[n + 1]
           /\ s = <<Head(s)>> \o Tail(s)
  BY SMT

LEMMA SeqConcat ==
    ASSUME NEW T, NEW s \in Seq(T), NEW t \in Seq(T)
    PROVE  /\ s \o t \in Seq(T)
           /\ Len(s) \in Nat /\ DOMAIN s = 1..Len(s)
           /\ Len(t) \in Nat /\ DOMAIN t = 1..Len(t)
           /\ DOMAIN (s \o t) = 1..(Len(s) + Len(t))
           /\ \A n \in DOMAIN s : (s \o t)[n] = s[n]
           /\ \A n \in DOMAIN t : (s \o t)[Len(s) + n] = t[n]
  BY SMT

LEMMA RangeAppend ==
    ASSUME NEW T, NEW s \in Seq(T), NEW e \in T
    PROVE  Range(Append(s, e)) = Range(s) \cup {e}
  BY SeqAppend, SMT DEF Range

LEMMA RangeTail ==
    ASSUME NEW T, NEW s \in Seq(T), s # <<>>
    PROVE  Range(s) = {Head(s)} \cup Range(Tail(s))
<1>1. \A n \in DOMAIN s : n = 1 \/ (n - 1 \in DOMAIN Tail(s) /\ s[n] = Tail(s)[n - 1])
  BY SeqTail, SMT
<1>2. /\ 1 \in DOMAIN s /\ Head(s) = s[1]
      /\ \A n \in DOMAIN Tail(s) : n + 1 \in DOMAIN s /\ Tail(s)[n] = s[n + 1]
  BY SeqTail
<1>3. ASSUME NEW x \in Range(s) PROVE x = Head(s) \/ x \in Range(Tail(s))
  <2>1. PICK n \in DOMAIN s : x = s[n]
    BY DEF Range
  <2>2. CASE n = 1
    BY <1>2, <2>1, <2>2
  <2>3. CASE n - 1 \in DOMAIN Tail(s) /\ s[n] = Tail(s)[n - 1]
    BY <2>1, <2>3 DEF Range
  <2> QED BY <1>1, <2>2, <2>3
<1>4. \A x \in Range(Tail(s)) : x \in Range(s)
  BY <1>2 DEF Range
<1>5. Head(s) \in Range(s)
  BY <1>2 DEF Range
<1> QED BY <1>3, <1>4, <1>5

LEMMA RangeConcat ==
    ASSUME NEW T, NEW s \in Seq(T), NEW t \in Seq(T)
    PROVE  Range(s \o t) = Range(s) \cup Range(t)
<1>1. \A n \in DOMAIN (s \o t) : n \in DOMAIN s \/ (n - Len(s) \in DOMAIN t /\ (s \o t)[n] = t[n - Len(s)])
  BY SMT
<1>2. \A n \in DOMAIN s : n \in DOMAIN (s \o t)
  BY SMT
<1>3. \A n \in DOMAIN t : Len(s) + n \in DOMAIN (s \o t)
  BY SMT
<1> QED BY <1>1, <1>2, <1>3, SeqConcat DEF Range

-----------------------------------------------------------------------------
(* Counting the elements of a sequence that are in a set. *)
LEMMA CountNat ==
    ASSUME NEW T, NEW s \in Seq(T), NEW S
    PROVE  /\ IsFiniteSet({n \in DOMAIN s : s[n] \in S})
           /\ Count(s, S) \in Nat
<1>1. DOMAIN s = 1..Len(s) /\ Len(s) \in Nat
  BY SMT
<1>2. IsFiniteSet(DOMAIN s)
  BY <1>1, FS_Interval
<1>3. {n \in DOMAIN s : s[n] \in S} \in SUBSET DOMAIN s
  OBVIOUS
<1>4. IsFiniteSet({n \in DOMAIN s : s[n] \in S})
  BY <1>2, <1>3, FS_Subset
<1> QED BY <1>4, FS_CardinalityType DEF Count

LEMMA CountEmpty == ASSUME NEW S PROVE Count(<<>>, S) = 0
<1>1. {n \in DOMAIN <<>> : <<>>[n] \in S} = {}
  BY SMT
<1> QED BY <1>1, FS_EmptySet DEF Count

LEMMA CountAppend ==
    ASSUME NEW T, NEW s \in Seq(T), NEW e \in T, NEW S
    PROVE  Count(Append(s, e), S) = Count(s, S) + Bit(e \in S)
<1> DEFINE P == {n \in DOMAIN s : s[n] \in S}
           Q == {n \in DOMAIN Append(s, e) : Append(s, e)[n] \in S}
<1>0. IsFiniteSet(P)
  BY CountNat
<1>1. IsFiniteSet(P) /\ Len(s) + 1 \notin P
  BY <1>0, SMT
<1>2. Q = IF e \in S THEN P \cup {Len(s) + 1} ELSE P
  BY SeqAppend, SMT
<1>3. Cardinality(P) \in Nat
  BY <1>1, FS_CardinalityType
<1>4. Cardinality(P \cup {Len(s) + 1}) = Cardinality(P) + 1
  BY <1>1, FS_AddElement
<1> HIDE DEF P, Q
<1>5. Cardinality(Q) = Cardinality(P) + Bit(e \in S)
  BY <1>2, <1>3, <1>4, SMT DEF Bit
<1> QED BY <1>5 DEF Count, P, Q

LEMMA CountPush ==
    ASSUME NEW T, NEW s \in Seq(T), NEW e \in T, NEW S
    PROVE  Count(<<e>> \o s, S) = Bit(e \in S) + Count(s, S)
<1> DEFINE P == {n \in DOMAIN s : s[n] \in S}
           U == {n + 1 : n \in P}
           Q == {n \in DOMAIN (<<e>> \o s) : (<<e>> \o s)[n] \in S}
           f == [n \in P |-> n + 1]
<1>0. IsFiniteSet(P)
  BY CountNat
<1>1. IsFiniteSet(P) /\ P \subseteq Nat \ {0}
  BY <1>0, SMT
<1>2. f \in Bijection(P, U)
  <2>1. f \in [P -> U]
    OBVIOUS
  <2>2. \A m, n \in P : f[m] = f[n] => m = n
    BY <1>1, SMT
  <2>3. \A u \in U : \E n \in P : f[n] = u
    OBVIOUS
  <2> HIDE DEF f, U
  <2> QED BY <2>1, <2>2, <2>3 DEF Bijection, Injection, Surjection, IsInjective
<1>3. IsFiniteSet(U) /\ Cardinality(U) = Cardinality(P)
  BY <1>1, <1>2, FS_Bijection DEF ExistsBijection
<1>4. 1 \notin U
  BY <1>1, SMT
<1>5. Q = IF e \in S THEN U \cup {1} ELSE U
  <2>1. \A n \in Q : n = 1 \/ n - 1 \in P
    BY SeqPush, SMT
  <2>2. Q \subseteq Nat
    BY SeqPush
  <2>3. \A n \in P : n + 1 \in Q
    BY SeqPush, SMT
  <2>4. 1 \in Q <=> e \in S
    BY SeqPush, SMT
  <2>5. \A n \in Q : n # 1 => n \in U
    BY <2>1, <2>2, SMT
  <2> QED BY <2>3, <2>4, <2>5
<1>6. Cardinality(U \cup {1}) = Cardinality(U) + 1
  BY <1>3, <1>4, FS_AddElement
<1>7. Cardinality(P) \in Nat
  BY <1>1, FS_CardinalityType
<1> HIDE DEF P, U, Q
<1>8. Cardinality(Q) = Bit(e \in S) + Cardinality(P)
  BY <1>3, <1>5, <1>6, <1>7, SMT DEF Bit
<1> QED BY <1>8 DEF Count, P, Q

LEMMA CountTail ==
    ASSUME NEW T, NEW s \in Seq(T), s # <<>>, NEW S
    PROVE  Count(s, S) = Bit(Head(s) \in S) + Count(Tail(s), S)
<1>1. Head(s) \in T /\ Tail(s) \in Seq(T) /\ s = <<Head(s)>> \o Tail(s)
  BY SeqTail
<1> QED BY <1>1, CountPush

LEMMA CountConcat ==
    ASSUME NEW T, NEW s \in Seq(T), NEW t \in Seq(T), NEW S, \A n \in DOMAIN t : t[n] \notin S
    PROVE  Count(s \o t, S) = Count(s, S)
<1>1. \A n \in DOMAIN (s \o t) :
        n \in DOMAIN s \/ (n - Len(s) \in DOMAIN t /\ (s \o t)[n] = t[n - Len(s)])
  BY SMT
<1>2. \A n \in DOMAIN s : n \in DOMAIN (s \o t) /\ (s \o t)[n] = s[n]
  BY SMT
<1>3. {n \in DOMAIN (s \o t) : (s \o t)[n] \in S} = {n \in DOMAIN s : s[n] \in S}
  BY <1>1, <1>2
<1> QED BY <1>3 DEF Count

-----------------------------------------------------------------------------
(* Callbacks posted to the network thread. *)
LEMMA PostTypes ==
    /\ \A c \in Conn, h \in BOOLEAN : [kind |-> "login", conn |-> c, hashed |-> h] \in Post
    /\ \A c \in Conn, d \in Nat : [kind |-> "reset", conn |-> c, deadline |-> d] \in Post
    /\ [kind |-> "shed"] \in Post /\ [kind |-> "pumped"] \in Post
    /\ \A p \in Post : p.kind = "reset" => p.conn \in Conn /\ p.deadline \in Nat
    /\ \A p \in Post : p.kind = "login" => p.conn \in Conn /\ p.hashed \in BOOLEAN
    /\ \A p \in Post : p.kind \in {"login", "reset", "shed", "pumped"}
<1>1. \A c \in Conn, h \in BOOLEAN : [kind |-> "login", conn |-> c, hashed |-> h] \in Post
  BY DEF Post
<1>2. \A c \in Conn, d \in Nat : [kind |-> "reset", conn |-> c, deadline |-> d] \in Post
  BY DEF Post
<1>3. [kind |-> "shed"] \in Post /\ [kind |-> "pumped"] \in Post
  BY DEF Post
<1>4. \A p \in Post : p.kind = "reset" => p.conn \in Conn /\ p.deadline \in Nat
  BY SMT DEF Post
<1>5. \A p \in Post : p.kind = "login" => p.conn \in Conn /\ p.hashed \in BOOLEAN
  BY SMT DEF Post
<1>6. \A p \in Post : p.kind \in {"login", "reset", "shed", "pumped"}
  BY SMT DEF Post
<1> QED BY <1>1, <1>2, <1>3, <1>4, <1>5, <1>6

LEMMA ResetDeadlines ==
    ASSUME NEW posts \in Seq(Post), NEW c, NEW n \in ResetsIn(posts, c)
    PROVE  n \in DOMAIN posts /\ n \in Nat /\ posts[n] \in Post /\ posts[n].deadline \in Nat
<1>1. n \in DOMAIN posts /\ posts[n].kind = "reset"
  BY DEF ResetsIn
<1>2. n \in Nat /\ posts[n] \in Post
  BY <1>1, SMT
<1> QED BY <1>1, <1>2, PostTypes

LEMMA ResetsAppend ==
    ASSUME NEW posts \in Seq(Post), NEW p \in Post, NEW c
    PROVE  /\ ResetsIn(Append(posts, p), c) =
                IF p.kind = "reset" /\ p.conn = c THEN ResetsIn(posts, c) \cup {Len(posts) + 1}
                ELSE ResetsIn(posts, c)
           /\ \A n \in ResetsIn(posts, c) : n < Len(posts) + 1 /\ Append(posts, p)[n] = posts[n]
  BY SeqAppend, SMT DEF ResetsIn

(* A callback that is no reset of c leaves the order of its resets alone. *)
LEMMA QuietPost ==
    ASSUME NEW posts \in Seq(Post), NEW p \in Post, NEW c, NEW d, NEW busy,
           ResetsOrdered(posts, c, d, busy), ~(p.kind = "reset" /\ p.conn = c)
    PROVE  /\ ResetsOrdered(Append(posts, p), c, d, busy)
           /\ p # HashedLogin(c) /\ LoginsFollowed(posts, c) => LoginsFollowed(Append(posts, p), c)
<1>0. PICK q : q = Append(posts, p)
  OBVIOUS
<1>1. ResetsIn(q, c) = ResetsIn(posts, c) /\ \A n \in ResetsIn(posts, c) : q[n] = posts[n]
  <2>1. ResetsIn(q, c) = ResetsIn(posts, c)
    BY <1>0, ResetsAppend
  <2>2. \A n \in ResetsIn(posts, c) : q[n] = posts[n]
    BY <1>0, ResetsAppend
  <2> QED BY <2>1, <2>2
<1>2. ResetsOrdered(q, c, d, busy)
  <2>1. /\ busy => d > 0
        /\ \A n \in ResetsIn(q, c) : /\ 0 < q[n].deadline /\ q[n].deadline <= d
                                     /\ busy => q[n].deadline < d
    BY <1>1 DEF ResetsOrdered
  <2>2. \A m, n \in ResetsIn(q, c) : m < n => q[m].deadline < q[n].deadline
    BY <1>1 DEF ResetsOrdered
  <2> QED BY <2>1, <2>2 DEF ResetsOrdered
<1>3. ASSUME p # HashedLogin(c), LoginsFollowed(posts, c),
             NEW m \in DOMAIN Append(posts, p), Append(posts, p)[m] = HashedLogin(c)
      PROVE  \E n \in ResetsIn(posts, c) : m < n
  <2>1. m \in DOMAIN posts /\ posts[m] = HashedLogin(c)
    BY <1>3, SeqAppend, SMT
  <2> QED BY <1>3, <2>1 DEF LoginsFollowed
<1>4. p # HashedLogin(c) /\ LoginsFollowed(posts, c) => LoginsFollowed(Append(posts, p), c)
  BY <1>0, <1>1, <1>3 DEF LoginsFollowed
<1> QED BY <1>0, <1>2, <1>4

LEMMA ResetsTail ==
    ASSUME NEW posts \in Seq(Post), posts # <<>>, NEW c
    PROVE  /\ \A n \in ResetsIn(Tail(posts), c) :
                n + 1 \in ResetsIn(posts, c) /\ Tail(posts)[n] = posts[n + 1]
           /\ \A n \in ResetsIn(posts, c) : n > 1 => n - 1 \in ResetsIn(Tail(posts), c)
<1>1. \A n \in DOMAIN posts : n > 1 => n - 1 \in DOMAIN Tail(posts) /\ Tail(posts)[n - 1] = posts[n]
  BY SMT
<1>2. \A n \in DOMAIN Tail(posts) : n + 1 \in DOMAIN posts /\ Tail(posts)[n] = posts[n + 1]
  BY SMT
<1> QED BY <1>1, <1>2 DEF ResetsIn

(* Running a callback leaves the others in order. *)
LEMMA TailPost ==
    ASSUME NEW posts \in Seq(Post), posts # <<>>, NEW c, NEW d, NEW busy
    PROVE  /\ ResetsOrdered(posts, c, d, busy) => ResetsOrdered(Tail(posts), c, d, busy)
           /\ LoginsFollowed(posts, c) => LoginsFollowed(Tail(posts), c)
<1>1. ASSUME ResetsOrdered(posts, c, d, busy) PROVE ResetsOrdered(Tail(posts), c, d, busy)
  <2>1. /\ busy => d > 0
        /\ \A n \in ResetsIn(Tail(posts), c) :
             /\ 0 < Tail(posts)[n].deadline /\ Tail(posts)[n].deadline <= d
             /\ busy => Tail(posts)[n].deadline < d
    BY <1>1, ResetsTail DEF ResetsOrdered
  <2>2. ASSUME NEW m \in ResetsIn(Tail(posts), c), NEW n \in ResetsIn(Tail(posts), c), m < n
        PROVE  Tail(posts)[m].deadline < Tail(posts)[n].deadline
    <3>1. /\ m + 1 \in ResetsIn(posts, c) /\ n + 1 \in ResetsIn(posts, c)
          /\ Tail(posts)[m] = posts[m + 1] /\ Tail(posts)[n] = posts[n + 1]
      BY ResetsTail
    <3>2. m \in DOMAIN Tail(posts) /\ n \in DOMAIN Tail(posts)
      BY DEF ResetsIn
    <3>3. m + 1 < n + 1
      BY <2>2, <3>2, SMT
    <3> QED BY <1>1, <3>1, <3>3 DEF ResetsOrdered
  <2> QED BY <2>1, <2>2 DEF ResetsOrdered
<1>2. ASSUME LoginsFollowed(posts, c), NEW m \in DOMAIN Tail(posts), Tail(posts)[m] = HashedLogin(c)
      PROVE  \E n \in ResetsIn(Tail(posts), c) : m < n
  <2>1. m + 1 \in DOMAIN posts /\ posts[m + 1] = HashedLogin(c) /\ m \in Nat
    BY <1>2, SMT
  <2>2. PICK n \in ResetsIn(posts, c) : m + 1 < n
    BY <1>2, <2>1 DEF LoginsFollowed
  <2>3. n \in Nat
    BY ResetDeadlines
  <2>4. n > 1 /\ m < n - 1
    BY <2>1, <2>2, <2>3, SMT
  <2> QED BY <2>4, ResetsTail
<1> QED BY <1>1, <1>2 DEF LoginsFollowed

(* A reset that finds its deadline is the last one under way for c. *)
LEMMA TakeReset ==
    ASSUME NEW posts \in Seq(Post), posts # <<>>, NEW c, NEW d \in Nat, NEW busy,
           ResetsOrdered(posts, c, d, busy),
           Head(posts).kind = "reset", Head(posts).conn = c, Head(posts).deadline = d
    PROVE  ~busy /\ ResetsOrdered(Tail(posts), c, 0, busy)
<1>1. 1 \in ResetsIn(posts, c) /\ posts[1].deadline = d
  BY SeqTail DEF ResetsIn
<1>2. ~busy
  BY <1>1, SMT DEF ResetsOrdered
<1>3. ASSUME NEW n \in ResetsIn(Tail(posts), c) PROVE FALSE
  <2>1. n + 1 \in ResetsIn(posts, c)
    BY <1>3, ResetsTail
  <2>2. n \in Nat /\ n > 0
    BY <1>3, SMT DEF ResetsIn
  <2>3. posts[n + 1].deadline \in Nat
    BY <2>1, ResetDeadlines
  <2>4. posts[n + 1].deadline <= d
    BY <2>1 DEF ResetsOrdered
  <2>5. 1 < n + 1
    BY <2>2, SMT
  <2>6. d < posts[n + 1].deadline
    BY <1>1, <2>1, <2>5 DEF ResetsOrdered
  <2> QED BY <2>3, <2>4, <2>6, SMT
<1> QED BY <1>2, <1>3 DEF ResetsOrdered

(* Finishing a request posts the reset of its deadline after every other one, *)
(* and after the answer that its success posted.                              *)
LEMMA FinishPost ==
    ASSUME NEW posts \in Seq(Post), NEW c \in Conn, NEW d \in Nat,
           ResetsOrdered(posts, c, d, TRUE)
    PROVE  LET q == Append(posts, [kind |-> "reset", conn |-> c, deadline |-> d])
           IN  ResetsOrdered(q, c, d, FALSE) /\ LoginsFollowed(q, c)
<1> DEFINE p == [kind |-> "reset", conn |-> c, deadline |-> d]
<1>0. PICK q : q = Append(posts, p)
  OBVIOUS
<1>1. p \in Post /\ p.kind = "reset" /\ p.conn = c /\ p.deadline = d
  BY PostTypes
<1> HIDE DEF p
<1>2. ResetsIn(q, c) = ResetsIn(posts, c) \cup {Len(posts) + 1}
  BY <1>0, <1>1, ResetsAppend
<1>3. \A n \in ResetsIn(posts, c) : n < Len(posts) + 1 /\ q[n] = posts[n]
  BY <1>0, <1>1, ResetsAppend
<1>4. q[Len(posts) + 1] = p /\ Len(posts) \in Nat
  BY <1>0, <1>1, SeqAppend
<1>5. \A n \in ResetsIn(posts, c) : n \in Nat /\ posts[n].deadline \in Nat
  BY ResetDeadlines
<1>6. \A n \in ResetsIn(posts, c) : 0 < posts[n].deadline /\ posts[n].deadline < d
  BY DEF ResetsOrdered
<1>7. d > 0
  BY DEF ResetsOrdered
<1>8. \A n \in ResetsIn(q, c) : 0 < q[n].deadline /\ q[n].deadline <= d
  BY <1>1, <1>2, <1>3, <1>4, <1>5, <1>6, <1>7, SMT
<1>9. ASSUME NEW m \in ResetsIn(q, c), NEW n \in ResetsIn(q, c), m < n
      PROVE  q[m].deadline < q[n].deadline
  <2>1. m # Len(posts) + 1
    BY <1>2, <1>3, <1>4, <1>5, <1>9, SMT
  <2>2. m \in ResetsIn(posts, c) /\ q[m] = posts[m]
    BY <1>2, <1>3, <2>1
  <2>3. CASE n = Len(posts) + 1
    BY <1>1, <1>4, <1>6, <2>2, <2>3
  <2>4. CASE n \in ResetsIn(posts, c)
    BY <1>3, <1>9, <2>2, <2>4 DEF ResetsOrdered
  <2> QED BY <1>2, <2>3, <2>4
<1>10. ResetsOrdered(q, c, d, FALSE)
  BY <1>8, <1>9 DEF ResetsOrdered
<1>11. ASSUME NEW m \in DOMAIN q, q[m] = HashedLogin(c)
       PROVE  m < Len(posts) + 1
  <2>1. m \in 1..(Len(posts) + 1)
    BY <1>0, <1>1, SeqAppend
  <2>2. m # Len(posts) + 1
    BY <1>1, <1>4, <1>11 DEF HashedLogin
  <2> QED BY <1>4, <2>1, <2>2, SMT
<1>12. LoginsFollowed(q, c)
  BY <1>2, <1>11 DEF LoginsFollowed
<1> QED BY <1>0, <1>10, <1>12 DEF p

(* A new request gets a later deadline than every reset under way. *)
LEMMA SubmitDeadline ==
    ASSUME NEW posts \in Seq(Post), NEW c, NEW d \in Nat, NEW e \in Nat, d < e,
           ResetsOrdered(posts, c, d, FALSE)
    PROVE  ResetsOrdered(posts, c, e, TRUE)
<1>1. \A n \in ResetsIn(posts, c) : posts[n].deadline \in Nat
  BY ResetDeadlines
<1>2. \A n \in ResetsIn(posts, c) : 0 < posts[n].deadline /\ posts[n].deadline <= d
  BY DEF ResetsOrdered
<1>3. \A n \in ResetsIn(posts, c) : posts[n].deadline <= e /\ posts[n].deadline < e
  BY <1>1, <1>2, SMT
<1>4. e > 0
  BY SMT
<1> QED BY <1>2, <1>3, <1>4 DEF ResetsOrdered

(* All overload is one callback. *)
LEMMA SheddingPosts ==
    ASSUME NEW posts \in Seq(Post)
    PROVE  /\ Shedding(posts) \in Seq(Post)
           /\ Shedding(posts) = posts \/ Shedding(posts) = Append(posts, [kind |-> "shed"])
  BY PostTypes, SeqAppend DEF Shedding

-----------------------------------------------------------------------------
(* Jobs of the application worker, and its calls. *)
LEMMA JobTypes ==
    /\ \A c \in Conn, n \in Nat : [kind |-> "message", conn |-> c, number |-> n] \in Job
    /\ \A c \in Conn : [kind |-> "cleanup", conn |-> c] \in Job
    /\ \A c \in Conn, w \in Worker : HashedJob(c, w) \in Job
    /\ [kind |-> "pump"] \in Job
    /\ \A j \in Job : j.kind = "message" => j.conn \in Conn /\ j.number \in Nat
    /\ \A j \in Job : j.kind = "cleanup" => j.conn \in Conn /\ j = [kind |-> "cleanup", conn |-> j.conn]
    /\ \A j \in Job : j.kind = "hashed" =>
            j.conn \in Conn /\ j.worker \in Worker /\ j = HashedJob(j.conn, j.worker)
<1>1. \A c \in Conn, n \in Nat : [kind |-> "message", conn |-> c, number |-> n] \in Job
  BY DEF Job
<1>2. \A c \in Conn : [kind |-> "cleanup", conn |-> c] \in Job
  BY DEF Job
<1>3. \A c \in Conn, w \in Worker : HashedJob(c, w) \in Job
  BY DEF Job, HashedJob
<1>4. [kind |-> "pump"] \in Job
  BY DEF Job
<1>5. \A j \in Job : j.kind = "message" => j.conn \in Conn /\ j.number \in Nat
  BY SMT DEF Job
<1>6. \A j \in Job : j.kind = "cleanup" => j.conn \in Conn /\ j = [kind |-> "cleanup", conn |-> j.conn]
  BY SMT DEF Job
<1>7. \A j \in Job : j.kind = "hashed" =>
            j.conn \in Conn /\ j.worker \in Worker /\ j = HashedJob(j.conn, j.worker)
  BY SMT DEF Job, HashedJob
<1> QED BY <1>1, <1>2, <1>3, <1>4, <1>5, <1>6, <1>7

LEMMA CallTypes ==
    /\ \A c \in Conn : Drain(c) \in Call /\ Dispatched(c) \in Call
    /\ Prune \in Call /\ [call |-> "pumped"] \in Call
    /\ \A e \in SUBSET Conn : [call |-> "pump", expired |-> e] \in Call
    /\ \A k \in Call : k.call \in {"drain", "dispatched"} => k.conn \in Conn
    /\ \A k \in Call : k.call = "dispatched" => k = Dispatched(k.conn)
    /\ \A k \in Call : k.call = "pump" =>
            k.expired \in SUBSET Conn /\ k = [call |-> "pump", expired |-> k.expired]
<1>1. \A c \in Conn : Drain(c) \in Call /\ Dispatched(c) \in Call
  BY DEF Call, Drain, Dispatched
<1>2. Prune \in Call /\ [call |-> "pumped"] \in Call
  BY DEF Call, Prune
<1>3. \A e \in SUBSET Conn : [call |-> "pump", expired |-> e] \in Call
  BY DEF Call
<1>4. \A k \in Call : k.call \in {"drain", "dispatched"} => k.conn \in Conn
  BY SMT DEF Call
<1>5. \A k \in Call : k.call = "dispatched" => k = Dispatched(k.conn)
  BY SMT DEF Call, Dispatched
<1>6. \A k \in Call : k.call = "pump" =>
            k.expired \in SUBSET Conn /\ k = [call |-> "pump", expired |-> k.expired]
  BY SMT DEF Call
<1> QED BY <1>1, <1>2, <1>3, <1>4, <1>5, <1>6

(* The order of the cleanups names each connection that is closed. *)
LEMMA OrderOf ==
    ASSUME NEW S, IsFiniteSet(S), NEW order \in SetToSeqs(S)
    PROVE  order \in Seq(S) /\ Range(order) = S
<1> DEFINE D == 1..Cardinality(S)
<1>1. Cardinality(S) \in Nat
  BY FS_CardinalityType
<1>2. order \in [D -> S] /\ \A i, j \in D : i # j => order[i] # order[j]
  BY DEF SetToSeqs
<1>3. order \in Injection(D, S)
  BY <1>2 DEF Injection, IsInjective
<1>4. Cardinality(D) = Cardinality(S)
  BY <1>1, FS_Interval, SMT
<1> HIDE DEF D
<1>5. order \in Surjection(D, S)
  BY <1>3, <1>4, FS_Injection
<1>6. Range(order) = S
  BY <1>5 DEF Surjection, Range
<1> USE DEF D
<1>7. order \in Seq(S)
  BY <1>1, <1>2, SMT
<1> QED BY <1>6, <1>7

LEMMA ClosedEffect ==
    ASSUME TypeOK, NEW cs \in SUBSET Conn, Closed(cs, jobs)
    PROVE  /\ alive' = [c \in Conn |-> alive[c] /\ c \notin cs]
           /\ \E order \in Seq(Job) :
                /\ jobs' = jobs \o order
                /\ \A n \in DOMAIN order : order[n].kind = "cleanup"
                /\ \A c \in cs : alive[c] => [kind |-> "cleanup", conn |-> c] \in Range(order)
                /\ \A n \in DOMAIN order : order[n].conn \in cs
<1> DEFINE ends == {c \in cs : alive[c]}
           S == {[kind |-> "cleanup", conn |-> c] : c \in ends}
           f == [c \in ends |-> [kind |-> "cleanup", conn |-> c]]
<1>1. alive' = [c \in Conn |-> alive[c] /\ c \notin cs]
  BY DEF Closed
<1>2. PICK order \in SetToSeqs(S) : jobs' = jobs \o order
  BY DEF Closed
<1>3. ends \in SUBSET Conn /\ IsFiniteSet(ends)
  BY FS_Subset, PipelineAssumption
<1>4. f \in Bijection(ends, S)
  <2>1. f \in [ends -> S]
    OBVIOUS
  <2>2. \A c, d \in ends : f[c] = f[d] => c = d
    <3> SUFFICES ASSUME NEW c \in ends, NEW d \in ends, f[c] = f[d] PROVE c = d
      OBVIOUS
    <3>1. f[c].conn = c /\ f[d].conn = d
      OBVIOUS
    <3> QED BY <3>1
  <2>3. \A s \in S : \E c \in ends : f[c] = s
    OBVIOUS
  <2> HIDE DEF f, S, ends
  <2> QED BY <2>1, <2>2, <2>3 DEF Bijection, Injection, Surjection, IsInjective
<1>5. IsFiniteSet(S)
  BY <1>3, <1>4, FS_Bijection DEF ExistsBijection
<1>6. order \in Seq(S) /\ Range(order) = S
  <2> HIDE DEF S
  <2> QED BY <1>2, <1>5, OrderOf
<1>7. S \subseteq Job /\ \A s \in S : s.kind = "cleanup"
  BY <1>3, JobTypes
<1>a. \A s \in S : s.conn \in cs
  OBVIOUS
<1>8. \A n \in DOMAIN order : order[n] \in S
  BY <1>6 DEF Range
<1>9. order \in Seq(Job)
  <2> HIDE DEF S
  <2> QED BY <1>6, <1>7, SMT
<1>10. \A c \in cs : alive[c] => [kind |-> "cleanup", conn |-> c] \in Range(order)
  BY <1>6
<1> HIDE DEF S
<1> QED BY <1>1, <1>2, <1>7, <1>a, <1>8, <1>9, <1>10

LEMMA HeadJob ==
    ASSUME TypeOK, NEW kind, Takes(kind)
    PROVE  /\ jobs \in Seq(Job) /\ jobs # <<>> /\ Head(jobs) \in Job /\ Head(jobs).kind = kind
           /\ jobs' = Tail(jobs) /\ jobs' \in Seq(Job)
           /\ calls = <<>>
  BY SeqTail DEF TypeOK, Takes

LEMMA InnerCall ==
    ASSUME TypeOK, NEW call, In(call)
    PROVE  /\ calls \in Seq(Call) /\ calls # <<>> /\ Inner \in Call /\ Inner.call = call
           /\ Inner = calls[1] /\ Tail(calls) \in Seq(Call)
  BY SeqTail DEF TypeOK, In, Inner

-----------------------------------------------------------------------------
(* The deferred messages of all connections, and what the counters imply. *)
Places(d) == UNION {{c} \X DOMAIN d[c] : c \in Conn}

LEMMA PlacesOf ==
    ASSUME NEW d \in [Conn -> Seq(Nat)], NEW c \in Conn
    PROVE  LET Rest == {p \in Places(d) : p[1] # c}
           IN  /\ IsFiniteSet(Rest) /\ Cardinality(Rest) \in Nat /\ Len(d[c]) \in Nat
               /\ Cardinality(Places(d)) = Cardinality(Rest) + Len(d[c])
<1> DEFINE Rest == {p \in Places(d) : p[1] # c}
           Own == {c} \X DOMAIN d[c]
           f == [x \in Conn |-> {x} \X DOMAIN d[x]]
           Sets == {{x} \X DOMAIN d[x] : x \in Conn}
<1>1. \A x \in Conn : /\ Len(d[x]) \in Nat /\ DOMAIN d[x] = 1..Len(d[x])
  BY SMT
<1>2. \A x \in Conn : IsFiniteSet(DOMAIN d[x]) /\ Cardinality(DOMAIN d[x]) = Len(d[x])
  <2> TAKE x \in Conn
  <2>1. Len(d[x]) \in Nat /\ DOMAIN d[x] = 1..Len(d[x])
    BY <1>1
  <2>2. IsFiniteSet(1..Len(d[x]))
    BY <2>1, FS_Interval
  <2>3. 1 \in Int /\ Len(d[x]) \in Int
    BY <2>1, SMT
  <2>4. Cardinality(1..Len(d[x])) = IF 1 > Len(d[x]) THEN 0 ELSE Len(d[x]) - 1 + 1
    BY <2>3, FS_Interval
  <2>5. Cardinality(1..Len(d[x])) = Len(d[x])
    BY <2>1, <2>4, SMT
  <2> QED BY <2>1, <2>2, <2>5
<1>3. \A x \in Conn : IsFiniteSet({x} \X DOMAIN d[x]) /\ Cardinality({x} \X DOMAIN d[x]) = Len(d[x])
  <2> TAKE x \in Conn
  <2>1. IsFiniteSet({x}) /\ Cardinality({x}) = 1
    BY FS_Singleton
  <2>2. IsFiniteSet({x} \X DOMAIN d[x])
    BY <1>2, <2>1, FS_Product
  <2>3. Cardinality({x} \X DOMAIN d[x]) = Cardinality({x}) * Cardinality(DOMAIN d[x])
    BY <1>2, <2>1, FS_Product
  <2>4. Cardinality({x} \X DOMAIN d[x]) = 1 * Len(d[x])
    BY <1>2, <2>1, <2>3
  <2>5. Cardinality({x} \X DOMAIN d[x]) = Len(d[x])
    BY <1>1, <2>4, SMT
  <2> QED BY <2>2, <2>5
<1>4. IsFiniteSet(Sets)
  <2>1. f \in Surjection(Conn, Sets)
    BY DEF Surjection
  <2> HIDE DEF f, Sets
  <2> QED BY <2>1, FS_Surjection, PipelineAssumption
<1>5. IsFiniteSet(UNION Sets)
  <2>1. \A T \in Sets : IsFiniteSet(T)
    BY <1>3
  <2> HIDE DEF Sets
  <2> QED BY <1>4, <2>1, FS_UNION
<1>6. IsFiniteSet(Places(d))
  BY <1>5 DEF Places
<1>7. Rest \in SUBSET Places(d)
  OBVIOUS
<1>8. IsFiniteSet(Rest) /\ Cardinality(Rest) \in Nat
  BY <1>6, <1>7, FS_Subset, FS_CardinalityType
<1>9. Places(d) = Rest \cup Own /\ Rest \cap Own = {}
  <2>1. ASSUME NEW p \in Places(d), p[1] = c PROVE p \in Own
    BY <2>1 DEF Places
  <2>2. Own \subseteq Places(d)
    BY DEF Places
  <2>3. \A p \in Own : p[1] = c
    OBVIOUS
  <2> HIDE DEF Own
  <2> QED BY <2>1, <2>2, <2>3
<1>10. IsFiniteSet(Own) /\ Cardinality(Own) = Len(d[c])
  BY <1>3
<1> HIDE DEF Rest, Own
<1>11. Cardinality(Places(d)) = Cardinality(Rest) + Cardinality(Own) - Cardinality(Rest \cap Own)
  BY <1>8, <1>9, <1>10, FS_Union
<1>12. Cardinality(Rest \cap Own) = 0
  BY <1>9, FS_EmptySet
<1>13. Cardinality(Places(d)) = Cardinality(Rest) + Len(d[c])
  BY <1>1, <1>8, <1>10, <1>11, <1>12, SMT
<1> QED BY <1>1, <1>8, <1>13 DEF Rest

(* Changing the deferred messages of one connection changes their number by *)
(* as many.                                                                 *)
LEMMA PlacesUpdate ==
    ASSUME NEW d \in [Conn -> Seq(Nat)], NEW c \in Conn, NEW s \in Seq(Nat)
    PROVE  LET e == [d EXCEPT ![c] = s]
           IN  /\ e \in [Conn -> Seq(Nat)]
               /\ Cardinality(Places(d)) \in Nat /\ Cardinality(Places(e)) \in Nat
               /\ Len(d[c]) \in Nat /\ Len(s) \in Nat /\ Len(d[c]) <= Cardinality(Places(d))
               /\ Cardinality(Places(e)) + Len(d[c]) = Cardinality(Places(d)) + Len(s)
<1> DEFINE e == [d EXCEPT ![c] = s]
           R(x) == {p \in Places(x) : p[1] # c}
<1>1. e \in [Conn -> Seq(Nat)] /\ e[c] = s /\ \A x \in Conn : x # c => e[x] = d[x]
  OBVIOUS
<1> HIDE DEF e
<1>2. R(e) = R(d)
  <2>1. ASSUME NEW a, NEW b, a \in [Conn -> Seq(Nat)], b \in [Conn -> Seq(Nat)],
               \A x \in Conn : x # c => a[x] = b[x], NEW p \in R(a)
        PROVE  p \in R(b)
    <3>1. PICK x \in Conn : p \in {x} \X DOMAIN a[x]
      BY DEF Places
    <3>2. x # c /\ p[1] # c
      BY <3>1
    <3>3. p \in {x} \X DOMAIN b[x]
      BY <2>1, <3>1, <3>2
    <3> QED BY <3>2, <3>3 DEF Places
  <2>2. \A p \in R(e) : p \in R(d)
    BY <1>1, <2>1
  <2>3. \A p \in R(d) : p \in R(e)
    BY <1>1, <2>1
  <2> QED BY <2>2, <2>3
<1>3. /\ Cardinality(R(d)) \in Nat /\ Len(d[c]) \in Nat
      /\ Cardinality(Places(d)) = Cardinality(R(d)) + Len(d[c])
  BY PlacesOf
<1>4. /\ Cardinality(R(e)) \in Nat /\ Len(e[c]) \in Nat
      /\ Cardinality(Places(e)) = Cardinality(R(e)) + Len(e[c])
  BY <1>1, PlacesOf
<1> HIDE DEF R
<1>5. /\ Cardinality(Places(d)) \in Nat /\ Cardinality(Places(e)) \in Nat
      /\ Len(d[c]) <= Cardinality(Places(d))
      /\ Cardinality(Places(e)) + Len(d[c]) = Cardinality(Places(d)) + Len(s)
  BY <1>1, <1>2, <1>3, <1>4, SMT
<1> QED BY <1>1, <1>3, <1>4, <1>5 DEF e

(* What is about to be taken is counted. *)
LEMMA Counted ==
    ASSUME TypeOK, CountsExact, NEW c \in Conn
    PROVE  /\ pending[c] \in Nat /\ Len(deferred[c]) \in Nat
           /\ Count(jobs, MessageJob(c)) \in Nat /\ Count(calls, {Dispatched(c)}) \in Nat
           /\ Len(deferred[c]) <= pending[c] /\ Len(deferred[c]) <= deferredCount
           /\ jobs # <<>> /\ Head(jobs).kind = "message" /\ Head(jobs).conn = c => pending[c] > 0
           /\ calls # <<>> /\ Inner.call = "dispatched" /\ Inner.conn = c => pending[c] > 0
           /\ deferred[c] # <<>> => pending[c] > 0 /\ deferredCount > 0
<1>1. pending[c] \in Nat /\ Len(deferred[c]) \in Nat
  BY DEF TypeOK
<1>2. jobs \in Seq(Job) /\ calls \in Seq(Call)
  BY DEF TypeOK
<1>3. Count(jobs, MessageJob(c)) \in Nat /\ Count(calls, {Dispatched(c)}) \in Nat
  BY <1>2, CountNat
<1>4. pending[c] = Len(deferred[c]) + Count(jobs, MessageJob(c)) + Count(calls, {Dispatched(c)})
  BY DEF CountsExact
<1>5. Len(deferred[c]) <= pending[c]
  BY <1>1, <1>3, <1>4, SMT
<1>6. Len(deferred[c]) <= deferredCount
  <2>1. deferred \in [Conn -> Seq(Nat)] /\ deferredCount = Cardinality(Places(deferred))
    BY DEF TypeOK, CountsExact, DeferredPlaces, Places
  <2>2. Cardinality({p \in Places(deferred) : p[1] # c}) \in Nat
    BY <2>1, PlacesOf
  <2>3. Cardinality(Places(deferred)) = Cardinality({p \in Places(deferred) : p[1] # c}) + Len(deferred[c])
    BY <2>1, PlacesOf
  <2> QED BY <1>1, <2>1, <2>2, <2>3, SMT
<1>7. ASSUME jobs # <<>>, Head(jobs).kind = "message", Head(jobs).conn = c PROVE pending[c] > 0
  <2>1. Head(jobs) \in Job
    BY <1>2, <1>7, SeqTail
  <2>2. Head(jobs) \in MessageJob(c)
    BY <1>7, <2>1, SMT DEF Job, MessageJob
  <2>3. Count(jobs, MessageJob(c)) = 1 + Count(Tail(jobs), MessageJob(c))
    BY <1>2, <1>7, <2>2, CountTail DEF Bit
  <2>4. Count(Tail(jobs), MessageJob(c)) \in Nat
    BY <1>2, <1>7, SeqTail, CountNat
  <2> QED BY <1>1, <1>3, <1>4, <2>3, <2>4, SMT
<1>8. ASSUME calls # <<>>, Inner.call = "dispatched", Inner.conn = c PROVE pending[c] > 0
  <2>1. Head(calls) \in Call
    BY <1>2, <1>8, SeqTail
  <2>2. Head(calls) \in {Dispatched(c)}
    BY <1>8, <2>1, CallTypes DEF Inner
  <2>3. Count(calls, {Dispatched(c)}) = 1 + Count(Tail(calls), {Dispatched(c)})
    BY <1>2, <1>8, <2>2, CountTail DEF Bit
  <2>4. Count(Tail(calls), {Dispatched(c)}) \in Nat
    BY <1>2, <1>8, SeqTail, CountNat
  <2> QED BY <1>1, <1>3, <1>4, <2>3, <2>4, SMT
<1>9. ASSUME deferred[c] # <<>> PROVE pending[c] > 0 /\ deferredCount > 0
  <2>1. Len(deferred[c]) > 0
    BY <1>9, SMT DEF TypeOK
  <2>2. deferredCount \in Nat
    BY DEF TypeOK
  <2> QED BY <1>1, <1>5, <1>6, <2>1, <2>2, SMT
<1> QED BY <1>1, <1>3, <1>5, <1>6, <1>7, <1>8, <1>9

-----------------------------------------------------------------------------
(* The types. *)
LEMMA AnswerTypes ==
    ASSUME TypeOK, NEW c \in Conn, NEW hashed \in BOOLEAN, NEW a \in Answers(c, hashed)
    PROVE  a.net \in Seq(Post) /\ a.shed \in SUBSET Conn
<1>1. net \in Seq(Post) /\ shed \in SUBSET Conn
  BY DEF TypeOK
<1>2. Append(net, [kind |-> "login", conn |-> c, hashed |-> hashed]) \in Seq(Post)
  BY <1>1, PostTypes, SeqAppend
<1>3. Shedding(net) \in Seq(Post)
  BY <1>1, SheddingPosts
<1> QED BY <1>1, <1>2, <1>3, SMTT(40) DEF Answers

LEMMA NextDeadlineLater ==
    ASSUME TypeOK, NEW c \in Conn, NEW ms \in Millis
    PROVE  NextDeadline(c, ms) \in Nat /\ deadline[c] < NextDeadline(c, ms)
<1>1. deadline[c] \in Nat /\ ms \in Nat
  BY PipelineAssumption DEF TypeOK
<1> QED BY <1>1, SMT DEF NextDeadline

LEMMA DispatchTypes ==
    ASSUME TypeOK, NEW c \in Conn, NEW n \in Nat, NEW rest \in Seq(Call), pending[c] > 0,
           \/ Dropped(c, n, rest) \/ Deferred(c, n, rest)
           \/ Handled(c, n, rest) \/ Submitted(c, n, rest)
    PROVE  /\ net' \in Seq(Post) /\ shed' \subseteq Conn /\ calls' \in Seq(Call)
           /\ pending' \in [Conn -> Nat] /\ credential' \in [Conn -> BOOLEAN]
           /\ deadline' \in [Conn -> Nat] /\ loggedIn' \in [Conn -> BOOLEAN]
           /\ processed' \in [Conn -> Nat] /\ waiting' \subseteq Conn
<1> DEFINE Goal == /\ net' \in Seq(Post) /\ shed' \subseteq Conn /\ calls' \in Seq(Call)
                   /\ pending' \in [Conn -> Nat] /\ credential' \in [Conn -> BOOLEAN]
                   /\ deadline' \in [Conn -> Nat] /\ loggedIn' \in [Conn -> BOOLEAN]
                   /\ processed' \in [Conn -> Nat] /\ waiting' \subseteq Conn
<1>1. /\ net \in Seq(Post) /\ shed \subseteq Conn /\ pending \in [Conn -> Nat]
      /\ credential \in [Conn -> BOOLEAN] /\ deadline \in [Conn -> Nat]
      /\ loggedIn \in [Conn -> BOOLEAN] /\ processed \in [Conn -> Nat] /\ waiting \subseteq Conn
  BY DEF TypeOK
<1>2. pending[c] - 1 \in Nat
  BY <1>1, SMT
<1>3. [pending EXCEPT ![c] = @ - 1] \in [Conn -> Nat]
  BY <1>1, <1>2
<1>4. ASSUME Dropped(c, n, rest) PROVE Goal
  BY <1>1, <1>3, <1>4 DEF Dropped
<1>5. ASSUME Deferred(c, n, rest) PROVE Goal
  BY <1>1, <1>3, <1>5, SheddingPosts DEF Deferred
<1>6. ASSUME Handled(c, n, rest) PROVE Goal
  <2>1. /\ calls' \in Seq(Call) /\ pending' \in [Conn -> Nat] /\ credential' \in [Conn -> BOOLEAN]
        /\ deadline' \in [Conn -> Nat] /\ processed' \in [Conn -> Nat] /\ waiting' \subseteq Conn
    BY <1>1, <1>3, <1>6 DEF Handled
  <2>2. CASE UNCHANGED <<loggedIn, net, shed>>
    BY <1>1, <2>1, <2>2
  <2>3. CASE Login(c) /\ \E answer \in Answers(c, FALSE) : net' = answer.net /\ shed' = answer.shed
    <3>1. loggedIn' \in [Conn -> BOOLEAN]
      BY <1>1, <2>3 DEF Login
    <3>2. net' \in Seq(Post) /\ shed' \subseteq Conn
      BY <2>3, AnswerTypes
    <3> QED BY <2>1, <3>1, <3>2
  <2> QED BY <1>6, <2>2, <2>3 DEF Handled
<1>7. ASSUME Submitted(c, n, rest) PROVE Goal
  <2>1. PICK ms \in Millis : deadline' = [deadline EXCEPT ![c] = NextDeadline(c, ms)]
    BY <1>7 DEF Submitted
  <2>2. deadline' \in [Conn -> Nat]
    BY <1>1, <2>1, NextDeadlineLater
  <2>3. <<Prune, Dispatched(c)>> \o rest \in Seq(Call)
    <3>1. <<Prune, Dispatched(c)>> \in Seq(Call)
      BY CallTypes, SMT
    <3> QED BY <3>1, SeqConcat
  <2>4. calls' \in Seq(Call) /\ pending' \in [Conn -> Nat]
    BY <1>1, <1>3, <1>7, <2>3 DEF Submitted
  <2>5. /\ credential' \in [Conn -> BOOLEAN] /\ processed' \in [Conn -> Nat] /\ waiting' \subseteq Conn
        /\ net' = net /\ shed' = shed /\ loggedIn' = loggedIn
    BY <1>1, <1>7 DEF Submitted
  <2> QED BY <1>1, <2>2, <2>4, <2>5
<1> QED BY <1>4, <1>5, <1>6, <1>7

LEMMA ClosedTypes ==
    ASSUME TypeOK, NEW cs \in SUBSET Conn, Closed(cs, jobs)
    PROVE  alive' \in [Conn -> BOOLEAN] /\ jobs' \in Seq(Job)
<1>1. alive' = [c \in Conn |-> alive[c] /\ c \notin cs]
  BY ClosedEffect
<1>2. PICK order \in Seq(Job) : jobs' = jobs \o order
  BY ClosedEffect
<1>3. jobs \in Seq(Job)
  BY DEF TypeOK
<1> QED BY <1>1, <1>2, <1>3, SeqConcat

LEMMA FinishTypes ==
    ASSUME TypeOK, NEW c \in Conn, NEW posted \in Seq(Post), NEW rest \in Seq(Call),
           Finish(c, posted, rest)
    PROVE  credential' \in [Conn -> BOOLEAN] /\ net' \in Seq(Post) /\ calls' \in Seq(Call)
<1>1. deadline[c] \in Nat /\ credential \in [Conn -> BOOLEAN]
  BY DEF TypeOK
<1>2. [kind |-> "reset", conn |-> c, deadline |-> deadline[c]] \in Post
  BY <1>1, PostTypes
<1> QED BY <1>1, <1>2, SeqAppend, SeqPush, CallTypes DEF Finish

LEMMA NextTypes == TypeOK /\ CountsExact /\ [Next]_vars => TypeOK'
<1> SUFFICES ASSUME TypeOK, CountsExact, [Next]_vars PROVE TypeOK'
  OBVIOUS
<1>0. /\ jobs \in Seq(Job) /\ calls \in Seq(Call) /\ net \in Seq(Post) /\ shed \in SUBSET Conn
      /\ waiting \in SUBSET Conn
  BY DEF TypeOK
<1>1. ASSUME NEW c \in Conn, OnMessage(c) PROVE TypeOK'
  <2>1. received' \in [Conn -> Nat] /\ received'[c] \in Nat
    BY <1>1 DEF TypeOK, OnMessage
  <2>2. alive' \in [Conn -> BOOLEAN] /\ jobs' \in Seq(Job) /\ pending' \in [Conn -> Nat]
    <3>1. CASE pending[c] < MaxPending /\ HasRoom
      <4>1. [kind |-> "message", conn |-> c, number |-> received'[c]] \in Job
        BY <2>1, JobTypes
      <4>2. /\ pending' = [pending EXCEPT ![c] = @ + 1] /\ alive' = alive
            /\ jobs' = Append(jobs, [kind |-> "message", conn |-> c, number |-> received'[c]])
        BY <1>1, <3>1 DEF OnMessage
      <4>3. jobs' \in Seq(Job)
        BY <1>0, <4>1, <4>2, SeqAppend
      <4> QED BY <4>2, <4>3 DEF TypeOK
    <3>2. CASE ~(pending[c] < MaxPending /\ HasRoom)
      <4>1. Closed({c}, jobs) /\ pending' = pending
        BY <1>1, <3>2 DEF OnMessage
      <4> QED BY <4>1, ClosedTypes DEF TypeOK
    <3> QED BY <3>1, <3>2
  <2> QED BY <1>1, <2>1, <2>2 DEF TypeOK, OnMessage, queue
<1>2. ASSUME NEW c \in Conn, CloseConnection(c) PROVE TypeOK'
  <2>1. alive' \in [Conn -> BOOLEAN] /\ jobs' \in Seq(Job)
    BY <1>2, ClosedTypes DEF CloseConnection
  <2> QED BY <1>2, <2>1 DEF TypeOK, CloseConnection, network, app, queue
<1>3. ASSUME PumpTimer PROVE TypeOK'
  <2>1. jobs' \in Seq(Job) /\ pumpPosted' \in BOOLEAN
    BY <1>0, <1>3, JobTypes, SeqAppend DEF PumpTimer
  <2> QED BY <1>3, <2>1 DEF TypeOK, PumpTimer, app, queue
<1>4. ASSUME RunPost PROVE TypeOK'
  <2> DEFINE post == Head(net)
  <2>1. net' \in Seq(Post) /\ post \in Post
    BY <1>0, <1>4, SeqTail DEF RunPost
  <2>2. /\ received' = received /\ calls' = calls /\ pending' = pending /\ credential' = credential
        /\ deferred' = deferred /\ deferredCount' = deferredCount /\ loggedIn' = loggedIn
        /\ processed' = processed /\ waiting' = waiting /\ slot' = slot /\ inbox' = inbox
        /\ hashing' = hashing
    BY <1>4 DEF RunPost, queue
  <2>3. CASE /\ post.kind = "login"
             /\ authenticated' = [authenticated EXCEPT ![post.conn] = @ \/ alive[post.conn]]
             /\ UNCHANGED <<alive, shed, jobs, deadline, pumpPosted>>
    <3>1. post.conn \in Conn
      BY <2>1, <2>3, PostTypes
    <3>2. authenticated' \in [Conn -> BOOLEAN]
      BY <2>3, <3>1 DEF TypeOK
    <3> QED BY <2>1, <2>2, <2>3, <3>2 DEF TypeOK
  <2>4. CASE /\ post.kind = "reset"
             /\ deadline' = Reset(post)
             /\ UNCHANGED <<alive, shed, jobs, authenticated, pumpPosted>>
    <3>1. deadline' \in [Conn -> Nat]
      BY <2>4 DEF TypeOK, Reset
    <3> QED BY <2>1, <2>2, <2>4, <3>1 DEF TypeOK
  <2>5. CASE /\ post.kind = "shed"
             /\ Closed(shed, jobs)
             /\ shed' = {}
             /\ UNCHANGED <<deadline, authenticated, pumpPosted>>
    <3>1. alive' \in [Conn -> BOOLEAN] /\ jobs' \in Seq(Job)
      BY <1>0, <2>5, ClosedTypes
    <3> QED BY <2>1, <2>2, <2>5, <3>1 DEF TypeOK
  <2>6. CASE /\ post.kind = "pumped"
             /\ pumpPosted' = FALSE
             /\ UNCHANGED <<alive, shed, jobs, deadline, authenticated>>
    BY <2>1, <2>2, <2>6 DEF TypeOK
  <2> QED BY <1>4, <2>3, <2>4, <2>5, <2>6 DEF RunPost
<1>5. ASSUME TakeMessage PROVE TypeOK'
  <2> DEFINE c == Head(jobs).conn
             n == Head(jobs).number
  <2>1. Head(jobs) \in Job /\ Head(jobs).kind = "message" /\ jobs # <<>> /\ jobs' \in Seq(Job)
    BY <1>5, HeadJob DEF TakeMessage
  <2>2. c \in Conn /\ n \in Nat
    BY <2>1, JobTypes
  <2>3. pending[c] > 0
    BY <2>1, <2>2, Counted
  <2>4. <<>> \in Seq(Call)
    BY SMT
  <2>5. DispatchMessage(c, n, <<>>)
    BY <1>5 DEF TakeMessage
  <2>6. /\ authenticated' = authenticated /\ received' = received /\ pumpPosted' = pumpPosted
        /\ alive' = alive /\ slot' = slot /\ inbox' = inbox /\ hashing' = hashing
    BY <1>5 DEF TakeMessage, network
  <2> HIDE DEF c, n
  <2>7. \/ Dropped(c, n, <<>>) \/ Deferred(c, n, <<>>)
        \/ Handled(c, n, <<>>) \/ Submitted(c, n, <<>>)
    BY <2>5 DEF DispatchMessage, ProcessMessage
  <2>8. deferred' \in [Conn -> Seq(Nat)] /\ deferredCount' \in Nat
    <3>1. CASE Deferred(c, n, <<>>)
      <4>1. Append(deferred[c], n) \in Seq(Nat)
        BY <2>2 DEF TypeOK
      <4>2. deferredCount + 1 \in Nat
        BY SMT DEF TypeOK
      <4> QED BY <3>1, <4>1, <4>2 DEF Deferred, TypeOK
    <3>2. CASE UNCHANGED <<deferred, deferredCount>>
      BY <3>2 DEF TypeOK
    <3> QED BY <2>5, <3>1, <3>2 DEF DispatchMessage
  <2>9. /\ net' \in Seq(Post) /\ shed' \subseteq Conn /\ calls' \in Seq(Call)
        /\ pending' \in [Conn -> Nat] /\ credential' \in [Conn -> BOOLEAN]
        /\ deadline' \in [Conn -> Nat] /\ loggedIn' \in [Conn -> BOOLEAN]
        /\ processed' \in [Conn -> Nat] /\ waiting' \subseteq Conn
    BY <2>2, <2>3, <2>4, <2>7, DispatchTypes
  <2> QED BY <2>1, <2>6, <2>8, <2>9 DEF TypeOK
<1>6. ASSUME Cleanup PROVE TypeOK'
  <2> DEFINE c == Head(jobs).conn
  <2>1. Head(jobs) \in Job /\ Head(jobs).kind = "cleanup" /\ jobs' \in Seq(Job)
    BY <1>6, HeadJob DEF Cleanup
  <2>2. c \in Conn
    BY <2>1, JobTypes
  <2> HIDE DEF c
  <2>3. /\ pending[c] - Len(deferred[c]) \in Nat /\ deferredCount - Len(deferred[c]) \in Nat
    <3>1. /\ pending[c] \in Nat /\ Len(deferred[c]) \in Nat
          /\ Len(deferred[c]) <= pending[c] /\ Len(deferred[c]) <= deferredCount
      BY <2>2, Counted
    <3> QED BY <3>1, SMT DEF TypeOK
  <2>4. /\ pending' = [pending EXCEPT ![c] = @ - Len(deferred[c])]
        /\ deferredCount' = deferredCount - Len(deferred[c])
        /\ deferred' = [deferred EXCEPT ![c] = <<>>]
        /\ loggedIn' = [loggedIn EXCEPT ![c] = FALSE]
        /\ waiting' = waiting \ {c} /\ slot' = slot
    BY <1>6 DEF Cleanup, Cancel, c
  <2>5. /\ pending' \in [Conn -> Nat] /\ deferredCount' \in Nat /\ loggedIn' \in [Conn -> BOOLEAN]
        /\ waiting' \subseteq Conn
    BY <2>2, <2>3, <2>4 DEF TypeOK
  <2>6. deferred' \in [Conn -> Seq(Nat)]
    <3>1. <<>> \in Seq(Nat)
      BY SMT
    <3> QED BY <2>2, <2>4, <3>1 DEF TypeOK
  <2> QED BY <1>6, <2>1, <2>4, <2>5, <2>6 DEF TypeOK, Cleanup, network
<1>7. ASSUME TakeHashed PROVE TypeOK'
  <2> DEFINE c == Head(jobs).conn
             w == Head(jobs).worker
  <2>1. Head(jobs) \in Job /\ Head(jobs).kind = "hashed" /\ jobs' \in Seq(Job)
    BY <1>7, HeadJob DEF TakeHashed
  <2>2. c \in Conn /\ w \in Worker
    BY <2>1, JobTypes
  <2>3. slot' = [slot EXCEPT ![w] = {}]
    BY <1>7 DEF TakeHashed
  <2>4. slot' \in [Worker -> SUBSET Conn]
    BY <2>2, <2>3 DEF TypeOK
  <2>5. <<Prune>> \in Seq(Call)
    BY CallTypes, SMT
  <2>6. /\ credential' \in [Conn -> BOOLEAN] /\ net' \in Seq(Post) /\ calls' \in Seq(Call)
        /\ loggedIn' \in [Conn -> BOOLEAN] /\ shed' \subseteq Conn
    <3>1. CASE Finish(c, net, <<Prune>>) /\ UNCHANGED <<loggedIn, shed>>
      BY <1>0, <2>2, <2>5, <3>1, FinishTypes DEF TypeOK
    <3>2. CASE /\ Login(c)
               /\ \E answer \in Answers(c, TRUE) :
                     Finish(c, answer.net, <<Prune>>) /\ shed' = answer.shed
      <4>1. PICK answer \in Answers(c, TRUE) : Finish(c, answer.net, <<Prune>>) /\ shed' = answer.shed
        BY <3>2
      <4>2. answer.net \in Seq(Post) /\ answer.shed \in SUBSET Conn
        BY <2>2, AnswerTypes
      <4>3. loggedIn' \in [Conn -> BOOLEAN]
        BY <3>2 DEF Login, TypeOK
      <4>4. credential' \in [Conn -> BOOLEAN] /\ net' \in Seq(Post) /\ calls' \in Seq(Call)
        BY <2>2, <2>5, <4>1, <4>2, FinishTypes
      <4> QED BY <4>1, <4>2, <4>3, <4>4
    <3> QED BY <1>7, <3>1, <3>2 DEF TakeHashed
  <2> QED BY <1>7, <2>1, <2>4, <2>6 DEF TypeOK, TakeHashed, network
<1>8. ASSUME TakePump PROVE TypeOK'
  <2>1. jobs' \in Seq(Job)
    BY <1>8, HeadJob DEF TakePump
  <2>2. <<Prune, [call |-> "pumped"]>> \in Seq(Call)
    BY CallTypes, SMT
  <2>3. calls' \in Seq(Call)
    BY <1>8, <2>2 DEF TakePump
  <2> QED BY <1>8, <2>1, <2>3 DEF TypeOK, TakePump, network, app, queue

<1>9. ASSUME DrainNext PROVE TypeOK'
  <2> DEFINE c == Inner.conn
             n == Head(deferred[c])
  <2>1. c \in Conn
    BY <1>9, InnerCall, CallTypes DEF DrainNext
  <2>2. /\ deferred[c] # <<>>
        /\ deferred' = [deferred EXCEPT ![c] = Tail(@)]
        /\ deferredCount' = deferredCount - 1
        /\ Dropped(c, n, calls) \/ ProcessMessage(c, n, calls)
    BY <1>9 DEF DrainNext
  <2>3. /\ authenticated' = authenticated /\ received' = received /\ pumpPosted' = pumpPosted
        /\ alive' = alive /\ jobs' = jobs /\ slot' = slot /\ inbox' = inbox /\ hashing' = hashing
    BY <1>9 DEF DrainNext, network
  <2> HIDE DEF c
  <2>4. n \in Nat /\ Tail(deferred[c]) \in Seq(Nat)
    BY <2>1, <2>2, SeqTail DEF TypeOK
  <2> HIDE DEF n
  <2>5. deferred' \in [Conn -> Seq(Nat)]
    BY <2>1, <2>2, <2>4 DEF TypeOK
  <2>6. pending[c] > 0 /\ deferredCount > 0
    BY <2>1, <2>2, Counted
  <2>7. deferredCount' \in Nat
    BY <2>2, <2>6, SMT DEF TypeOK
  <2>8. /\ net' \in Seq(Post) /\ shed' \subseteq Conn /\ calls' \in Seq(Call)
        /\ pending' \in [Conn -> Nat] /\ credential' \in [Conn -> BOOLEAN]
        /\ deadline' \in [Conn -> Nat] /\ loggedIn' \in [Conn -> BOOLEAN]
        /\ processed' \in [Conn -> Nat] /\ waiting' \subseteq Conn
    BY <1>0, <2>1, <2>2, <2>4, <2>6, DispatchTypes DEF ProcessMessage
  <2> QED BY <2>3, <2>5, <2>7, <2>8 DEF TypeOK
<1>10. ASSUME DrainEnd PROVE TypeOK'
  <2>1. calls' \in Seq(Call)
    BY <1>10, InnerCall DEF DrainEnd
  <2> QED BY <1>10, <2>1 DEF TypeOK, DrainEnd, network, app, queue
<1>11. ASSUME Return PROVE TypeOK'
  <2>1. Inner.conn \in Conn /\ Inner.call = "dispatched" /\ calls # <<>> /\ calls' \in Seq(Call)
    BY <1>11, InnerCall, CallTypes DEF Return
  <2>2. pending[Inner.conn] > 0
    BY <2>1, Counted
  <2>3. pending[Inner.conn] - 1 \in Nat
    BY <2>1, <2>2, SMT DEF TypeOK
  <2>4. pending' \in [Conn -> Nat]
    BY <1>11, <2>3 DEF Return, TypeOK
  <2> QED BY <1>11, <2>1, <2>4 DEF TypeOK, Return, network, queue
<1>12. ASSUME NEW expired \in SUBSET Conn, PumpPrune(expired) PROVE TypeOK'
  <2>1. calls' \in Seq(Call)
    BY <1>12, InnerCall, CallTypes, SeqPush DEF PumpPrune
  <2>2. waiting' \subseteq Conn
    BY <1>0, <1>12 DEF PumpPrune
  <2> QED BY <1>12, <2>1, <2>2 DEF TypeOK, PumpPrune, network, app
<1>13. ASSUME NEW c \in Conn, PumpExpire(c) PROVE TypeOK'
  <2>1. [Inner EXCEPT !.expired = @ \ {c}] \in Call
    <3>1. /\ Inner.expired \in SUBSET Conn
          /\ Inner = [call |-> "pump", expired |-> Inner.expired]
      BY <1>13, InnerCall, CallTypes DEF PumpExpire
    <3>2. [Inner EXCEPT !.expired = @ \ {c}] = [call |-> "pump", expired |-> Inner.expired \ {c}]
      BY <3>1
    <3> QED BY <3>1, <3>2, CallTypes
  <2>2. <<[Inner EXCEPT !.expired = @ \ {c}]>> \o Tail(calls) \in Seq(Call)
    BY <1>13, <2>1, InnerCall, SeqPush DEF PumpExpire
  <2>3. credential' \in [Conn -> BOOLEAN] /\ net' \in Seq(Post) /\ calls' \in Seq(Call)
    BY <1>0, <1>13, <2>2, FinishTypes DEF PumpExpire
  <2> QED BY <1>13, <2>3 DEF TypeOK, PumpExpire, network, queue
<1>14. ASSUME PumpScan PROVE TypeOK'
  <2> DEFINE idle == {w \in Worker : slot[w] = {}}
             One  == {{}} \cup {{c} : c \in waiting}
  <2>1. PICK start \in [idle -> One] :
           /\ slot' = [w \in Worker |-> IF w \in idle THEN start[w] ELSE slot[w]]
           /\ inbox' = [w \in Worker |-> IF w \in idle THEN inbox[w] \cup start[w] ELSE inbox[w]]
           /\ waiting' = waiting \ UNION {start[w] : w \in idle}
    BY <1>14 DEF PumpScan
  <2>2. \A w \in idle : start[w] \in SUBSET Conn
    BY <1>0
  <2>3. slot' \in [Worker -> SUBSET Conn] /\ inbox' \in [Worker -> SUBSET Conn] /\ waiting' \subseteq Conn
    BY <1>0, <2>1, <2>2 DEF TypeOK
  <2>4. calls' \in Seq(Call)
    BY <1>14, InnerCall DEF PumpScan
  <2> QED BY <1>14, <2>3, <2>4 DEF TypeOK, PumpScan, network, app
<1>15. ASSUME Pumped PROVE TypeOK'
  <2>1. calls' \in Seq(Call)
    BY <1>15, InnerCall DEF Pumped
  <2>2. net' \in Seq(Post)
    BY <1>0, <1>15, PostTypes, SeqAppend DEF Pumped
  <2> QED BY <1>15, <2>1, <2>2 DEF TypeOK, Pumped, network, app, queue
<1>16. ASSUME NEW w \in Worker, HashTake(w) PROVE TypeOK'
  <2>1. PICK c \in inbox[w] : hashing' = [hashing EXCEPT ![w] = {c}]
                              /\ inbox' = [inbox EXCEPT ![w] = @ \ {c}]
    BY <1>16 DEF HashTake
  <2>2. hashing' \in [Worker -> SUBSET Conn] /\ inbox' \in [Worker -> SUBSET Conn]
    BY <2>1 DEF TypeOK
  <2> QED BY <1>16, <2>2 DEF TypeOK, HashTake, network, app
<1>17. ASSUME NEW w \in Worker, HashPost(w) PROVE TypeOK'
  <2>1. PICK c \in hashing[w] : jobs' = Append(jobs, HashedJob(c, w))
    BY <1>17 DEF HashPost, HashedJob
  <2>2. c \in Conn
    BY DEF TypeOK
  <2>3. jobs' \in Seq(Job)
    BY <1>0, <2>1, <2>2, JobTypes, SeqAppend
  <2>4. hashing' \in [Worker -> SUBSET Conn]
    BY <1>17 DEF TypeOK, HashPost
  <2> QED BY <1>17, <2>3, <2>4 DEF TypeOK, HashPost, network, app, queue
<1>18. CASE UNCHANGED vars
  BY <1>18 DEF TypeOK, vars, network, app, queue
<1> QED BY <1>1, <1>2, <1>3, <1>4, <1>5, <1>6, <1>7, <1>8, <1>9, <1>10, <1>11, <1>12, <1>13,
           <1>14, <1>15, <1>16, <1>17, <1>18 DEF Next, TakeJob, CallStep, HashStep

-----------------------------------------------------------------------------
(* The counters. *)
InJobs(c) == Count(jobs, MessageJob(c))
InCalls(c) == Count(calls, {Dispatched(c)})

LEMMA CountsFrame ==
    ASSUME CountsExact, pending' = pending, deferred' = deferred, deferredCount' = deferredCount,
           \A x \in Conn : InJobs(x)' = InJobs(x), \A x \in Conn : InCalls(x)' = InCalls(x)
    PROVE  CountsExact'
  BY DEF CountsExact, DeferredPlaces, InJobs, InCalls

(* A step moves a message of one connection from one place to another. *)
LEMMA CountsStep ==
    ASSUME TypeOK, TypeOK', CountsExact, NEW c \in Conn, NEW s \in Seq(Nat),
           deferred' = [deferred EXCEPT ![c] = s],
           \A x \in Conn : x # c => pending'[x] = pending[x] /\ InJobs(x)' = InJobs(x)
                                       /\ InCalls(x)' = InCalls(x),
           pending'[c] <= MaxPending, deferredCount' <= DeferredLimit,
           pending'[c] + Len(deferred[c]) + InJobs(c) + InCalls(c)
              = pending[c] + Len(s) + InJobs(c)' + InCalls(c)',
           deferredCount' + Len(deferred[c]) = deferredCount + Len(s)
    PROVE  CountsExact'
<1>1. deferred \in [Conn -> Seq(Nat)] /\ deferredCount \in Nat /\ deferredCount' \in Nat
  BY DEF TypeOK
<1>2. \A x \in Conn : /\ InJobs(x) \in Nat /\ InCalls(x) \in Nat
                      /\ pending[x] \in Nat /\ Len(deferred[x]) \in Nat
  BY Counted DEF InJobs, InCalls
<1>3. \A x \in Conn : pending[x] = Len(deferred[x]) + InJobs(x) + InCalls(x) /\ pending[x] <= MaxPending
  BY DEF CountsExact, InJobs, InCalls
<1>4. \A x \in Conn : InJobs(x)' \in Nat /\ InCalls(x)' \in Nat
  <2>1. jobs' \in Seq(Job) /\ calls' \in Seq(Call)
    BY DEF TypeOK
  <2> QED BY <2>1, CountNat DEF InJobs, InCalls
<1>5. Len(s) \in Nat /\ deferred'[c] = s /\ \A x \in Conn : x # c => deferred'[x] = deferred[x]
  BY <1>1
<1>6. pending'[c] \in Nat
  BY DEF TypeOK
<1>7. pending'[c] = Len(deferred'[c]) + InJobs(c)' + InCalls(c)'
  <2> PICK p, q, k, l, j, i, m, h : /\ p = pending[c] /\ q = pending'[c] /\ k = Len(deferred[c])
        /\ l = Len(s) /\ j = InJobs(c) /\ i = InCalls(c) /\ m = InJobs(c)' /\ h = InCalls(c)'
    OBVIOUS
  <2>1. /\ p \in Nat /\ q \in Nat /\ k \in Nat /\ l \in Nat
        /\ j \in Nat /\ i \in Nat /\ m \in Nat /\ h \in Nat
    BY <1>2, <1>4, <1>5, <1>6
  <2>2. p = k + j + i /\ q + k + j + i = p + l + m + h
    BY <1>3
  <2>3. q = l + m + h
    BY ONLY <2>1, <2>2, SMT
  <2> QED BY <1>5, <2>3
<1>8. \A x \in Conn : /\ pending'[x] = Len(deferred'[x]) + InJobs(x)' + InCalls(x)'
                      /\ pending'[x] <= MaxPending
  BY <1>3, <1>5, <1>7
<1>9. /\ Cardinality(Places(deferred)) \in Nat /\ Cardinality(Places(deferred')) \in Nat
      /\ Len(deferred[c]) \in Nat
      /\ Cardinality(Places(deferred')) + Len(deferred[c]) = Cardinality(Places(deferred)) + Len(s)
  BY <1>1, PlacesUpdate, ZenonT(40)
<1>10. deferredCount = Cardinality(Places(deferred))
  BY DEF CountsExact, DeferredPlaces, Places
<1>11. deferredCount' = Cardinality(Places(deferred'))
  BY <1>1, <1>5, <1>9, <1>10, SMT
<1> QED BY <1>8, <1>11 DEF CountsExact, DeferredPlaces, Places, InJobs, InCalls

(* Calls that are no "dispatched" do not count. *)
LEMMA CallsQuiet ==
    ASSUME TypeOK, NEW k \in Call, k.call # "dispatched", NEW rest \in Seq(Call)
    PROVE  \A x \in Conn : Count(<<k>> \o rest, {Dispatched(x)}) = Count(rest, {Dispatched(x)})
<1> TAKE x \in Conn
<1>1. k \notin {Dispatched(x)}
  BY DEF Dispatched
<1>2. Count(<<k>> \o rest, {Dispatched(x)}) = Bit(k \in {Dispatched(x)}) + Count(rest, {Dispatched(x)})
  BY CountPush
<1>3. Count(rest, {Dispatched(x)}) \in Nat
  BY CountNat
<1> QED BY <1>1, <1>2, <1>3, SMT DEF Bit

LEMMA CallsPopped ==
    ASSUME TypeOK, calls # <<>>
    PROVE  \A x \in Conn :
             InCalls(x) = Bit(Inner.call = "dispatched" /\ Inner.conn = x) + Count(Tail(calls), {Dispatched(x)})
<1> TAKE x \in Conn
<1>1. calls \in Seq(Call) /\ Inner \in Call
  BY SeqTail DEF TypeOK, Inner
<1>2. Inner \in {Dispatched(x)} <=> (Inner.call = "dispatched" /\ Inner.conn = x)
  <2>1. Dispatched(x).call = "dispatched" /\ Dispatched(x).conn = x
    BY DEF Dispatched
  <2> QED BY <1>1, <2>1, CallTypes
<1>3. InCalls(x) = Bit(Inner \in {Dispatched(x)}) + Count(Tail(calls), {Dispatched(x)})
  BY <1>1, CountTail DEF InCalls, Inner
<1> QED BY <1>2, <1>3 DEF Bit

(* So do jobs that are no messages. *)
LEMMA JobTaken ==
    ASSUME TypeOK, NEW kind, Takes(kind)
    PROVE  \A x \in Conn : InJobs(x) = Bit(kind = "message" /\ Head(jobs).conn = x) + InJobs(x)'
<1> TAKE x \in Conn
<1>1. jobs \in Seq(Job) /\ jobs # <<>> /\ Head(jobs) \in Job /\ Head(jobs).kind = kind /\ jobs' = Tail(jobs)
  BY HeadJob
<1>2. Head(jobs) \in MessageJob(x) <=> (kind = "message" /\ Head(jobs).conn = x)
  BY <1>1, SMT DEF Job, MessageJob
<1>3. InJobs(x) = Bit(Head(jobs) \in MessageJob(x)) + Count(Tail(jobs), MessageJob(x))
  BY <1>1, CountTail DEF InJobs
<1> QED BY <1>1, <1>2, <1>3 DEF Bit, InJobs

LEMMA JobQueued ==
    ASSUME TypeOK, NEW j \in Job, j.kind # "message", jobs' = Append(jobs, j)
    PROVE  \A x \in Conn : InJobs(x)' = InJobs(x)
<1> TAKE x \in Conn
<1>1. jobs \in Seq(Job)
  BY DEF TypeOK
<1>2. j \notin MessageJob(x)
  BY DEF MessageJob
<1>3. Count(Append(jobs, j), MessageJob(x)) = Count(jobs, MessageJob(x)) + Bit(j \in MessageJob(x))
  BY <1>1, CountAppend
<1>4. Count(jobs, MessageJob(x)) \in Nat
  BY <1>1, CountNat
<1> QED BY <1>2, <1>3, <1>4, SMT DEF Bit, InJobs

LEMMA JobsClosed ==
    ASSUME TypeOK, NEW cs \in SUBSET Conn, Closed(cs, jobs)
    PROVE  \A x \in Conn : InJobs(x)' = InJobs(x)
<1> TAKE x \in Conn
<1>1. PICK order \in Seq(Job) : jobs' = jobs \o order /\ \A n \in DOMAIN order : order[n].kind = "cleanup"
  BY ClosedEffect
<1>2. \A n \in DOMAIN order : order[n] \notin MessageJob(x)
  BY <1>1 DEF MessageJob
<1>3. jobs \in Seq(Job)
  BY DEF TypeOK
<1> QED BY <1>1, <1>2, <1>3, CountConcat DEF InJobs

(* The message being dispatched is done with, or the caller still has it. *)
LEMMA DispatchCounts ==
    ASSUME TypeOK, NEW c \in Conn, NEW n, NEW rest \in Seq(Call), pending[c] > 0,
           \/ Dropped(c, n, rest) \/ Handled(c, n, rest) \/ Submitted(c, n, rest)
           \/ Deferred(c, n, rest) /\ pending' = [pending EXCEPT ![c] = @ - 1]
    PROVE  /\ \A x \in Conn : x # c => /\ pending'[x] = pending[x]
                                       /\ InCalls(x)' = Count(rest, {Dispatched(x)})
           /\ pending'[c] \in Nat /\ pending'[c] <= pending[c]
           /\ Count(rest, {Dispatched(c)}) \in Nat /\ InCalls(c)' \in Nat
           /\ pending'[c] + 1 + Count(rest, {Dispatched(c)}) = pending[c] + InCalls(c)'
<1>1. pending \in [Conn -> Nat] /\ pending[c] \in Nat
  BY DEF TypeOK
<1>2. \A x \in Conn : Count(rest, {Dispatched(x)}) \in Nat
  BY CountNat
<1>3. CASE pending' = [pending EXCEPT ![c] = @ - 1] /\ calls' = rest
  <2>1. pending'[c] = pending[c] - 1 /\ \A x \in Conn : x # c => pending'[x] = pending[x]
    BY <1>1, <1>3
  <2>2. \A x \in Conn : InCalls(x)' = Count(rest, {Dispatched(x)})
    BY <1>3 DEF InCalls
  <2>3. pending'[c] \in Nat /\ pending'[c] <= pending[c] /\ pending'[c] + 1 = pending[c]
    BY <1>1, <2>1, SMT
  <2>4. pending'[c] + 1 + Count(rest, {Dispatched(c)}) = pending[c] + InCalls(c)'
    BY <2>2, <2>3
  <2> QED BY <1>2, <2>1, <2>2, <2>3, <2>4
<1>4. CASE pending' = pending /\ calls' = <<Prune, Dispatched(c)>> \o rest
  <2>0. Prune \in Call /\ Dispatched(c) \in Call /\ Prune.call # "dispatched"
    BY CallTypes DEF Prune
  <2>1. <<Prune, Dispatched(c)>> \o rest = <<Prune>> \o (<<Dispatched(c)>> \o rest)
    BY <2>0, SMT
  <2>2. <<Dispatched(c)>> \o rest \in Seq(Call)
    BY <2>0, SeqPush
  <2>3. \A x \in Conn : InCalls(x)' = Count(<<Dispatched(c)>> \o rest, {Dispatched(x)})
    <3>1. \A x \in Conn : Count(<<Prune>> \o (<<Dispatched(c)>> \o rest), {Dispatched(x)})
                              = Count(<<Dispatched(c)>> \o rest, {Dispatched(x)})
      BY <2>0, <2>2, CallsQuiet
    <3>2. \A x \in Conn : InCalls(x)' = Count(<<Prune>> \o (<<Dispatched(c)>> \o rest), {Dispatched(x)})
      BY <1>4, <2>1 DEF InCalls
    <3> QED BY <3>1, <3>2
  <2>4. \A x \in Conn : InCalls(x)' = Bit(Dispatched(c) \in {Dispatched(x)}) + Count(rest, {Dispatched(x)})
    BY <2>0, <2>3, CountPush
  <2>5. \A x \in Conn : x # c => Dispatched(c) \notin {Dispatched(x)}
    <3>1. \A x \in Conn : Dispatched(x).conn = x
      BY DEF Dispatched
    <3> QED BY <3>1
  <2>6. \A x \in Conn : x # c => InCalls(x)' = Count(rest, {Dispatched(x)})
    BY <1>2, <2>4, <2>5, SMT DEF Bit
  <2>7. InCalls(c)' = 1 + Count(rest, {Dispatched(c)})
    BY <2>4 DEF Bit
  <2>8. InCalls(c)' \in Nat /\ pending[c] + 1 + Count(rest, {Dispatched(c)}) = pending[c] + InCalls(c)'
    <3>1. PICK k \in Nat : k = Count(rest, {Dispatched(c)})
      BY <1>2
    <3>2. InCalls(c)' = 1 + k
      BY <2>7, <3>1
    <3>3. 1 + k \in Nat /\ pending[c] + 1 + k = pending[c] + (1 + k)
      BY <1>1, SMT
    <3> QED BY <3>1, <3>2, <3>3
  <2>9. pending[c] <= pending[c]
    BY <1>1, SMT
  <2> QED BY <1>1, <1>2, <1>4, <2>6, <2>8, <2>9
<1> QED BY <1>3, <1>4 DEF Dropped, Deferred, Handled, Submitted

LEMMA CountsAccepted ==
    ASSUME TypeOK, TypeOK', CountsExact, NEW c \in Conn, OnMessage(c),
           pending[c] < MaxPending /\ HasRoom
    PROVE  CountsExact'
<1> PICK j : j = [kind |-> "message", conn |-> c, number |-> received'[c]]
  OBVIOUS
<1>1. jobs \in Seq(Job) /\ received'[c] \in Nat /\ pending[c] \in Nat /\ deferred[c] \in Seq(Nat)
  BY DEF TypeOK
<1>2. j \in Job /\ \A x \in Conn : j \in MessageJob(x) <=> x = c
  BY <1>1, JobTypes DEF MessageJob
<1>3. /\ pending' = [pending EXCEPT ![c] = @ + 1] /\ jobs' = Append(jobs, j)
      /\ deferred' = deferred /\ deferredCount' = deferredCount /\ calls' = calls
  BY DEF OnMessage
<1>4. \A x \in Conn : InJobs(x) \in Nat /\ InJobs(x)' = InJobs(x) + Bit(j \in MessageJob(x))
  <2> TAKE x \in Conn
  <2>1. Count(jobs, MessageJob(x)) \in Nat
    BY <1>1, CountNat
  <2>2. Count(Append(jobs, j), MessageJob(x)) = Count(jobs, MessageJob(x)) + Bit(j \in MessageJob(x))
    BY <1>1, <1>2, CountAppend
  <2> QED BY <1>3, <2>1, <2>2 DEF InJobs
<1>5. \A x \in Conn : InCalls(x)' = InCalls(x)
  BY <1>3 DEF InCalls
<1>6. \A x \in Conn : x # c => pending'[x] = pending[x] /\ InJobs(x)' = InJobs(x)
  <2> SUFFICES ASSUME NEW x \in Conn, x # c PROVE pending'[x] = pending[x] /\ InJobs(x)' = InJobs(x)
    OBVIOUS
  <2>1. InJobs(x) \in Nat /\ InJobs(x)' = InJobs(x) + 0
    BY <1>2, <1>4 DEF Bit
  <2>2. InJobs(x)' = InJobs(x)
    BY ONLY <2>1, SMT
  <2> QED BY <1>3, <2>2 DEF TypeOK
<1>7. pending'[c] = pending[c] + 1 /\ InJobs(c)' = InJobs(c) + 1
  BY <1>2, <1>3, <1>4 DEF Bit, TypeOK
<1>8. pending'[c] <= MaxPending
  BY <1>1, <1>7, PipelineAssumption, SMT
<1>9. /\ InJobs(c) \in Nat /\ InCalls(c) \in Nat /\ Len(deferred[c]) \in Nat
  BY Counted DEF InJobs, InCalls
<1>10. pending'[c] + Len(deferred[c]) + InJobs(c) + InCalls(c)
              = pending[c] + Len(deferred[c]) + InJobs(c)' + InCalls(c)'
  <2> PICK p, k, m, i : p = pending[c] /\ k = Len(deferred[c]) /\ m = InJobs(c) /\ i = InCalls(c)
    OBVIOUS
  <2>1. p \in Nat /\ k \in Nat /\ m \in Nat /\ i \in Nat
    BY <1>1, <1>9
  <2>2. p + 1 + k + m + i = p + k + (m + 1) + i
    BY ONLY <2>1, SMT
  <2> QED BY <1>5, <1>7, <2>2
<1>11. deferred' = [deferred EXCEPT ![c] = deferred[c]]
  BY <1>3 DEF TypeOK
<1>12. deferredCount' <= DeferredLimit /\ deferredCount' + Len(deferred[c]) = deferredCount + Len(deferred[c])
  BY <1>3 DEF CountsExact
<1> QED BY <1>1, <1>5, <1>6, <1>8, <1>10, <1>11, <1>12, CountsStep

LEMMA CountsCleanup ==
    ASSUME TypeOK, TypeOK', CountsExact, Cleanup
    PROVE  CountsExact'
<1> PICK c : c = Head(jobs).conn
  OBVIOUS
<1>1. c \in Conn
  BY HeadJob, JobTypes DEF Cleanup
<1>2. \A x \in Conn : InJobs(x) = Bit("cleanup" = "message" /\ Head(jobs).conn = x) + InJobs(x)'
  BY JobTaken DEF Cleanup
<1>3. /\ pending' = [pending EXCEPT ![c] = @ - Len(deferred[c])]
      /\ deferredCount' = deferredCount - Len(deferred[c])
      /\ deferred' = [deferred EXCEPT ![c] = <<>>]
      /\ calls' = calls
  BY DEF Cleanup
<1> PICK s : s = <<>>
  OBVIOUS
<1>4. \A x \in Conn : InJobs(x)' \in Nat
  <2>1. jobs' \in Seq(Job)
    BY DEF TypeOK
  <2> QED BY <2>1, CountNat DEF InJobs
<1>5. \A x \in Conn : InJobs(x)' = InJobs(x)
  BY <1>2, <1>4, SMT DEF Bit
<1>6. \A x \in Conn : InCalls(x)' = InCalls(x)
  BY <1>3 DEF InCalls
<1>7. /\ pending[c] \in Nat /\ InJobs(c) \in Nat /\ InCalls(c) \in Nat /\ Len(deferred[c]) \in Nat
      /\ deferredCount \in Nat /\ Len(deferred[c]) <= pending[c] /\ Len(deferred[c]) <= deferredCount
  BY <1>1, Counted DEF InJobs, InCalls, TypeOK
<1>8. pending'[c] = pending[c] - Len(deferred[c]) /\ \A x \in Conn : x # c => pending'[x] = pending[x]
  BY <1>1, <1>3 DEF TypeOK
<1>9. pending[c] <= MaxPending /\ deferredCount <= DeferredLimit
  BY <1>1 DEF CountsExact
<1>10. Len(s) = 0 /\ s \in Seq(Nat) /\ deferred' = [deferred EXCEPT ![c] = s]
  BY <1>3, SMT
<1>11. /\ pending'[c] <= MaxPending /\ deferredCount' <= DeferredLimit
       /\ deferredCount' + Len(deferred[c]) = deferredCount + 0
  BY <1>3, <1>7, <1>8, <1>9, PipelineAssumption, SMT
<1>12. pending'[c] + Len(deferred[c]) + InJobs(c) + InCalls(c)
          = pending[c] + 0 + InJobs(c)' + InCalls(c)'
  <2> PICK p, k, m, i : p = pending[c] /\ k = Len(deferred[c]) /\ m = InJobs(c) /\ i = InCalls(c)
    OBVIOUS
  <2>1. p \in Nat /\ k \in Nat /\ m \in Nat /\ i \in Nat
    BY <1>7
  <2>2. p - k + k + m + i = p + 0 + m + i
    BY ONLY <2>1, SMT
  <2>3. pending'[c] = p - k /\ InJobs(c)' = m /\ InCalls(c)' = i
    BY <1>1, <1>5, <1>6, <1>8
  <2> QED BY <2>2, <2>3
<1>13. /\ pending'[c] + Len(deferred[c]) + InJobs(c) + InCalls(c)
            = pending[c] + Len(s) + InJobs(c)' + InCalls(c)'
       /\ deferredCount' + Len(deferred[c]) = deferredCount + Len(s)
  BY <1>10, <1>11, <1>12
<1> QED BY <1>1, <1>5, <1>6, <1>8, <1>10, <1>11, <1>13, CountsStep

LEMMA CountsDispatched ==
    ASSUME TypeOK, TypeOK', CountsExact, TakeMessage
    PROVE  CountsExact'
<1> PICK c, n, rest : c = Head(jobs).conn /\ n = Head(jobs).number /\ rest = <<>>
  OBVIOUS
<1>1. Head(jobs) \in Job /\ Head(jobs).kind = "message" /\ jobs # <<>> /\ calls = rest
  BY HeadJob DEF TakeMessage
<1>2. c \in Conn
  BY <1>1, JobTypes
<1>3. rest \in Seq(Call)
  BY SMT
<1>4. pending[c] > 0
  BY <1>1, <1>2, Counted
<1>5. \A x \in Conn : InJobs(x) = Bit("message" = "message" /\ Head(jobs).conn = x) + InJobs(x)'
  BY JobTaken DEF TakeMessage
<1>6. \A x \in Conn : InJobs(x)' \in Nat
  <2>1. jobs' \in Seq(Job)
    BY DEF TypeOK
  <2> QED BY <2>1, CountNat DEF InJobs
<1>7. InJobs(c) = 1 + InJobs(c)' /\ \A x \in Conn : x # c => InJobs(x)' = InJobs(x)
  <2>1. \A x \in Conn : x # c => InJobs(x) = 0 + InJobs(x)'
    BY <1>5 DEF Bit
  <2>2. InJobs(c) = 1 + InJobs(c)'
    BY <1>2, <1>5 DEF Bit
  <2>3. ASSUME NEW x \in Conn, x # c PROVE InJobs(x)' = InJobs(x)
    <3>1. InJobs(x)' \in Nat /\ InJobs(x) = 0 + InJobs(x)'
      BY <1>6, <2>1, <2>3
    <3> QED BY ONLY <3>1, SMT
  <2> QED BY <2>2, <2>3
<1>8. \A x \in Conn : InCalls(x) = Count(rest, {Dispatched(x)})
  BY <1>1 DEF InCalls
<1>9. /\ pending[c] \in Nat /\ pending[c] <= MaxPending /\ MaxPending \in Nat
      /\ Len(deferred[c]) \in Nat /\ InCalls(c) \in Nat
      /\ deferredCount \in Nat /\ deferredCount <= DeferredLimit
      /\ deferred[c] \in Seq(Nat) /\ n \in Nat
  <2>1. pending[c] <= MaxPending /\ deferredCount <= DeferredLimit
    BY <1>2 DEF CountsExact
  <2>2. n \in Nat /\ MaxPending \in Nat
    BY <1>1, JobTypes, PipelineAssumption
  <2> QED BY <1>2, <2>1, <2>2, Counted DEF InCalls, TypeOK
<1>10. ASSUME \/ Dropped(c, n, rest) \/ Handled(c, n, rest) \/ Submitted(c, n, rest)
              \/ Deferred(c, n, rest) /\ pending' = [pending EXCEPT ![c] = @ - 1],
              UNCHANGED <<deferred, deferredCount>>
       PROVE  CountsExact'
  <2>1. /\ \A x \in Conn : x # c => /\ pending'[x] = pending[x]
                                    /\ InCalls(x)' = Count(rest, {Dispatched(x)})
        /\ pending'[c] \in Nat /\ pending'[c] <= pending[c]
        /\ Count(rest, {Dispatched(c)}) \in Nat /\ InCalls(c)' \in Nat
        /\ pending'[c] + 1 + Count(rest, {Dispatched(c)}) = pending[c] + InCalls(c)'
    BY <1>2, <1>3, <1>4, <1>10, DispatchCounts, ZenonT(40)
  <2>2. pending'[c] <= MaxPending
    BY <1>9, <2>1, SMT
  <2>3. deferred' = [deferred EXCEPT ![c] = deferred[c]]
    BY <1>10 DEF TypeOK
  <2>4. pending'[c] + Len(deferred[c]) + InJobs(c) + InCalls(c)
              = pending[c] + Len(deferred[c]) + InJobs(c)' + InCalls(c)'
    <3> PICK p, q, k, m, i, h : /\ p = pending[c] /\ q = pending'[c] /\ k = Len(deferred[c])
                                /\ m = InJobs(c)' /\ i = InCalls(c) /\ h = InCalls(c)'
      OBVIOUS
    <3>1. p \in Nat /\ q \in Nat /\ k \in Nat /\ m \in Nat /\ i \in Nat /\ h \in Nat
      BY <1>2, <1>6, <1>9, <2>1
    <3>2. InJobs(c) = 1 + m /\ q + 1 + i = p + h
      BY <1>2, <1>7, <1>8, <2>1
    <3>3. q + k + (1 + m) + i = p + k + m + h
      BY ONLY <3>1, <3>2, SMT
    <3> QED BY <3>2, <3>3
  <2>5. deferredCount' <= DeferredLimit /\ deferredCount' + Len(deferred[c]) = deferredCount + Len(deferred[c])
    BY <1>9, <1>10
  <2> QED BY <1>2, <1>7, <1>8, <1>9, <2>1, <2>2, <2>3, <2>4, <2>5, CountsStep
<1>11. ASSUME pending' = pending, calls' = rest, deferredCount < DeferredLimit,
              deferredCount' = deferredCount + 1,
              deferred' = [deferred EXCEPT ![c] = Append(@, n)]
       PROVE  CountsExact'
  <2> PICK s : s = Append(deferred[c], n)
    OBVIOUS
  <2>1. s \in Seq(Nat) /\ Len(s) = Len(deferred[c]) + 1 /\ deferred' = [deferred EXCEPT ![c] = s]
    BY <1>9, <1>11, SMT
  <2>2. \A x \in Conn : InCalls(x)' = InCalls(x)
    BY <1>1, <1>11 DEF InCalls
  <2>3. pending'[c] + Len(deferred[c]) + InJobs(c) + InCalls(c)
              = pending[c] + Len(s) + InJobs(c)' + InCalls(c)'
    <3> PICK p, k, m, i : /\ p = pending[c] /\ k = Len(deferred[c]) /\ m = InJobs(c)' /\ i = InCalls(c)
      OBVIOUS
    <3>1. p \in Nat /\ k \in Nat /\ m \in Nat /\ i \in Nat
      BY <1>2, <1>6, <1>9
    <3>2. InJobs(c) = 1 + m /\ Len(s) = k + 1 /\ InCalls(c)' = i /\ pending'[c] = p
      BY <1>2, <1>7, <1>11, <2>1, <2>2
    <3>3. p + k + (1 + m) + i = p + (k + 1) + m + i
      BY ONLY <3>1, SMT
    <3> QED BY <3>2, <3>3
  <2>4. deferredCount' <= DeferredLimit /\ deferredCount' + Len(deferred[c]) = deferredCount + Len(s)
    <3> PICK e, k : e = deferredCount /\ k = Len(deferred[c])
      OBVIOUS
    <3>1. e \in Nat /\ k \in Nat /\ e < DeferredLimit /\ DeferredLimit \in Nat
      BY <1>9, <1>11, PipelineAssumption
    <3>2. e + 1 <= DeferredLimit /\ e + 1 + k = e + (k + 1)
      BY ONLY <3>1, SMT
    <3> QED BY <1>11, <2>1, <3>2
  <2>5. pending'[c] <= MaxPending /\ \A x \in Conn : x # c => pending'[x] = pending[x]
    BY <1>9, <1>11
  <2> QED BY <1>2, <1>7, <2>1, <2>2, <2>3, <2>4, <2>5, CountsStep
<1>12. DispatchMessage(c, n, rest)
  BY DEF TakeMessage
<1>13. CASE Deferred(c, n, rest)
  BY <1>10, <1>11, <1>13 DEF Deferred
<1> QED BY <1>10, <1>12, <1>13 DEF DispatchMessage, ProcessMessage

LEMMA CountsDrained ==
    ASSUME TypeOK, TypeOK', CountsExact, DrainNext
    PROVE  CountsExact'
<1> PICK c, n, s : c = Inner.conn /\ n = Head(deferred[Inner.conn]) /\ s = Tail(deferred[Inner.conn])
  OBVIOUS
<1>1. c \in Conn /\ calls \in Seq(Call)
  BY InnerCall, CallTypes DEF DrainNext
<1>2. /\ deferred[c] # <<>>
      /\ deferred' = [deferred EXCEPT ![c] = s]
      /\ deferredCount' = deferredCount - 1
      /\ Dropped(c, n, calls) \/ Handled(c, n, calls) \/ Submitted(c, n, calls)
      /\ jobs' = jobs
  BY DEF DrainNext, ProcessMessage
<1>3. pending[c] > 0 /\ deferredCount > 0
  BY <1>1, <1>2, Counted
<1>4. \A x \in Conn : InJobs(x)' = InJobs(x)
  BY <1>2 DEF InJobs
<1>5. /\ \A x \in Conn : x # c => /\ pending'[x] = pending[x] /\ InCalls(x)' = InCalls(x)
      /\ pending'[c] \in Nat /\ pending'[c] <= pending[c]
      /\ InCalls(c) \in Nat /\ InCalls(c)' \in Nat
      /\ pending'[c] + 1 + InCalls(c) = pending[c] + InCalls(c)'
  <2>1. /\ \A x \in Conn : x # c => /\ pending'[x] = pending[x]
                                    /\ InCalls(x)' = Count(calls, {Dispatched(x)})
        /\ pending'[c] \in Nat /\ pending'[c] <= pending[c]
        /\ Count(calls, {Dispatched(c)}) \in Nat /\ InCalls(c)' \in Nat
        /\ pending'[c] + 1 + Count(calls, {Dispatched(c)}) = pending[c] + InCalls(c)'
    BY <1>1, <1>2, <1>3, DispatchCounts
  <2> QED BY <2>1 DEF InCalls
<1>6. /\ pending[c] \in Nat /\ pending[c] <= MaxPending /\ MaxPending \in Nat
      /\ Len(deferred[c]) \in Nat /\ InJobs(c) \in Nat
      /\ deferredCount \in Nat /\ deferredCount <= DeferredLimit /\ DeferredLimit \in Nat
      /\ deferred[c] \in Seq(Nat)
  <2>1. pending[c] <= MaxPending /\ deferredCount <= DeferredLimit
    BY <1>1 DEF CountsExact
  <2>2. MaxPending \in Nat /\ DeferredLimit \in Nat
    BY PipelineAssumption
  <2> QED BY <1>1, <2>1, <2>2, Counted DEF InJobs, TypeOK
<1>7. s \in Seq(Nat) /\ Len(deferred[c]) = Len(s) + 1 /\ Len(s) \in Nat
  BY <1>2, <1>6, SMT
<1>8. pending'[c] <= MaxPending
  BY <1>5, <1>6, SMT
<1>9. deferredCount' <= DeferredLimit /\ deferredCount' + Len(deferred[c]) = deferredCount + Len(s)
  <2> PICK e, k : e = deferredCount /\ k = Len(s)
    OBVIOUS
  <2>1. e \in Nat /\ k \in Nat /\ e <= DeferredLimit /\ DeferredLimit \in Nat /\ e > 0
    BY <1>3, <1>6, <1>7
  <2>2. e - 1 <= DeferredLimit /\ e - 1 + (k + 1) = e + k
    BY ONLY <2>1, SMT
  <2> QED BY <1>2, <1>7, <2>2
<1>10. pending'[c] + Len(deferred[c]) + InJobs(c) + InCalls(c)
              = pending[c] + Len(s) + InJobs(c)' + InCalls(c)'
  <2> PICK p, q, k, m, i, h : /\ p = pending[c] /\ q = pending'[c] /\ k = Len(s)
                              /\ m = InJobs(c) /\ i = InCalls(c) /\ h = InCalls(c)'
    OBVIOUS
  <2>1. p \in Nat /\ q \in Nat /\ k \in Nat /\ m \in Nat /\ i \in Nat /\ h \in Nat
    BY <1>5, <1>6, <1>7
  <2>2. InJobs(c)' = m /\ Len(deferred[c]) = k + 1 /\ q + 1 + i = p + h
    BY <1>1, <1>4, <1>5, <1>7
  <2>3. q + (k + 1) + m + i = p + k + m + h
    BY ONLY <2>1, <2>2, SMT
  <2> QED BY <2>2, <2>3
<1> QED BY <1>1, <1>2, <1>4, <1>5, <1>7, <1>8, <1>9, <1>10, CountsStep

LEMMA CountsReturned ==
    ASSUME TypeOK, TypeOK', CountsExact, Return
    PROVE  CountsExact'
<1> PICK c : c = Inner.conn
  OBVIOUS
<1>1. c \in Conn /\ Inner.call = "dispatched" /\ calls # <<>> /\ calls' = Tail(calls)
  BY InnerCall, CallTypes DEF Return
<1>2. /\ deferred' = deferred /\ deferredCount' = deferredCount /\ jobs' = jobs
      /\ pending' = [pending EXCEPT ![c] = @ - 1]
  BY DEF Return
<1>3. pending[c] > 0
  BY <1>1, Counted
<1>4. \A x \in Conn : InJobs(x)' = InJobs(x)
  BY <1>2 DEF InJobs
<1>5. \A x \in Conn : InCalls(x) = Bit(Inner.call = "dispatched" /\ Inner.conn = x) + InCalls(x)'
  BY <1>1, CallsPopped DEF InCalls
<1>6. \A x \in Conn : InCalls(x)' \in Nat
  <2>1. calls' \in Seq(Call)
    BY DEF TypeOK
  <2> QED BY <2>1, CountNat DEF InCalls
<1>7. InCalls(c) = 1 + InCalls(c)'
  BY <1>1, <1>5 DEF Bit
<1>8. ASSUME NEW x \in Conn, x # c PROVE pending'[x] = pending[x] /\ InCalls(x)' = InCalls(x)
  <2>1. InCalls(x) = 0 + InCalls(x)' /\ InCalls(x)' \in Nat
    BY <1>5, <1>6, <1>8 DEF Bit
  <2>2. InCalls(x)' = InCalls(x)
    BY ONLY <2>1, SMT
  <2> QED BY <1>2, <1>8, <2>2 DEF TypeOK
<1>9. /\ pending[c] \in Nat /\ pending[c] <= MaxPending /\ MaxPending \in Nat
      /\ Len(deferred[c]) \in Nat /\ InJobs(c) \in Nat /\ deferredCount <= DeferredLimit
      /\ deferred[c] \in Seq(Nat)
  <2>1. pending[c] <= MaxPending /\ deferredCount <= DeferredLimit
    BY <1>1 DEF CountsExact
  <2>2. MaxPending \in Nat
    BY PipelineAssumption
  <2> QED BY <1>1, <2>1, <2>2, Counted DEF InJobs, TypeOK
<1>10. pending'[c] = pending[c] - 1
  BY <1>1, <1>2 DEF TypeOK
<1>11. pending'[c] <= MaxPending
  BY <1>9, <1>10, SMT
<1>12. pending'[c] + Len(deferred[c]) + InJobs(c) + InCalls(c)
          = pending[c] + Len(deferred[c]) + InJobs(c)' + InCalls(c)'
  <2> PICK p, k, m, h : p = pending[c] /\ k = Len(deferred[c]) /\ m = InJobs(c) /\ h = InCalls(c)'
    OBVIOUS
  <2>1. p \in Nat /\ k \in Nat /\ m \in Nat /\ h \in Nat
    BY <1>1, <1>6, <1>9
  <2>2. p - 1 + k + m + (1 + h) = p + k + m + h
    BY ONLY <2>1, SMT
  <2> QED BY <1>1, <1>4, <1>7, <1>10, <2>2
<1>13. deferred' = [deferred EXCEPT ![c] = deferred[c]]
  BY <1>2 DEF TypeOK
<1>14. deferredCount' <= DeferredLimit /\ deferredCount' + Len(deferred[c]) = deferredCount + Len(deferred[c])
  BY <1>2, <1>9
<1> QED BY <1>1, <1>4, <1>8, <1>9, <1>11, <1>12, <1>13, <1>14, CountsStep

LEMMA JobTakenQuiet ==
    ASSUME TypeOK, TypeOK', NEW kind, Takes(kind), kind # "message"
    PROVE  \A x \in Conn : InJobs(x)' = InJobs(x)
<1> TAKE x \in Conn
<1>1. InJobs(x) = 0 + InJobs(x)'
  BY JobTaken DEF Bit
<1>2. jobs' \in Seq(Job)
  BY DEF TypeOK
<1>3. InJobs(x)' \in Nat
  BY <1>2, CountNat DEF InJobs
<1> QED BY ONLY <1>1, <1>3, SMT

LEMMA CallPoppedQuiet ==
    ASSUME TypeOK, calls # <<>>, Inner.call # "dispatched"
    PROVE  \A x \in Conn : Count(Tail(calls), {Dispatched(x)}) = InCalls(x)
<1> TAKE x \in Conn
<1>1. InCalls(x) = 0 + Count(Tail(calls), {Dispatched(x)})
  BY CallsPopped DEF Bit
<1>2. calls \in Seq(Call)
  BY DEF TypeOK
<1>3. Count(Tail(calls), {Dispatched(x)}) \in Nat
  BY <1>2, SeqTail, CountNat
<1> QED BY ONLY <1>1, <1>3, SMT

LEMMA NextCounts == TypeOK /\ TypeOK' /\ CountsExact /\ [Next]_vars => CountsExact'
<1> SUFFICES ASSUME TypeOK, TypeOK', CountsExact, [Next]_vars PROVE CountsExact'
  OBVIOUS
<1>0. jobs \in Seq(Job) /\ calls \in Seq(Call) /\ <<>> \in Seq(Call)
  BY SMT DEF TypeOK
<1>a. ASSUME pending' = pending, deferred' = deferred, deferredCount' = deferredCount, calls' = calls,
             \A x \in Conn : InJobs(x)' = InJobs(x)
      PROVE  CountsExact'
  BY <1>a, CountsFrame DEF InCalls
<1>b. ASSUME pending' = pending, deferred' = deferred, deferredCount' = deferredCount, jobs' = jobs,
             \A x \in Conn : InCalls(x)' = InCalls(x)
      PROVE  CountsExact'
  BY <1>b, CountsFrame DEF InJobs
<1>c. ASSUME pending' = pending, deferred' = deferred, deferredCount' = deferredCount, jobs' = jobs,
             calls # <<>>, Inner.call # "dispatched", calls' = Tail(calls)
      PROVE  CountsExact'
  <2>1. \A x \in Conn : InCalls(x)' = InCalls(x)
    BY <1>c, CallPoppedQuiet DEF InCalls
  <2> QED BY <1>b, <1>c, <2>1
<1>d. \A x \in Conn : Count(<<>>, {Dispatched(x)}) = 0
  BY CountEmpty
<1>1. ASSUME NEW c \in Conn, OnMessage(c) PROVE CountsExact'
  <2>1. CASE pending[c] < MaxPending /\ HasRoom
    BY <1>1, <2>1, CountsAccepted
  <2>2. CASE ~(pending[c] < MaxPending /\ HasRoom)
    <3>1. Closed({c}, jobs) /\ pending' = pending
      BY <1>1, <2>2 DEF OnMessage
    <3>2. \A x \in Conn : InJobs(x)' = InJobs(x)
      BY <3>1, JobsClosed
    <3> QED BY <1>1, <1>a, <3>1, <3>2 DEF OnMessage
  <2> QED BY <2>1, <2>2
<1>2. ASSUME NEW c \in Conn, CloseConnection(c) PROVE CountsExact'
  <2>1. \A x \in Conn : InJobs(x)' = InJobs(x)
    BY <1>2, JobsClosed DEF CloseConnection
  <2> QED BY <1>2, <1>a, <2>1 DEF CloseConnection, app
<1>3. ASSUME PumpTimer PROVE CountsExact'
  <2>1. [kind |-> "pump"] \in Job /\ [kind |-> "pump"].kind # "message"
    BY JobTypes
  <2>2. \A x \in Conn : InJobs(x)' = InJobs(x)
    BY <1>3, <2>1, JobQueued DEF PumpTimer
  <2> QED BY <1>3, <1>a, <2>2 DEF PumpTimer, app
<1>4. ASSUME RunPost PROVE CountsExact'
  <2>1. \A x \in Conn : InJobs(x)' = InJobs(x)
    <3>1. CASE jobs' = jobs
      BY <3>1 DEF InJobs
    <3>2. CASE Closed(shed, jobs)
      <4>1. shed \in SUBSET Conn
        BY DEF TypeOK
      <4> QED BY <3>2, <4>1, JobsClosed
    <3> QED BY <1>4, <3>1, <3>2 DEF RunPost
  <2> QED BY <1>4, <1>a, <2>1 DEF RunPost
<1>5. ASSUME TakeHashed PROVE CountsExact'
  <2>1. \A x \in Conn : InJobs(x)' = InJobs(x)
    BY <1>5, JobTakenQuiet DEF TakeHashed
  <2>2. PICK c : c \in Conn /\ c = Head(jobs).conn /\ calls = <<>>
    BY <1>5, HeadJob, JobTypes DEF TakeHashed
  <2>3. calls' = <<Drain(c)>> \o <<Prune>>
    BY <1>5, <2>2 DEF TakeHashed, Finish
  <2>4. Drain(c) \in Call /\ Drain(c).call # "dispatched" /\ Prune \in Call /\ Prune.call # "dispatched"
    BY <2>2, CallTypes DEF Drain, Prune
  <2>5. <<Prune>> \in Seq(Call) /\ <<Prune>> = <<Prune>> \o <<>>
    BY <2>4, SMT
  <2>6. \A x \in Conn : Count(<<Prune>>, {Dispatched(x)}) = Count(<<>>, {Dispatched(x)})
    BY <1>0, <2>4, <2>5, CallsQuiet, ZenonT(40)
  <2>7. \A x \in Conn : Count(<<Drain(c)>> \o <<Prune>>, {Dispatched(x)}) = Count(<<Prune>>, {Dispatched(x)})
    BY <2>4, <2>5, CallsQuiet
  <2>8. \A x \in Conn : InCalls(x)' = InCalls(x)
    BY <2>2, <2>3, <2>6, <2>7 DEF InCalls
  <2> QED BY <1>5, <2>1, <2>8, CountsFrame DEF TakeHashed
<1>6. ASSUME TakePump PROVE CountsExact'
  <2>1. \A x \in Conn : InJobs(x)' = InJobs(x)
    BY <1>6, JobTakenQuiet DEF TakePump
  <2> PICK k : k = [call |-> "pumped"]
    OBVIOUS
  <2>2. k \in Call /\ k.call # "dispatched" /\ Prune \in Call /\ Prune.call # "dispatched"
    BY CallTypes DEF Prune
  <2>3. calls = <<>> /\ calls' = <<Prune, k>>
    BY <1>6, HeadJob DEF TakePump
  <2>4. <<k>> \in Seq(Call) /\ <<k>> = <<k>> \o <<>> /\ <<Prune, k>> = <<Prune>> \o <<k>>
    BY <2>2, SMT
  <2>5. \A x \in Conn : Count(<<k>>, {Dispatched(x)}) = Count(<<>>, {Dispatched(x)})
    BY <1>0, <2>2, <2>4, CallsQuiet, ZenonT(40)
  <2>6. \A x \in Conn : Count(<<Prune>> \o <<k>>, {Dispatched(x)}) = Count(<<k>>, {Dispatched(x)})
    BY <2>2, <2>4, CallsQuiet
  <2>7. \A x \in Conn : InCalls(x)' = InCalls(x)
    BY <2>3, <2>4, <2>5, <2>6 DEF InCalls
  <2> QED BY <1>6, <2>1, <2>7, CountsFrame DEF TakePump, app
<1>7. ASSUME DrainEnd PROVE CountsExact'
  <2>1. calls # <<>> /\ Inner.call # "dispatched" /\ calls' = Tail(calls)
    BY <1>7, InnerCall DEF DrainEnd
  <2> QED BY <1>7, <1>c, <2>1 DEF DrainEnd, app
<1>8. ASSUME PumpScan PROVE CountsExact'
  <2>1. calls # <<>> /\ Inner.call # "dispatched" /\ calls' = Tail(calls)
    BY <1>8, InnerCall DEF PumpScan
  <2> QED BY <1>8, <1>c, <2>1 DEF PumpScan, app
<1>9. ASSUME Pumped PROVE CountsExact'
  <2>1. calls # <<>> /\ Inner.call # "dispatched" /\ calls' = Tail(calls)
    BY <1>9, InnerCall DEF Pumped
  <2> QED BY <1>9, <1>c, <2>1 DEF Pumped, app
<1>10. ASSUME NEW expired \in SUBSET Conn, PumpPrune(expired) PROVE CountsExact'
  <2> PICK k, rest : k = [call |-> "pump", expired |-> expired] /\ rest = Tail(calls)
    OBVIOUS
  <2>1. k \in Call /\ k.call # "dispatched"
    BY CallTypes
  <2>2. calls # <<>> /\ Inner.call # "dispatched" /\ rest \in Seq(Call)
    BY <1>10, InnerCall DEF PumpPrune
  <2>3. calls' = <<k>> \o rest
    BY <1>10 DEF PumpPrune
  <2>4. \A x \in Conn : Count(<<k>> \o rest, {Dispatched(x)}) = Count(rest, {Dispatched(x)})
    BY <2>1, <2>2, CallsQuiet
  <2>5. \A x \in Conn : Count(rest, {Dispatched(x)}) = InCalls(x)
    BY <2>2, CallPoppedQuiet
  <2>6. \A x \in Conn : InCalls(x)' = InCalls(x)
    BY <2>3, <2>4, <2>5 DEF InCalls
  <2> QED BY <1>10, <1>b, <2>6 DEF PumpPrune, app
<1>11. ASSUME NEW c \in Conn, PumpExpire(c) PROVE CountsExact'
  <2> PICK k, rest : k = [Inner EXCEPT !.expired = @ \ {c}] /\ rest = Tail(calls)
    OBVIOUS
  <2>1. /\ Inner.call = "pump" /\ Inner.expired \in SUBSET Conn /\ calls # <<>> /\ rest \in Seq(Call)
        /\ Inner = [call |-> "pump", expired |-> Inner.expired]
    BY <1>11, InnerCall, CallTypes DEF PumpExpire
  <2>2. k = [call |-> "pump", expired |-> Inner.expired \ {c}]
    BY <2>1
  <2>3. k \in Call /\ k.call # "dispatched"
    BY <2>1, <2>2, CallTypes
  <2>4. Drain(c) \in Call /\ Drain(c).call # "dispatched"
    BY CallTypes DEF Drain
  <2>5. calls' = <<Drain(c)>> \o (<<k>> \o rest)
    BY <1>11 DEF PumpExpire, Finish
  <2>6. <<k>> \o rest \in Seq(Call)
    BY <2>1, <2>3, SeqPush
  <2>7. \A x \in Conn : Count(<<Drain(c)>> \o (<<k>> \o rest), {Dispatched(x)})
                           = Count(<<k>> \o rest, {Dispatched(x)})
    BY <2>4, <2>6, CallsQuiet
  <2>8. \A x \in Conn : Count(<<k>> \o rest, {Dispatched(x)}) = Count(rest, {Dispatched(x)})
    BY <2>1, <2>3, CallsQuiet
  <2>9. \A x \in Conn : Count(rest, {Dispatched(x)}) = InCalls(x)
    BY <2>1, CallPoppedQuiet
  <2>10. \A x \in Conn : InCalls(x)' = InCalls(x)
    BY <2>5, <2>7, <2>8, <2>9 DEF InCalls
  <2> QED BY <1>11, <1>b, <2>10 DEF PumpExpire
<1>12. ASSUME NEW w \in Worker, HashTake(w) PROVE CountsExact'
  BY <1>12, <1>a DEF HashTake, app, InJobs
<1>13. ASSUME NEW w \in Worker, HashPost(w) PROVE CountsExact'
  <2>1. PICK c \in hashing[w] : jobs' = Append(jobs, HashedJob(c, w))
    BY <1>13 DEF HashPost, HashedJob
  <2>2. HashedJob(c, w) \in Job
    BY JobTypes DEF TypeOK
  <2>3. HashedJob(c, w).kind # "message"
    BY DEF HashedJob
  <2>4. \A x \in Conn : InJobs(x)' = InJobs(x)
    BY <2>1, <2>2, <2>3, JobQueued
  <2> QED BY <1>13, <1>a, <2>4 DEF HashPost, app
<1>14. CASE UNCHANGED vars
  BY <1>14, <1>a DEF vars, app, InJobs
<1> QED BY <1>1, <1>2, <1>3, <1>4, <1>5, <1>6, <1>7, <1>8, <1>9, <1>10, <1>11, <1>12, <1>13, <1>14,
           CountsDispatched, CountsCleanup, CountsDrained, CountsReturned
        DEF Next, TakeJob, CallStep, HashStep

-----------------------------------------------------------------------------
(* One request of each connection. *)
LEMMA PumpTail ==
    ASSUME NEW s \in Seq(Call), s # <<>>, OnePump(s)
    PROVE  /\ OnePump(Tail(s)) /\ Expiring(Tail(s)) \subseteq Expiring(s)
           /\ Head(s).call \in PumpCall => NoPump(Tail(s))
           /\ Head(s).call = "pump" => Head(s).expired \cap Conn \subseteq Expiring(s)
<1>1. /\ Head(s) = s[1] /\ 1 \in DOMAIN s
      /\ \A n \in DOMAIN Tail(s) : n \in Nat /\ n # 0 /\ n + 1 \in DOMAIN s /\ Tail(s)[n] = s[n + 1]
  BY SeqTail, SMT
<1>2. OnePump(Tail(s))
  <2> SUFFICES ASSUME NEW m \in DOMAIN Tail(s), NEW n \in DOMAIN Tail(s),
                      Tail(s)[m].call = "pump", Tail(s)[n].call \in PumpCall
               PROVE  m <= n
    BY DEF OnePump
  <2>1. m + 1 <= n + 1
    BY <1>1 DEF OnePump
  <2>2. m \in Nat /\ n \in Nat
    BY <1>1
  <2> QED BY ONLY <2>1, <2>2, SMT
<1>3. Expiring(Tail(s)) \subseteq Expiring(s)
  BY <1>1 DEF Expiring
<1>4. ASSUME Head(s).call \in PumpCall, NEW n \in DOMAIN Tail(s), Tail(s)[n].call = "pump"
      PROVE  FALSE
  <2>1. n + 1 <= 1 /\ n \in Nat /\ n # 0
    BY <1>1, <1>4 DEF OnePump
  <2> QED BY ONLY <2>1, SMT
<1>5. Head(s).call = "pump" => Head(s).expired \cap Conn \subseteq Expiring(s)
  BY <1>1 DEF Expiring
<1>6. Head(s).call \in PumpCall => NoPump(Tail(s))
  BY <1>4 DEF NoPump
<1> QED BY <1>2, <1>3, <1>5, <1>6

LEMMA PumpPush ==
    ASSUME NEW s \in Seq(Call), NEW k \in Call
    PROVE  /\ k.call \notin PumpCall /\ OnePump(s) => OnePump(<<k>> \o s)
           /\ NoPump(s) => OnePump(<<k>> \o s)
           /\ k.call # "pump" /\ NoPump(s) => NoPump(<<k>> \o s)
           /\ k.call # "pump" => Expiring(<<k>> \o s) = Expiring(s)
           /\ k.call = "pump" /\ NoPump(s) => Expiring(<<k>> \o s) = k.expired \cap Conn
<1> PICK t : t = <<k>> \o s
  OBVIOUS
<1>1. \A n \in DOMAIN t : n \in Nat /\ 1 <= n /\ (n = 1 \/ (n - 1 \in DOMAIN s /\ t[n] = s[n - 1]))
  BY SMT
<1>2. 1 \in DOMAIN t /\ t[1] = k /\ \A n \in DOMAIN s : n + 1 \in DOMAIN t /\ t[n + 1] = s[n]
  BY SMT
<1>3. ASSUME OnePump(s), k.call \notin PumpCall,
             NEW m \in DOMAIN t, NEW n \in DOMAIN t, t[m].call = "pump", t[n].call \in PumpCall
      PROVE  m <= n
  <2>1. m # 1 /\ n # 1
    BY <1>2, <1>3 DEF PumpCall
  <2>2. /\ m - 1 \in DOMAIN s /\ t[m] = s[m - 1] /\ m \in Nat
        /\ n - 1 \in DOMAIN s /\ t[n] = s[n - 1] /\ n \in Nat
    BY <1>1, <2>1
  <2>3. m - 1 <= n - 1
    BY <1>3, <2>2 DEF OnePump
  <2> QED BY ONLY <2>2, <2>3, SMT
<1>4. ASSUME NoPump(s), NEW m \in DOMAIN t, NEW n \in DOMAIN t, t[m].call = "pump"
      PROVE  m <= n
  <2>1. m = 1
    BY <1>1, <1>4 DEF NoPump
  <2> QED BY <1>1, <2>1
<1>5. k.call \notin PumpCall /\ OnePump(s) => OnePump(t)
  BY <1>3 DEF OnePump
<1>6. NoPump(s) => OnePump(t)
  BY <1>4 DEF OnePump
<1>7. k.call # "pump" /\ NoPump(s) => NoPump(t)
  <2> SUFFICES ASSUME k.call # "pump", NoPump(s), NEW n \in DOMAIN t PROVE t[n].call # "pump"
    BY DEF NoPump
  <2>1. n = 1 \/ (n - 1 \in DOMAIN s /\ t[n] = s[n - 1])
    BY <1>1
  <2> QED BY <1>2, <2>1 DEF NoPump
<1>8. k.call # "pump" => Expiring(t) = Expiring(s)
  BY <1>1, <1>2, ZenonT(40) DEF Expiring
<1>9. k.call = "pump" /\ NoPump(s) => Expiring(t) = k.expired \cap Conn
  <2> SUFFICES ASSUME k.call = "pump", NoPump(s) PROVE Expiring(t) = k.expired \cap Conn
    OBVIOUS
  <2>1. \A n \in DOMAIN t : t[n].call = "pump" <=> n = 1
    BY <1>1, <1>2 DEF NoPump
  <2> QED BY <1>2, <2>1 DEF Expiring
<1> QED BY <1>5, <1>6, <1>7, <1>8, <1>9

LEMMA NothingExpires == ASSUME NEW s, NoPump(s) PROVE Expiring(s) = {}
  BY DEF NoPump, Expiring

LEMMA EmptyStack == NoPump(<<>>) /\ OnePump(<<>>) /\ Expiring(<<>>) = {}
<1>1. DOMAIN <<>> = {}
  BY SMT
<1> QED BY <1>1 DEF NoPump, OnePump, Expiring

LEMMA RequestsFrame ==
    ASSUME OneRequest, credential' = credential, waiting' \subseteq waiting, slot' = slot,
           OnePump(calls'), Expiring(calls') \subseteq Expiring(calls)
    PROVE  OneRequest'
  BY DEF OneRequest

LEMMA RequestsPopped ==
    ASSUME TypeOK, OneRequest, calls # <<>>, calls' = Tail(calls),
           credential' = credential, waiting' = waiting, slot' = slot
    PROVE  OneRequest'
<1>1. calls \in Seq(Call) /\ OnePump(calls)
  BY DEF TypeOK, OneRequest
<1>2. OnePump(Tail(calls)) /\ Expiring(Tail(calls)) \subseteq Expiring(calls)
  BY <1>1, PumpTail
<1> QED BY <1>2, RequestsFrame

LEMMA RequestsSubmitted ==
    ASSUME TypeOK, OneRequest, NEW c \in Conn, NEW n, ~credential[c], Submitted(c, n, calls), slot' = slot
    PROVE  OneRequest'
<1>1. /\ waiting' = waiting \cup {c} /\ credential' = [credential EXCEPT ![c] = TRUE]
      /\ IF Pumping THEN calls' = calls ELSE calls' = <<Prune, Dispatched(c)>> \o calls
  BY DEF Submitted
<1>2. calls \in Seq(Call) /\ OnePump(calls)
  BY DEF TypeOK, OneRequest
<1>3. OnePump(calls') /\ Expiring(calls') = Expiring(calls)
  <2>1. CASE Pumping
    BY <1>1, <1>2, <2>1
  <2>2. CASE ~Pumping
    <3>1. NoPump(calls)
      BY <1>2, <2>2, SMT DEF Pumping, NoPump, PumpCall
    <3>2. /\ Prune \in Call /\ Prune.call = "prune"
          /\ Dispatched(c) \in Call /\ Dispatched(c).call = "dispatched"
      BY CallTypes DEF Prune, Dispatched
    <3> PICK s : s = <<Dispatched(c)>> \o calls
      OBVIOUS
    <3>3. NoPump(s) /\ Expiring(s) = Expiring(calls) /\ s \in Seq(Call)
      BY <1>2, <3>1, <3>2, PumpPush, SeqPush DEF PumpCall
    <3>4. OnePump(<<Prune>> \o s) /\ Expiring(<<Prune>> \o s) = Expiring(s)
      BY <3>2, <3>3, PumpPush
    <3>5. calls' = <<Prune>> \o s
      BY <1>1, <1>2, <2>2, <3>2, SMT
    <3> QED BY <3>3, <3>4, <3>5
  <2> QED BY <2>1, <2>2
<1>4. /\ \A w \in Worker : c \notin slot[w]
      /\ c \notin Expiring(calls)
  BY DEF OneRequest
<1>5. credential'[c] /\ \A x \in Conn : x # c => credential'[x] = credential[x]
  BY <1>1 DEF TypeOK
<1>6. waiting \subseteq Conn /\ \A w \in Worker : slot[w] \subseteq Conn
  BY DEF TypeOK
<1> QED BY <1>1, <1>3, <1>4, <1>5, <1>6 DEF OneRequest, Expiring

LEMMA RequestsDispatched ==
    ASSUME TypeOK, OneRequest, NEW c \in Conn, NEW n, slot' = slot,
           \/ Dropped(c, n, calls) \/ Deferred(c, n, calls) \/ ProcessMessage(c, n, calls)
    PROVE  OneRequest'
<1>1. OnePump(calls)
  BY DEF OneRequest
<1>2. CASE calls' = calls /\ credential' = credential /\ waiting' = waiting
  BY <1>1, <1>2, RequestsFrame
<1>3. CASE ~credential[c] /\ Submitted(c, n, calls)
  BY <1>3, RequestsSubmitted
<1> QED BY <1>2, <1>3 DEF Dropped, Deferred, ProcessMessage, Handled

LEMMA RequestsFinished ==
    ASSUME TypeOK, OneRequest, NEW c \in Conn,
           credential' = [credential EXCEPT ![c] = FALSE], waiting' = waiting, c \notin waiting,
           \A w \in Worker : slot'[w] \subseteq slot[w] \ {c},
           OnePump(calls'), Expiring(calls') \subseteq Expiring(calls) \ {c}
    PROVE  OneRequest'
<1>1. \A x \in Conn : x # c => credential'[x] = credential[x]
  BY DEF TypeOK
<1>2. waiting \subseteq Conn /\ \A w \in Worker : slot[w] \subseteq Conn
  BY DEF TypeOK
<1>3. \A x \in waiting' : credential'[x]
  BY <1>1, <1>2 DEF OneRequest
<1>4. \A w \in Worker : \A x \in slot'[w] : credential'[x] /\ x \notin waiting'
  BY <1>1, <1>2 DEF OneRequest
<1>5. \A v, w \in Worker : v # w => slot'[v] \cap slot'[w] = {}
  BY DEF OneRequest
<1>6. \A x \in Expiring(calls') : x \in Conn
  BY DEF Expiring
<1>7. \A x \in Expiring(calls') : /\ credential'[x] /\ x \notin waiting'
                                  /\ \A w \in Worker : x \notin slot'[w]
  BY <1>1, <1>6 DEF OneRequest
<1> QED BY <1>3, <1>4, <1>5, <1>7 DEF OneRequest

(* A completion is of the request of its worker, which nothing else holds. *)
LEMMA HeadHashed ==
    ASSUME TypeOK, NEW w \in Worker, WorkerHolds(w), NEW c \in Conn, jobs # <<>>, Head(jobs) = HashedJob(c, w)
    PROVE  /\ c \in slot[w] /\ c \notin inbox[w] /\ c \notin hashing[w]
           /\ Count(Tail(jobs), {HashedJob(c, w)}) = 0
<1>1. jobs \in Seq(Job)
  BY DEF TypeOK
<1>2. Count(jobs, {HashedJob(c, w)}) = 1 + Count(Tail(jobs), {HashedJob(c, w)})
  BY <1>1, CountTail DEF Bit
<1>3. Count(Tail(jobs), {HashedJob(c, w)}) \in Nat
  BY <1>1, SeqTail, CountNat
<1>4. Bit(c \in inbox[w]) + Bit(c \in hashing[w]) + Count(jobs, {HashedJob(c, w)}) = Bit(c \in slot[w])
  BY DEF WorkerHolds
<1> PICK i, h, k, s : /\ i = Bit(c \in inbox[w]) /\ h = Bit(c \in hashing[w])
                      /\ k = Count(Tail(jobs), {HashedJob(c, w)}) /\ s = Bit(c \in slot[w])
  OBVIOUS
<1>5. i \in {0, 1} /\ h \in {0, 1} /\ s \in {0, 1} /\ k \in Nat /\ i + h + (1 + k) = s
  BY <1>2, <1>3, <1>4 DEF Bit
<1>6. i = 0 /\ h = 0 /\ k = 0 /\ s = 1
  BY ONLY <1>5, SMT
<1>7. 0 # 1
  OBVIOUS
<1> QED BY <1>6, <1>7 DEF Bit

LEMMA NextRequests ==
    TypeOK /\ TypeOK' /\ OneRequest /\ (\A w \in Worker : WorkerHolds(w)) /\ [Next]_vars => OneRequest'
<1> SUFFICES ASSUME TypeOK, TypeOK', OneRequest, \A w \in Worker : WorkerHolds(w), [Next]_vars
             PROVE  OneRequest'
  OBVIOUS
<1>0. calls \in Seq(Call) /\ OnePump(calls) /\ <<>> \in Seq(Call)
  BY SMT DEF TypeOK, OneRequest
<1>a. ASSUME credential' = credential, waiting' = waiting, slot' = slot, calls' = calls PROVE OneRequest'
  BY <1>0, <1>a, RequestsFrame
<1>1. ASSUME NEW c \in Conn, OnMessage(c) \/ CloseConnection(c) PROVE OneRequest'
  BY <1>1, <1>a DEF OnMessage, CloseConnection, app, queue
<1>2. ASSUME PumpTimer PROVE OneRequest'
  BY <1>2, <1>a DEF PumpTimer, app, queue
<1>3. ASSUME RunPost PROVE OneRequest'
  BY <1>3, <1>a DEF RunPost, queue
<1>4. ASSUME TakeMessage PROVE OneRequest'
  <2> PICK c, n : c = Head(jobs).conn /\ n = Head(jobs).number
    OBVIOUS
  <2>1. c \in Conn /\ calls = <<>>
    BY <1>4, HeadJob, JobTypes DEF TakeMessage
  <2>2. DispatchMessage(c, n, calls) /\ slot' = slot
    BY <1>4, <2>1 DEF TakeMessage
  <2> QED BY <2>1, <2>2, RequestsDispatched DEF DispatchMessage
<1>5. ASSUME Cleanup PROVE OneRequest'
  BY <1>0, <1>5, RequestsFrame DEF Cleanup, Cancel
<1>6. ASSUME TakeHashed PROVE OneRequest'
  <2> PICK c, w : c = Head(jobs).conn /\ w = Head(jobs).worker
    OBVIOUS
  <2>1. Head(jobs) \in Job /\ Head(jobs).kind = "hashed" /\ jobs # <<>> /\ calls = <<>>
    BY <1>6, HeadJob DEF TakeHashed
  <2>2. c \in Conn /\ w \in Worker /\ Head(jobs) = HashedJob(c, w)
    BY <2>1, JobTypes
  <2>3. c \in slot[w]
    BY <2>1, <2>2, HeadHashed
  <2>4. c \notin waiting /\ \A v \in Worker : v # w => c \notin slot[v]
    BY <2>2, <2>3 DEF OneRequest
  <2>5. /\ credential' = [credential EXCEPT ![c] = FALSE] /\ waiting' = waiting
        /\ slot' = [slot EXCEPT ![w] = {}] /\ calls' = <<Drain(c)>> \o <<Prune>>
    BY <1>6 DEF TakeHashed, Finish
  <2>6. /\ Drain(c) \in Call /\ Drain(c).call = "drain" /\ Prune \in Call /\ Prune.call = "prune"
        /\ <<Prune>> = <<Prune>> \o <<>>
    BY <2>2, CallTypes, SMT DEF Drain, Prune
  <2> PICK t : t = <<Prune>>
    OBVIOUS
  <2>7. OnePump(t) /\ Expiring(t) = {}
    <3> PICK k, u : k = Prune /\ u = <<>>
      OBVIOUS
    <3>1. k \in Call /\ k.call # "pump" /\ u \in Seq(Call) /\ t = <<k>> \o u
      BY <1>0, <2>6
    <3>2. NoPump(u) /\ Expiring(u) = {}
      BY EmptyStack
    <3>3. NoPump(u) => OnePump(<<k>> \o u)
      BY <3>1, PumpPush
    <3>4. Expiring(<<k>> \o u) = Expiring(u)
      BY <3>1, PumpPush
    <3> QED BY <3>1, <3>2, <3>3, <3>4
  <2>8. t \in Seq(Call) /\ "drain" \notin PumpCall
    BY <2>6, SMT DEF PumpCall
  <2>9. OnePump(<<Drain(c)>> \o t) /\ Expiring(<<Drain(c)>> \o t) = {}
    BY <2>6, <2>7, <2>8, PumpPush
  <2>10. \A v \in Worker : slot'[v] \subseteq slot[v] \ {c}
    <3>1. slot'[w] = {} /\ \A v \in Worker : v # w => slot'[v] = slot[v]
      BY <2>2, <2>5 DEF TypeOK
    <3> QED BY <2>4, <3>1
  <2> QED BY <2>2, <2>4, <2>5, <2>9, <2>10, RequestsFinished
<1>7. ASSUME TakePump PROVE OneRequest'
  <2> PICK k, t : k = [call |-> "pumped"] /\ t = <<k>>
    OBVIOUS
  <2>1. /\ calls = <<>> /\ calls' = <<Prune>> \o t /\ t = <<k>> \o <<>>
        /\ k \in Call /\ k.call = "pumped" /\ Prune \in Call /\ Prune.call = "prune" /\ t \in Seq(Call)
    <3>1. calls = <<>> /\ calls' = <<Prune, k>>
      BY <1>7, HeadJob DEF TakePump
    <3>2. k \in Call /\ k.call = "pumped" /\ Prune \in Call /\ Prune.call = "prune"
      BY CallTypes DEF Prune
    <3>3. <<Prune, k>> = <<Prune>> \o <<k>> /\ <<k>> = <<k>> \o <<>> /\ <<k>> \in Seq(Call)
      BY <3>2, SMT
    <3> QED BY <3>1, <3>2, <3>3
  <2>2. NoPump(t) /\ Expiring(t) = {}
    <3>1. k.call \notin PumpCall /\ k.call # "pump"
      BY <2>1 DEF PumpCall
    <3>2. NoPump(<<k>> \o <<>>) /\ Expiring(<<k>> \o <<>>) = Expiring(<<>>)
      BY <1>0, <2>1, <3>1, EmptyStack, PumpPush
    <3> QED BY <2>1, <3>2, EmptyStack
  <2>3. OnePump(calls') /\ Expiring(calls') = {}
    BY <2>1, <2>2, PumpPush
  <2> QED BY <1>7, <2>3, RequestsFrame DEF TakePump, app, queue
<1>8. ASSUME DrainNext PROVE OneRequest'
  <2> PICK c, n : c = Inner.conn /\ n = Head(deferred[Inner.conn])
    OBVIOUS
  <2>1. c \in Conn
    BY <1>8, InnerCall, CallTypes DEF DrainNext
  <2>2. (Dropped(c, n, calls) \/ ProcessMessage(c, n, calls)) /\ slot' = slot
    BY <1>8 DEF DrainNext
  <2> QED BY <2>1, <2>2, RequestsDispatched
<1>9. ASSUME DrainEnd \/ Return \/ Pumped PROVE OneRequest'
  <2>1. calls # <<>> /\ calls' = Tail(calls)
    BY <1>9 DEF DrainEnd, Return, Pumped, In
  <2> QED BY <1>9, <2>1, RequestsPopped DEF DrainEnd, Return, Pumped, app, queue
<1>10. ASSUME NEW expired \in SUBSET Conn, PumpPrune(expired) PROVE OneRequest'
  <2> PICK k, rest : k = [call |-> "pump", expired |-> expired] /\ rest = Tail(calls)
    OBVIOUS
  <2>1. calls # <<>> /\ Inner.call = "prune" /\ rest \in Seq(Call) /\ k \in Call /\ k.call = "pump"
    BY <1>10, InnerCall, CallTypes DEF PumpPrune
  <2>2. NoPump(rest)
    BY <1>0, <2>1, PumpTail DEF Inner, PumpCall
  <2>3. OnePump(<<k>> \o rest) /\ Expiring(<<k>> \o rest) = k.expired \cap Conn
    BY <2>1, <2>2, PumpPush
  <2>4. /\ calls' = <<k>> \o rest /\ k.expired = expired
        /\ expired \subseteq {c \in waiting : alive[c]}
        /\ waiting' = {c \in waiting : alive[c]} \ expired
        /\ credential' = credential /\ slot' = slot
    BY <1>10 DEF PumpPrune, app
  <2> QED BY <2>3, <2>4 DEF OneRequest
<1>11. ASSUME NEW c \in Conn, PumpExpire(c) PROVE OneRequest'
  <2> PICK k, rest, s : /\ k = [Inner EXCEPT !.expired = @ \ {c}] /\ rest = Tail(calls)
                        /\ s = <<k>> \o rest
    OBVIOUS
  <2>1. /\ Inner.call = "pump" /\ Inner.expired \in SUBSET Conn /\ calls # <<>> /\ rest \in Seq(Call)
        /\ Inner = [call |-> "pump", expired |-> Inner.expired] /\ c \in Inner.expired
    BY <1>11, InnerCall, CallTypes DEF PumpExpire
  <2>2. k = [call |-> "pump", expired |-> Inner.expired \ {c}]
    BY <2>1
  <2>3. k \in Call /\ k.call = "pump" /\ k.expired = Inner.expired \ {c}
    BY <2>1, <2>2, CallTypes
  <2>4. NoPump(rest) /\ Inner.expired \cap Conn \subseteq Expiring(calls)
    BY <1>0, <2>1, PumpTail DEF Inner, PumpCall
  <2>5. OnePump(s) /\ Expiring(s) = k.expired \cap Conn /\ s \in Seq(Call)
    BY <2>1, <2>3, <2>4, PumpPush, SeqPush
  <2>6. Drain(c) \in Call /\ Drain(c).call = "drain" /\ "drain" \notin PumpCall
    BY CallTypes DEF Drain, PumpCall
  <2>7. OnePump(<<Drain(c)>> \o s) /\ Expiring(<<Drain(c)>> \o s) = Expiring(s)
    BY <2>5, <2>6, PumpPush
  <2>8. /\ calls' = <<Drain(c)>> \o s /\ credential' = [credential EXCEPT ![c] = FALSE]
        /\ waiting' = waiting /\ slot' = slot
    BY <1>11 DEF PumpExpire, Finish, queue
  <2>9. c \in Expiring(calls)
    BY <2>1, <2>4
  <2>10. c \notin waiting /\ \A w \in Worker : c \notin slot[w]
    BY <2>9 DEF OneRequest
  <2>11. Expiring(calls') \subseteq Expiring(calls) \ {c}
    BY <2>3, <2>4, <2>5, <2>7, <2>8
  <2> QED BY <2>7, <2>8, <2>10, <2>11, RequestsFinished
<1>12. ASSUME PumpScan PROVE OneRequest'
  <2> DEFINE idle == {w \in Worker : slot[w] = {}}
             One  == {{}} \cup {{c} : c \in waiting}
  <2>1. PICK start \in [idle -> One] :
           /\ \A v, w \in idle : v # w => start[v] \cap start[w] = {}
           /\ slot' = [w \in Worker |-> IF w \in idle THEN start[w] ELSE slot[w]]
           /\ waiting' = waiting \ UNION {start[w] : w \in idle}
    BY <1>12 DEF PumpScan
  <2>2. calls # <<>> /\ Inner.call = "pump" /\ calls' = Tail(calls) /\ credential' = credential
    BY <1>12, InnerCall DEF PumpScan, app
  <2>3. OnePump(calls') /\ Expiring(calls') = {}
    BY <1>0, <2>2, PumpTail, NothingExpires DEF Inner, PumpCall
  <2>4. \A w \in idle : start[w] \subseteq waiting
    OBVIOUS
  <2>5. \A w \in idle : slot'[w] = start[w]
    BY <2>1
  <2>6. \A w \in Worker : w \notin idle => slot'[w] = slot[w]
    BY <2>1
  <2>7. waiting' \subseteq waiting /\ \A w \in idle : start[w] \cap waiting' = {}
    BY <2>1
  <2>8. \A w \in Worker : slot[w] \cap waiting = {} /\ \A c \in slot[w] : credential[c]
    BY DEF OneRequest
  <2>9. \A c \in waiting : credential[c]
    BY DEF OneRequest
  <2>10. ASSUME NEW v \in Worker, NEW w \in Worker, v # w PROVE slot'[v] \cap slot'[w] = {}
    <3>1. CASE v \in idle /\ w \in idle
      BY <2>1, <2>5, <2>10, <3>1
    <3>2. CASE v \in idle /\ w \notin idle
      <4>1. slot'[v] \subseteq waiting /\ slot'[w] = slot[w]
        BY <2>4, <2>5, <2>6, <3>2
      <4> QED BY <2>8, <4>1
    <3>3. CASE v \notin idle /\ w \in idle
      <4>1. slot'[w] \subseteq waiting /\ slot'[v] = slot[v]
        BY <2>4, <2>5, <2>6, <3>3
      <4> QED BY <2>8, <4>1
    <3>4. CASE v \notin idle /\ w \notin idle
      BY <2>6, <2>10, <3>4 DEF OneRequest
    <3> QED BY <3>1, <3>2, <3>3, <3>4
  <2>11. ASSUME NEW w \in Worker, NEW c \in slot'[w] PROVE credential'[c] /\ c \notin waiting'
    <3>1. CASE w \in idle
      BY <2>2, <2>4, <2>5, <2>7, <2>9, <2>11, <3>1
    <3>2. CASE w \notin idle
      BY <2>2, <2>6, <2>7, <2>8, <2>11, <3>2
    <3> QED BY <3>1, <3>2
  <2>12. \A c \in waiting' : credential'[c]
    BY <2>2, <2>7, <2>9
  <2> QED BY <2>3, <2>10, <2>11, <2>12 DEF OneRequest
<1>13. ASSUME NEW w \in Worker, HashStep(w) PROVE OneRequest'
  BY <1>13, <1>a DEF HashStep, HashTake, HashPost, app, queue
<1>14. CASE UNCHANGED vars
  BY <1>14, <1>a DEF vars, app, queue
<1> QED BY <1>1, <1>2, <1>3, <1>4, <1>5, <1>6, <1>7, <1>8, <1>9, <1>10, <1>11, <1>12, <1>13, <1>14
        DEF Next, TakeJob, CallStep

-----------------------------------------------------------------------------
(* The request of a busy worker. *)
InHashed(c, w) == Count(jobs, {HashedJob(c, w)})

LEMMA WorkersFrame ==
    ASSUME \A w \in Worker : WorkerHolds(w), slot' = slot, inbox' = inbox, hashing' = hashing,
           \A c \in Conn, w \in Worker : InHashed(c, w)' = InHashed(c, w)
    PROVE  \A w \in Worker : WorkerHolds(w)'
  BY DEF WorkerHolds, InHashed

LEMMA HashedNat ==
    ASSUME TypeOK
    PROVE  \A c \in Conn, w \in Worker : InHashed(c, w) \in Nat
<1>1. jobs \in Seq(Job)
  BY DEF TypeOK
<1> QED BY <1>1, CountNat DEF InHashed

LEMMA HashedNatNext ==
    ASSUME TypeOK'
    PROVE  \A c \in Conn, w \in Worker : InHashed(c, w)' \in Nat
<1>1. jobs' \in Seq(Job)
  BY DEF TypeOK
<1> QED BY <1>1, CountNat DEF InHashed

LEMMA HashedTaken ==
    ASSUME TypeOK, TypeOK', NEW kind, Takes(kind)
    PROVE  \A c \in Conn, w \in Worker : InHashed(c, w) = Bit(Head(jobs) = HashedJob(c, w)) + InHashed(c, w)'
<1> TAKE c \in Conn, w \in Worker
<1>1. jobs \in Seq(Job) /\ jobs # <<>> /\ jobs' = Tail(jobs)
  BY HeadJob
<1>2. InHashed(c, w) = Bit(Head(jobs) \in {HashedJob(c, w)}) + Count(Tail(jobs), {HashedJob(c, w)})
  BY <1>1, CountTail DEF InHashed
<1>3. Head(jobs) \in {HashedJob(c, w)} <=> Head(jobs) = HashedJob(c, w)
  OBVIOUS
<1> QED BY <1>1, <1>2, <1>3 DEF InHashed, Bit

LEMMA HashedTakenQuiet ==
    ASSUME TypeOK, TypeOK', NEW kind, Takes(kind), kind # "hashed"
    PROVE  \A c \in Conn, w \in Worker : InHashed(c, w)' = InHashed(c, w)
<1> TAKE c \in Conn, w \in Worker
<1>1. Head(jobs) # HashedJob(c, w)
  BY HeadJob DEF HashedJob
<1>2. InHashed(c, w) = 0 + InHashed(c, w)'
  BY <1>1, HashedTaken DEF Bit
<1>3. InHashed(c, w)' \in Nat
  BY HashedNatNext
<1> QED BY ONLY <1>2, <1>3, SMT

LEMMA HashedQueued ==
    ASSUME TypeOK, NEW j \in Job, jobs' = Append(jobs, j)
    PROVE  \A c \in Conn, w \in Worker : InHashed(c, w)' = InHashed(c, w) + Bit(j = HashedJob(c, w))
<1> TAKE c \in Conn, w \in Worker
<1>1. jobs \in Seq(Job)
  BY DEF TypeOK
<1>2. Count(Append(jobs, j), {HashedJob(c, w)}) = InHashed(c, w) + Bit(j \in {HashedJob(c, w)})
  BY <1>1, CountAppend DEF InHashed
<1> QED BY <1>2 DEF Bit, InHashed

LEMMA HashedQueuedQuiet ==
    ASSUME TypeOK, NEW j \in Job, j.kind # "hashed", jobs' = Append(jobs, j)
    PROVE  \A c \in Conn, w \in Worker : InHashed(c, w)' = InHashed(c, w)
<1> TAKE c \in Conn, w \in Worker
<1>1. j # HashedJob(c, w)
  BY DEF HashedJob
<1>2. InHashed(c, w)' = InHashed(c, w) + 0
  BY <1>1, HashedQueued DEF Bit
<1>3. InHashed(c, w) \in Nat
  BY HashedNat
<1> QED BY ONLY <1>2, <1>3, SMT

LEMMA HashedClosed ==
    ASSUME TypeOK, NEW cs \in SUBSET Conn, Closed(cs, jobs)
    PROVE  \A c \in Conn, w \in Worker : InHashed(c, w)' = InHashed(c, w)
<1> TAKE c \in Conn, w \in Worker
<1>1. PICK order \in Seq(Job) : jobs' = jobs \o order /\ \A n \in DOMAIN order : order[n].kind = "cleanup"
  BY ClosedEffect
<1>2. \A n \in DOMAIN order : order[n] \notin {HashedJob(c, w)}
  BY <1>1 DEF HashedJob
<1>3. jobs \in Seq(Job)
  BY DEF TypeOK
<1> QED BY <1>1, <1>2, <1>3, CountConcat DEF InHashed

LEMMA WorkersHashed ==
    ASSUME TypeOK, TypeOK', OneRequest, \A w \in Worker : WorkerHolds(w), TakeHashed
    PROVE  \A w \in Worker : WorkerHolds(w)'
<1> PICK c, w : c = Head(jobs).conn /\ w = Head(jobs).worker
  OBVIOUS
<1>1. Head(jobs) \in Job /\ Head(jobs).kind = "hashed" /\ jobs # <<>> /\ jobs' = Tail(jobs)
  BY HeadJob DEF TakeHashed
<1>2. c \in Conn /\ w \in Worker /\ Head(jobs) = HashedJob(c, w)
  BY <1>1, JobTypes
<1>3. /\ c \in slot[w] /\ c \notin inbox[w] /\ c \notin hashing[w]
      /\ InHashed(c, w)' = 0
  BY <1>1, <1>2, HeadHashed DEF InHashed
<1>4. slot'[w] = {} /\ (\A v \in Worker : v # w => slot'[v] = slot[v]) /\ inbox' = inbox /\ hashing' = hashing
  BY <1>2 DEF TakeHashed, TypeOK
<1>5. \A x \in Conn, v \in Worker : InHashed(x, v) = Bit(Head(jobs) = HashedJob(x, v)) + InHashed(x, v)'
  BY HashedTaken DEF TakeHashed
<1>6. \A x \in Conn, v \in Worker : x # c \/ v # w => InHashed(x, v)' = InHashed(x, v)
  <2> SUFFICES ASSUME NEW x \in Conn, NEW v \in Worker, x # c \/ v # w PROVE InHashed(x, v)' = InHashed(x, v)
    OBVIOUS
  <2>1. Head(jobs) # HashedJob(x, v)
    <3>1. HashedJob(c, w).conn = c /\ HashedJob(c, w).worker = w
          /\ HashedJob(x, v).conn = x /\ HashedJob(x, v).worker = v
      BY DEF HashedJob
    <3> QED BY <1>2, <3>1
  <2>2. InHashed(x, v) = 0 + InHashed(x, v)' /\ InHashed(x, v)' \in Nat
    BY <1>5, <2>1, HashedNatNext DEF Bit
  <2> QED BY ONLY <2>2, SMT
<1>7. ASSUME NEW v \in Worker PROVE WorkerHolds(v)'
  <2>1. CASE v # w
    BY <1>4, <1>6, <2>1 DEF WorkerHolds, InHashed
  <2>2. CASE v = w
    <3>1. ASSUME NEW x \in Conn PROVE x \notin inbox[w] /\ x \notin hashing[w] /\ InHashed(x, w)' = 0
      <4>1. CASE x = c
        BY <1>3, <4>1
      <4>2. CASE x # c
        <5>1. x \notin slot[w]
          BY <1>2, <1>3, <4>2 DEF WorkerHolds
        <5>2. Bit(x \in inbox[w]) + Bit(x \in hashing[w]) + InHashed(x, w) = 0
          BY <1>2, <5>1 DEF WorkerHolds, Bit, InHashed
        <5>3. /\ Bit(x \in inbox[w]) \in {0, 1} /\ Bit(x \in hashing[w]) \in {0, 1}
              /\ InHashed(x, w) \in Nat
          BY <1>2, HashedNat DEF Bit
        <5>4. Bit(x \in inbox[w]) = 0 /\ Bit(x \in hashing[w]) = 0 /\ InHashed(x, w) = 0
          BY ONLY <5>2, <5>3, SMT
        <5>5. 0 # 1
          OBVIOUS
        <5> QED BY <1>2, <1>6, <4>2, <5>4, <5>5 DEF Bit
      <4> QED BY <4>1, <4>2
    <3>2. ASSUME NEW x \in Conn
          PROVE  Bit(x \in inbox'[w]) + Bit(x \in hashing'[w]) + InHashed(x, w)' = Bit(x \in slot'[w])
      <4>1. Bit(x \in inbox'[w]) = 0 /\ Bit(x \in hashing'[w]) = 0 /\ Bit(x \in slot'[w]) = 0
        BY <1>4, <3>1 DEF Bit
      <4> QED BY <3>1, <4>1
    <3> QED BY <1>4, <2>2, <3>2 DEF WorkerHolds, InHashed
  <2> QED BY <2>1, <2>2
<1> QED BY <1>7

LEMMA WorkersScanned ==
    ASSUME TypeOK, TypeOK', \A w \in Worker : WorkerHolds(w), PumpScan
    PROVE  \A w \in Worker : WorkerHolds(w)'
<1> DEFINE idle == {w \in Worker : slot[w] = {}}
           One  == {{}} \cup {{c} : c \in waiting}
<1>1. PICK start \in [idle -> One] :
         /\ slot' = [w \in Worker |-> IF w \in idle THEN start[w] ELSE slot[w]]
         /\ inbox' = [w \in Worker |-> IF w \in idle THEN inbox[w] \cup start[w] ELSE inbox[w]]
  BY DEF PumpScan
<1>2. hashing' = hashing /\ jobs' = jobs
  BY DEF PumpScan
<1>3. \A x \in Conn, v \in Worker : InHashed(x, v)' = InHashed(x, v)
  BY <1>2 DEF InHashed
<1>4. ASSUME NEW w \in Worker PROVE WorkerHolds(w)'
  <2>1. CASE w \notin idle
    <3>1. slot'[w] = slot[w] /\ inbox'[w] = inbox[w]
      BY <1>1, <2>1
    <3> QED BY <1>2, <1>3, <3>1 DEF WorkerHolds, InHashed
  <2>2. CASE w \in idle
    <3>1. slot'[w] = start[w] /\ inbox'[w] = inbox[w] \cup start[w] /\ slot[w] = {} /\ start[w] \in One
      BY <1>1, <2>2
    <3>2. \A c, d \in slot'[w] : c = d
      BY <3>1
    <3>3. ASSUME NEW x \in Conn
          PROVE  Bit(x \in inbox'[w]) + Bit(x \in hashing'[w]) + InHashed(x, w)' = Bit(x \in slot'[w])
      <4>1. Bit(x \in inbox[w]) + Bit(x \in hashing[w]) + InHashed(x, w) = 0
        BY <3>1 DEF WorkerHolds, Bit, InHashed
      <4>2. /\ Bit(x \in inbox[w]) \in {0, 1} /\ Bit(x \in hashing[w]) \in {0, 1}
            /\ InHashed(x, w) \in Nat
        BY HashedNat DEF Bit
      <4>3. Bit(x \in inbox[w]) = 0 /\ Bit(x \in hashing[w]) = 0 /\ InHashed(x, w) = 0
        BY ONLY <4>1, <4>2, SMT
      <4>4. 0 # 1
        OBVIOUS
      <4>5. x \in inbox'[w] <=> x \in slot'[w]
        BY <3>1, <4>3, <4>4 DEF Bit
      <4>6. Bit(x \in inbox'[w]) = Bit(x \in slot'[w]) /\ Bit(x \in slot'[w]) \in {0, 1}
        BY <4>5 DEF Bit
      <4>7. Bit(x \in hashing'[w]) = 0 /\ InHashed(x, w)' = 0
        BY <1>2, <1>3, <4>3
      <4> QED BY ONLY <4>6, <4>7, SMT
    <3> QED BY <3>2, <3>3 DEF WorkerHolds, InHashed
  <2> QED BY <2>1, <2>2
<1> QED BY <1>4

(* A connection in the inbox or the thread of a worker is its only request. *)
LEMMA WorkerFull ==
    ASSUME TypeOK, NEW w \in Worker, WorkerHolds(w), NEW c \in inbox[w] \cup hashing[w]
    PROVE  /\ c \in slot[w] /\ \A x \in Conn : x # c =>
                 x \notin inbox[w] /\ x \notin hashing[w] /\ InHashed(x, w) = 0
           /\ InHashed(c, w) = 0 /\ ~(c \in inbox[w] /\ c \in hashing[w])
<1>1. c \in Conn
  BY DEF TypeOK
<1>2. \A x \in Conn : /\ Bit(x \in inbox[w]) + Bit(x \in hashing[w]) + InHashed(x, w) = Bit(x \in slot[w])
                      /\ Bit(x \in inbox[w]) \in {0, 1} /\ Bit(x \in hashing[w]) \in {0, 1}
                      /\ InHashed(x, w) \in Nat /\ Bit(x \in slot[w]) \in {0, 1}
  BY HashedNat DEF WorkerHolds, Bit, InHashed
<1>3. 0 # 1
  OBVIOUS
<1>4. c \in slot[w] /\ InHashed(c, w) = 0 /\ ~(c \in inbox[w] /\ c \in hashing[w])
  <2> PICK i, h, k, s : /\ i = Bit(c \in inbox[w]) /\ h = Bit(c \in hashing[w])
                        /\ k = InHashed(c, w) /\ s = Bit(c \in slot[w])
    OBVIOUS
  <2>1. i = 1 \/ h = 1
    BY DEF Bit
  <2>2. i + h + k = s /\ i \in {0, 1} /\ h \in {0, 1} /\ k \in Nat /\ s \in {0, 1}
    BY <1>1, <1>2
  <2>3. s = 1 /\ k = 0 /\ (i = 0 \/ h = 0)
    BY ONLY <2>1, <2>2, SMT
  <2> QED BY <1>3, <2>3 DEF Bit
<1>5. ASSUME NEW x \in Conn, x # c
      PROVE  x \notin inbox[w] /\ x \notin hashing[w] /\ InHashed(x, w) = 0
  <2>1. x \notin slot[w]
    BY <1>4, <1>5 DEF WorkerHolds
  <2> PICK i, h, k : i = Bit(x \in inbox[w]) /\ h = Bit(x \in hashing[w]) /\ k = InHashed(x, w)
    OBVIOUS
  <2>2. i + h + k = 0 /\ i \in {0, 1} /\ h \in {0, 1} /\ k \in Nat
    BY <1>2, <2>1 DEF Bit
  <2>3. i = 0 /\ h = 0 /\ k = 0
    BY ONLY <2>2, SMT
  <2> QED BY <1>3, <2>3 DEF Bit
<1> QED BY <1>4, <1>5

LEMMA NextWorkers ==
    TypeOK /\ TypeOK' /\ OneRequest /\ (\A w \in Worker : WorkerHolds(w)) /\ [Next]_vars
        => \A w \in Worker : WorkerHolds(w)'
<1> DEFINE Goal == \A w \in Worker : WorkerHolds(w)'
<1> SUFFICES ASSUME TypeOK, TypeOK', OneRequest, \A w \in Worker : WorkerHolds(w), [Next]_vars
             PROVE  Goal
  OBVIOUS
<1>a. ASSUME slot' = slot, inbox' = inbox, hashing' = hashing, jobs' = jobs PROVE Goal
  BY <1>a, WorkersFrame DEF InHashed
<1>b. ASSUME slot' = slot, inbox' = inbox, hashing' = hashing,
             \A c \in Conn, w \in Worker : InHashed(c, w)' = InHashed(c, w)
      PROVE  Goal
  BY <1>b, WorkersFrame
<1> HIDE DEF Goal
<1>1. ASSUME NEW c \in Conn, OnMessage(c) PROVE Goal
  <2>1. \A x \in Conn, w \in Worker : InHashed(x, w)' = InHashed(x, w)
    <3>1. CASE pending[c] < MaxPending /\ HasRoom
      <4> PICK j : j = [kind |-> "message", conn |-> c, number |-> received'[c]]
        OBVIOUS
      <4>1. j \in Job /\ j.kind # "hashed"
        BY JobTypes DEF TypeOK
      <4>2. jobs' = Append(jobs, j)
        BY <1>1, <3>1 DEF OnMessage
      <4> QED BY <4>1, <4>2, HashedQueuedQuiet
    <3>2. CASE ~(pending[c] < MaxPending /\ HasRoom)
      <4>1. Closed({c}, jobs)
        BY <1>1, <3>2 DEF OnMessage
      <4> QED BY <4>1, HashedClosed
    <3> QED BY <3>1, <3>2
  <2> QED BY <1>1, <1>b, <2>1 DEF OnMessage, queue
<1>2. ASSUME NEW c \in Conn, CloseConnection(c) PROVE Goal
  <2>1. \A x \in Conn, w \in Worker : InHashed(x, w)' = InHashed(x, w)
    BY <1>2, HashedClosed DEF CloseConnection
  <2> QED BY <1>2, <1>b, <2>1 DEF CloseConnection, queue
<1>3. ASSUME PumpTimer PROVE Goal
  <2>1. [kind |-> "pump"] \in Job /\ [kind |-> "pump"].kind # "hashed"
    BY JobTypes
  <2>2. \A x \in Conn, w \in Worker : InHashed(x, w)' = InHashed(x, w)
    BY <1>3, <2>1, HashedQueuedQuiet DEF PumpTimer
  <2> QED BY <1>3, <1>b, <2>2 DEF PumpTimer, queue
<1>4. ASSUME RunPost PROVE Goal
  <2>1. CASE jobs' = jobs
    BY <1>4, <1>a, <2>1 DEF RunPost, queue
  <2>2. CASE Closed(shed, jobs)
    <3>1. shed \in SUBSET Conn
      BY DEF TypeOK
    <3>2. \A x \in Conn, w \in Worker : InHashed(x, w)' = InHashed(x, w)
      BY <2>2, <3>1, HashedClosed
    <3> QED BY <1>4, <1>b, <3>2 DEF RunPost, queue
  <2> QED BY <1>4, <2>1, <2>2 DEF RunPost
<1>5. ASSUME TakeMessage PROVE Goal
  <2>1. \A x \in Conn, w \in Worker : InHashed(x, w)' = InHashed(x, w)
    BY <1>5, HashedTakenQuiet DEF TakeMessage
  <2> QED BY <1>5, <1>b, <2>1 DEF TakeMessage
<1>6. ASSUME Cleanup PROVE Goal
  <2>1. \A x \in Conn, w \in Worker : InHashed(x, w)' = InHashed(x, w)
    BY <1>6, HashedTakenQuiet DEF Cleanup
  <2> QED BY <1>6, <1>b, <2>1 DEF Cleanup, Cancel
<1>7. ASSUME TakePump PROVE Goal
  <2>1. \A x \in Conn, w \in Worker : InHashed(x, w)' = InHashed(x, w)
    BY <1>7, HashedTakenQuiet DEF TakePump
  <2> QED BY <1>7, <1>b, <2>1 DEF TakePump, queue
<1>8. ASSUME TakeHashed PROVE Goal
  BY <1>8, WorkersHashed DEF Goal
<1>9. ASSUME DrainNext \/ DrainEnd \/ Return \/ Pumped PROVE Goal
  BY <1>9, <1>a DEF DrainNext, DrainEnd, Return, Pumped, queue
<1>10. ASSUME NEW expired \in SUBSET Conn, PumpPrune(expired) PROVE Goal
  BY <1>10, <1>a DEF PumpPrune
<1>11. ASSUME NEW c \in Conn, PumpExpire(c) PROVE Goal
  BY <1>11, <1>a DEF PumpExpire, queue
<1>12. ASSUME PumpScan PROVE Goal
  BY <1>12, WorkersScanned DEF Goal
<1>13. ASSUME NEW w \in Worker, HashTake(w) PROVE Goal
  <2>1. PICK c \in inbox[w] : /\ hashing' = [hashing EXCEPT ![w] = {c}]
                              /\ inbox' = [inbox EXCEPT ![w] = @ \ {c}]
    BY <1>13 DEF HashTake
  <2>2. hashing[w] = {} /\ jobs' = jobs /\ slot' = slot
    BY <1>13 DEF HashTake
  <2>3. \A x \in Conn, v \in Worker : InHashed(x, v)' = InHashed(x, v)
    BY <2>2 DEF InHashed
  <2>4. /\ inbox'[w] = inbox[w] \ {c} /\ hashing'[w] = {c}
        /\ \A v \in Worker : v # w => inbox'[v] = inbox[v] /\ hashing'[v] = hashing[v]
    BY <2>1 DEF TypeOK
  <2>5. ASSUME NEW x \in Conn
        PROVE  Bit(x \in inbox'[w]) + Bit(x \in hashing'[w]) + InHashed(x, w)' = Bit(x \in slot'[w])
    <3>1. Bit(x \in inbox[w]) + Bit(x \in hashing[w]) + InHashed(x, w) = Bit(x \in slot[w])
      BY DEF WorkerHolds, InHashed
    <3>2. CASE x = c
      <4>1. Bit(x \in inbox[w]) = 1 /\ Bit(x \in hashing[w]) = 0
        BY <2>2, <3>2 DEF Bit
      <4>2. Bit(x \in inbox'[w]) = 0 /\ Bit(x \in hashing'[w]) = 1
        BY <2>4, <3>2 DEF Bit
      <4>3. 1 + 0 + InHashed(x, w) = 0 + 1 + InHashed(x, w)
        <5> PICK k : k = InHashed(x, w)
          OBVIOUS
        <5>1. k \in Nat
          BY HashedNat
        <5>2. 1 + 0 + k = 0 + 1 + k
          BY ONLY <5>1, SMT
        <5> QED BY <5>2
      <4> QED BY <2>2, <2>3, <3>1, <4>1, <4>2, <4>3
    <3>3. CASE x # c
      <4>1. (x \in inbox'[w] <=> x \in inbox[w]) /\ (x \in hashing'[w] <=> x \in hashing[w])
        BY <2>2, <2>4, <3>3
      <4>2. Bit(x \in inbox'[w]) = Bit(x \in inbox[w]) /\ Bit(x \in hashing'[w]) = Bit(x \in hashing[w])
        BY <4>1 DEF Bit
      <4> QED BY <2>2, <2>3, <3>1, <4>2
    <3> QED BY <3>2, <3>3
  <2>6. WorkerHolds(w)'
    BY <2>2, <2>5 DEF WorkerHolds, InHashed
  <2>7. \A v \in Worker : v # w => WorkerHolds(v)'
    BY <2>2, <2>3, <2>4 DEF WorkerHolds, InHashed
  <2> QED BY <2>6, <2>7 DEF Goal
<1>14. ASSUME NEW w \in Worker, HashPost(w) PROVE Goal
  <2>1. PICK c \in hashing[w] : jobs' = Append(jobs, HashedJob(c, w))
    BY <1>14 DEF HashPost, HashedJob
  <2>2. /\ c \in Conn /\ slot' = slot /\ inbox' = inbox /\ hashing'[w] = {}
        /\ \A v \in Worker : v # w => hashing'[v] = hashing[v]
    BY <1>14 DEF HashPost, queue, TypeOK
  <2>3. HashedJob(c, w) \in Job
    BY <2>2, JobTypes
  <2>4. \A x \in Conn, v \in Worker : InHashed(x, v)' = InHashed(x, v) + Bit(HashedJob(c, w) = HashedJob(x, v))
    BY <2>1, <2>3, HashedQueued
  <2>5. \A x \in Conn, v \in Worker : x # c \/ v # w => InHashed(x, v)' = InHashed(x, v)
    <3> SUFFICES ASSUME NEW x \in Conn, NEW v \in Worker, x # c \/ v # w
                 PROVE  InHashed(x, v)' = InHashed(x, v)
      OBVIOUS
    <3>1. HashedJob(c, w) # HashedJob(x, v)
      <4>1. HashedJob(c, w).conn = c /\ HashedJob(c, w).worker = w
            /\ HashedJob(x, v).conn = x /\ HashedJob(x, v).worker = v
        BY DEF HashedJob
      <4> QED BY <4>1
    <3>2. InHashed(x, v)' = InHashed(x, v) + 0 /\ InHashed(x, v) \in Nat
      BY <2>4, <3>1, HashedNat DEF Bit
    <3> QED BY ONLY <3>2, SMT
  <2>6. InHashed(c, w)' = InHashed(c, w) + 1
    BY <2>2, <2>4 DEF Bit
  <2>7. c \in slot[w] /\ InHashed(c, w) = 0 /\ c \notin inbox[w]
        /\ \A x \in Conn : x # c => x \notin inbox[w] /\ x \notin hashing[w] /\ InHashed(x, w) = 0
    BY <2>1, WorkerFull
  <2>8. ASSUME NEW x \in Conn
        PROVE  Bit(x \in inbox'[w]) + Bit(x \in hashing'[w]) + InHashed(x, w)' = Bit(x \in slot'[w])
    <3>1. CASE x = c
      <4>1. Bit(x \in inbox'[w]) = 0 /\ Bit(x \in hashing'[w]) = 0 /\ Bit(x \in slot'[w]) = 1
        BY <2>2, <2>7, <3>1 DEF Bit
      <4>2. InHashed(x, w)' = 0 + 1
        BY <2>6, <2>7, <3>1
      <4> QED BY ONLY <4>1, <4>2, SMT
    <3>2. CASE x # c
      <4>1. x \notin hashing'[w] /\ x \notin hashing[w] /\ InHashed(x, w)' = InHashed(x, w)
        BY <2>2, <2>5, <2>7, <3>2
      <4>2. Bit(x \in hashing'[w]) = Bit(x \in hashing[w])
        BY <4>1 DEF Bit
      <4>3. Bit(x \in inbox[w]) + Bit(x \in hashing[w]) + InHashed(x, w) = Bit(x \in slot[w])
        BY DEF WorkerHolds, InHashed
      <4> QED BY <2>2, <4>1, <4>2, <4>3
    <3> QED BY <3>1, <3>2
  <2>9. WorkerHolds(w)'
    BY <2>2, <2>8 DEF WorkerHolds, InHashed
  <2>10. \A v \in Worker : v # w => WorkerHolds(v)'
    BY <2>2, <2>5 DEF WorkerHolds, InHashed
  <2> QED BY <2>9, <2>10 DEF Goal
<1>15. ASSUME UNCHANGED vars PROVE Goal
  BY <1>15, <1>a DEF vars, queue
<1> QED BY <1>1, <1>2, <1>3, <1>4, <1>5, <1>6, <1>7, <1>8, <1>9, <1>10, <1>11, <1>12, <1>13, <1>14,
           <1>15 DEF Next, TakeJob, CallStep, HashStep

-----------------------------------------------------------------------------
(* The deadlines and the callbacks that reset them. *)
Ordered(posts, x) == ResetsOrdered(posts, x, deadline[x], credential[x])

LEMMA SheddingQuiet ==
    ASSUME NEW posts \in Seq(Post), NEW x, NEW d, NEW busy, ResetsOrdered(posts, x, d, busy)
    PROVE  /\ ResetsOrdered(Shedding(posts), x, d, busy)
           /\ LoginsFollowed(posts, x) => LoginsFollowed(Shedding(posts), x)
<1> PICK p : p = [kind |-> "shed"]
  OBVIOUS
<1>1. p \in Post /\ ~(p.kind = "reset" /\ p.conn = x) /\ p # HashedLogin(x)
  <2>1. p \in Post /\ p.kind = "shed"
    BY PostTypes
  <2>2. HashedLogin(x).kind = "login"
    BY DEF HashedLogin
  <2> QED BY <2>1, <2>2
<1>2. /\ ResetsOrdered(Append(posts, p), x, d, busy)
      /\ LoginsFollowed(posts, x) => LoginsFollowed(Append(posts, p), x)
  BY <1>1, QuietPost
<1> QED BY <1>2, SheddingPosts

LEMMA DeadlinesFinished ==
    ASSUME TypeOK, NEW c \in Conn, credential[c], NEW posted \in Seq(Post),
           \A x \in Conn : Ordered(posted, x), \A x \in Conn : x # c => LoginsFollowed(posted, x),
           NEW rest, Finish(c, posted, rest), deadline' = deadline
    PROVE  DeadlinesOrdered'
<1> PICK p, d : p = [kind |-> "reset", conn |-> c, deadline |-> deadline[c]] /\ d = deadline[c]
  OBVIOUS
<1>1. d \in Nat /\ net' = Append(posted, p) /\ credential' = [credential EXCEPT ![c] = FALSE]
  BY DEF TypeOK, Finish
<1>2. credential'[c] = FALSE /\ \A x \in Conn : x # c => credential'[x] = credential[x]
  BY <1>1 DEF TypeOK
<1>3. p \in Post
  BY <1>1, PostTypes
<1>4. ResetsOrdered(posted, c, d, credential[c])
  BY DEF Ordered
<1>5. ResetsOrdered(posted, c, d, TRUE)
  BY <1>4 DEF ResetsOrdered
<1>6. ResetsOrdered(Append(posted, p), c, d, FALSE) /\ LoginsFollowed(Append(posted, p), c)
  BY <1>1, <1>5, FinishPost
<1>7. ASSUME NEW x \in Conn, x # c
      PROVE  ResetsOrdered(Append(posted, p), x, deadline[x], credential[x])
             /\ LoginsFollowed(Append(posted, p), x)
  <2>1. p.kind = "reset" /\ p.conn = c
    OBVIOUS
  <2>2. HashedLogin(x).kind = "login"
    BY DEF HashedLogin
  <2>3. ~(p.kind = "reset" /\ p.conn = x) /\ p # HashedLogin(x)
    BY <1>7, <2>1, <2>2
  <2>4. ResetsOrdered(posted, x, deadline[x], credential[x]) /\ LoginsFollowed(posted, x)
    BY <1>7 DEF Ordered
  <2> QED BY <1>3, <2>3, <2>4, QuietPost
<1>8. \A x \in Conn : ResetsOrdered(net', x, deadline'[x], credential'[x]) /\ LoginsFollowed(net', x)
  <2> TAKE x \in Conn
  <2>1. CASE x = c
    BY <1>1, <1>2, <1>6, <2>1
  <2>2. CASE x # c
    BY <1>1, <1>2, <1>7, <2>2
  <2> QED BY <2>1, <2>2
<1> QED BY <1>8 DEF DeadlinesOrdered

(* What a successful login posts; only a hashed one is awaited by its reset. *)
LEMMA AnswerQuiet ==
    ASSUME TypeOK, DeadlinesOrdered, NEW c \in Conn, NEW hashed \in BOOLEAN, NEW a \in Answers(c, hashed)
    PROVE  /\ \A x \in Conn : Ordered(a.net, x)
           /\ \A x \in Conn : (hashed => x # c) => LoginsFollowed(a.net, x)
<1>1. net \in Seq(Post)
  BY DEF TypeOK
<1>2. \A x \in Conn : ResetsOrdered(net, x, deadline[x], credential[x]) /\ LoginsFollowed(net, x)
  BY DEF DeadlinesOrdered
<1>3. CASE a.net = Append(net, [kind |-> "login", conn |-> c, hashed |-> hashed])
  <2> PICK p : p = [kind |-> "login", conn |-> c, hashed |-> hashed]
    OBVIOUS
  <2>1. p \in Post /\ p.kind = "login" /\ p.conn = c /\ p.hashed = hashed /\ a.net = Append(net, p)
    BY <1>3, PostTypes
  <2>2. \A x \in Conn : (hashed => x # c) => p # HashedLogin(x)
    <3>1. \A x \in Conn : HashedLogin(x).conn = x /\ HashedLogin(x).hashed = TRUE
      BY DEF HashedLogin
    <3> QED BY <2>1, <3>1
  <2>3. \A x \in Conn : ResetsOrdered(a.net, x, deadline[x], credential[x])
    BY <1>1, <1>2, <2>1, QuietPost
  <2>4. \A x \in Conn : (hashed => x # c) => LoginsFollowed(a.net, x)
    <3> SUFFICES ASSUME NEW x \in Conn, hashed => x # c PROVE LoginsFollowed(a.net, x)
      OBVIOUS
    <3>1. p # HashedLogin(x) /\ LoginsFollowed(net, x) /\ ~(p.kind = "reset" /\ p.conn = x)
      BY <1>2, <2>1, <2>2
    <3>2. ResetsOrdered(net, x, deadline[x], credential[x])
      BY <1>2
    <3> QED BY <1>1, <2>1, <3>1, <3>2, QuietPost
  <2> QED BY <2>3, <2>4 DEF Ordered
<1>4. CASE a.net = Shedding(net)
  BY <1>1, <1>2, <1>4, SheddingQuiet DEF Ordered
<1> QED BY <1>3, <1>4 DEF Answers

LEMMA DeadlinesSubmitted ==
    ASSUME TypeOK, DeadlinesOrdered, NEW c \in Conn, NEW n, NEW rest, ~credential[c], Submitted(c, n, rest)
    PROVE  DeadlinesOrdered'
<1>1. PICK ms \in Millis : deadline' = [deadline EXCEPT ![c] = NextDeadline(c, ms)]
  BY DEF Submitted
<1> PICK d, e : d = deadline[c] /\ e = NextDeadline(c, ms)
  OBVIOUS
<1>2. d \in Nat /\ e \in Nat /\ d < e /\ net \in Seq(Post)
  BY NextDeadlineLater DEF TypeOK
<1>3. /\ deadline'[c] = e /\ credential'[c] = TRUE /\ net' = net
      /\ \A x \in Conn : x # c => deadline'[x] = deadline[x] /\ credential'[x] = credential[x]
  BY <1>1 DEF Submitted, TypeOK
<1>4. ResetsOrdered(net, c, d, credential[c]) /\ credential[c] = FALSE
  BY DEF DeadlinesOrdered, TypeOK
<1>5. ResetsOrdered(net, c, e, TRUE)
  BY <1>2, <1>4, SubmitDeadline
<1>6. \A x \in Conn : ResetsOrdered(net', x, deadline'[x], credential'[x]) /\ LoginsFollowed(net', x)
  <2> TAKE x \in Conn
  <2>1. ResetsOrdered(net, x, deadline[x], credential[x]) /\ LoginsFollowed(net, x)
    BY DEF DeadlinesOrdered
  <2>2. CASE x = c
    BY <1>3, <1>5, <2>1, <2>2
  <2>3. CASE x # c
    BY <1>3, <2>1, <2>3
  <2> QED BY <2>2, <2>3
<1> QED BY <1>6 DEF DeadlinesOrdered

LEMMA DeadlinesDispatched ==
    ASSUME TypeOK, DeadlinesOrdered, NEW c \in Conn, NEW n, NEW rest,
           \/ Dropped(c, n, rest) \/ Deferred(c, n, rest) \/ ProcessMessage(c, n, rest)
    PROVE  DeadlinesOrdered'
<1>1. net \in Seq(Post)
  BY DEF TypeOK
<1>2. \A x \in Conn : ResetsOrdered(net, x, deadline[x], credential[x]) /\ LoginsFollowed(net, x)
  BY DEF DeadlinesOrdered
<1>3. ASSUME deadline' = deadline, credential' = credential,
             \A x \in Conn : Ordered(net', x) /\ LoginsFollowed(net', x)
      PROVE  DeadlinesOrdered'
  BY <1>3 DEF DeadlinesOrdered, Ordered
<1>4. \A x \in Conn : Ordered(net, x) /\ LoginsFollowed(net, x)
  BY <1>2 DEF Ordered
<1>5. \A x \in Conn : Ordered(Shedding(net), x) /\ LoginsFollowed(Shedding(net), x)
  BY <1>1, <1>2, SheddingQuiet DEF Ordered
<1>6. CASE Dropped(c, n, rest)
  <2>1. net' = net /\ deadline' = deadline /\ credential' = credential
    BY <1>6 DEF Dropped
  <2> QED BY <1>3, <1>4, <2>1
<1>7. CASE Deferred(c, n, rest)
  <2>1. (net' = net \/ net' = Shedding(net)) /\ deadline' = deadline /\ credential' = credential
    BY <1>7 DEF Deferred
  <2>2. \A x \in Conn : Ordered(net', x) /\ LoginsFollowed(net', x)
    BY <1>4, <1>5, <2>1
  <2> QED BY <1>3, <2>1, <2>2
<1>8. CASE Handled(c, n, rest)
  <2>1. /\ deadline' = deadline /\ credential' = credential
        /\ net' = net \/ \E a \in Answers(c, FALSE) : net' = a.net
    BY <1>8 DEF Handled
  <2>2. \A a \in Answers(c, FALSE), x \in Conn : Ordered(a.net, x) /\ LoginsFollowed(a.net, x)
    BY AnswerQuiet
  <2>3. \A x \in Conn : Ordered(net', x) /\ LoginsFollowed(net', x)
    BY <1>4, <2>1, <2>2
  <2> QED BY <1>3, <2>1, <2>3
<1>9. CASE ~credential[c] /\ Submitted(c, n, rest)
  BY <1>9, DeadlinesSubmitted
<1> QED BY <1>6, <1>7, <1>8, <1>9 DEF ProcessMessage

LEMMA DeadlinesPosted ==
    ASSUME TypeOK, DeadlinesOrdered, RunPost
    PROVE  DeadlinesOrdered'
<1> PICK p, q : p = Head(net) /\ q = Tail(net)
  OBVIOUS
<1>1. net \in Seq(Post) /\ net # <<>> /\ net' = q /\ credential' = credential /\ p \in Post
  BY SeqTail DEF TypeOK, RunPost
<1>2. \A x \in Conn : ResetsOrdered(net, x, deadline[x], credential[x]) /\ LoginsFollowed(net, x)
  BY DEF DeadlinesOrdered
<1>3. \A x \in Conn : ResetsOrdered(q, x, deadline[x], credential[x]) /\ LoginsFollowed(q, x)
  BY <1>1, <1>2, TailPost
<1>4. CASE deadline' = deadline
  BY <1>1, <1>3, <1>4 DEF DeadlinesOrdered
<1>5. CASE p.kind = "reset" /\ deadline' = Reset(p)
  <2>1. p.conn \in Conn /\ p.deadline \in Nat
    BY <1>1, <1>5, PostTypes
  <2>2. CASE deadline[p.conn] # p.deadline
    <3>1. deadline' = deadline
      BY <1>5, <2>2 DEF Reset, TypeOK
    <3> QED BY <1>4, <3>1
  <2>3. CASE deadline[p.conn] = p.deadline
    <3>1. deadline'[p.conn] = 0 /\ \A x \in Conn : x # p.conn => deadline'[x] = deadline[x]
      BY <1>5, <2>1, <2>3 DEF Reset, TypeOK
    <3>2. ResetsOrdered(net, p.conn, p.deadline, credential[p.conn])
      BY <1>2, <2>1, <2>3
    <3>3. ResetsOrdered(q, p.conn, 0, credential[p.conn])
      BY <1>1, <1>5, <2>1, <3>2, TakeReset
    <3>4. \A x \in Conn : ResetsOrdered(net', x, deadline'[x], credential'[x]) /\ LoginsFollowed(net', x)
      <4> TAKE x \in Conn
      <4>1. CASE x = p.conn
        BY <1>1, <1>3, <3>1, <3>3, <4>1
      <4>2. CASE x # p.conn
        BY <1>1, <1>3, <3>1, <4>2
      <4> QED BY <4>1, <4>2
    <3> QED BY <3>4 DEF DeadlinesOrdered
  <2> QED BY <2>2, <2>3
<1> QED BY <1>4, <1>5 DEF RunPost

LEMMA NextDeadlines ==
    TypeOK /\ OneRequest /\ (\A w \in Worker : WorkerHolds(w)) /\ DeadlinesOrdered /\ [Next]_vars
        => DeadlinesOrdered'
<1> SUFFICES ASSUME TypeOK, OneRequest, \A w \in Worker : WorkerHolds(w), DeadlinesOrdered, [Next]_vars
             PROVE  DeadlinesOrdered'
  OBVIOUS
<1>0. net \in Seq(Post) /\ \A x \in Conn : Ordered(net, x) /\ LoginsFollowed(net, x)
  BY DEF TypeOK, DeadlinesOrdered, Ordered
<1>a. ASSUME net' = net, deadline' = deadline, credential' = credential PROVE DeadlinesOrdered'
  BY <1>a DEF DeadlinesOrdered
<1>1. ASSUME NEW c \in Conn, OnMessage(c) \/ CloseConnection(c) PROVE DeadlinesOrdered'
  BY <1>1, <1>a DEF OnMessage, CloseConnection, app
<1>2. ASSUME PumpTimer \/ Cleanup \/ TakePump PROVE DeadlinesOrdered'
  BY <1>2, <1>a DEF PumpTimer, Cleanup, TakePump, app
<1>3. ASSUME RunPost PROVE DeadlinesOrdered'
  BY <1>3, DeadlinesPosted
<1>4. ASSUME TakeMessage PROVE DeadlinesOrdered'
  <2> PICK c, n : c = Head(jobs).conn /\ n = Head(jobs).number
    OBVIOUS
  <2>1. c \in Conn
    BY <1>4, HeadJob, JobTypes DEF TakeMessage
  <2>2. DispatchMessage(c, n, <<>>)
    BY <1>4 DEF TakeMessage
  <2> QED BY <2>1, <2>2, DeadlinesDispatched DEF DispatchMessage
<1>5. ASSUME TakeHashed PROVE DeadlinesOrdered'
  <2> PICK c, w, rest : c = Head(jobs).conn /\ w = Head(jobs).worker /\ rest = <<Prune>>
    OBVIOUS
  <2>1. Head(jobs) \in Job /\ Head(jobs).kind = "hashed" /\ jobs # <<>>
    BY <1>5, HeadJob DEF TakeHashed
  <2>2. c \in Conn /\ w \in Worker /\ Head(jobs) = HashedJob(c, w)
    BY <2>1, JobTypes
  <2>3. c \in slot[w]
    BY <2>1, <2>2, HeadHashed
  <2>4. credential[c] /\ deadline' = deadline
    BY <1>5, <2>2, <2>3 DEF OneRequest, TakeHashed
  <2>5. CASE Finish(c, net, rest)
    BY <1>0, <2>2, <2>4, <2>5, DeadlinesFinished
  <2>6. CASE \E a \in Answers(c, TRUE) : Finish(c, a.net, rest)
    <3>1. PICK a \in Answers(c, TRUE) : Finish(c, a.net, rest)
      BY <2>6
    <3> PICK posted : posted = a.net
      OBVIOUS
    <3>2. posted \in Seq(Post)
      BY <2>2, AnswerTypes
    <3>3. /\ \A x \in Conn : Ordered(posted, x)
          /\ \A x \in Conn : x # c => LoginsFollowed(posted, x)
      BY <2>2, AnswerQuiet
    <3> QED BY <2>2, <2>4, <3>1, <3>2, <3>3, DeadlinesFinished
  <2> QED BY <1>5, <2>5, <2>6 DEF TakeHashed
<1>6. ASSUME DrainNext PROVE DeadlinesOrdered'
  <2> PICK c, n : c = Inner.conn /\ n = Head(deferred[Inner.conn])
    OBVIOUS
  <2>1. c \in Conn
    BY <1>6, InnerCall, CallTypes DEF DrainNext
  <2>2. Dropped(c, n, calls) \/ ProcessMessage(c, n, calls)
    BY <1>6 DEF DrainNext
  <2> QED BY <2>1, <2>2, DeadlinesDispatched
<1>7. ASSUME DrainEnd \/ Return \/ PumpScan PROVE DeadlinesOrdered'
  BY <1>7, <1>a DEF DrainEnd, Return, PumpScan, app
<1>8. ASSUME NEW expired \in SUBSET Conn, PumpPrune(expired) PROVE DeadlinesOrdered'
  BY <1>8, <1>a DEF PumpPrune, app
<1>9. ASSUME NEW c \in Conn, PumpExpire(c) PROVE DeadlinesOrdered'
  <2> PICK rest : rest = <<[Inner EXCEPT !.expired = @ \ {c}]>> \o Tail(calls)
    OBVIOUS
  <2>1. /\ Inner.call = "pump" /\ Inner = calls[1] /\ calls # <<>> /\ calls \in Seq(Call)
        /\ c \in Inner.expired /\ Finish(c, net, rest) /\ deadline' = deadline
    BY <1>9, InnerCall DEF PumpExpire
  <2>2. OnePump(calls)
    BY DEF OneRequest
  <2>3. c \in Expiring(calls)
    BY <2>1, <2>2, PumpTail DEF Inner
  <2>4. credential[c]
    BY <2>3 DEF OneRequest
  <2> QED BY <1>0, <2>1, <2>4, DeadlinesFinished
<1>10. ASSUME Pumped PROVE DeadlinesOrdered'
  <2> PICK p : p = [kind |-> "pumped"]
    OBVIOUS
  <2>1. p \in Post /\ p.kind = "pumped" /\ net' = Append(net, p) /\ deadline' = deadline
        /\ credential' = credential
    BY <1>10, PostTypes DEF Pumped, app
  <2>2. \A x \in Conn : p # HashedLogin(x)
    BY DEF HashedLogin
  <2>3. \A x \in Conn : ResetsOrdered(net, x, deadline[x], credential[x]) /\ LoginsFollowed(net, x)
    BY DEF DeadlinesOrdered
  <2>4. \A x \in Conn : ResetsOrdered(Append(net, p), x, deadline[x], credential[x])
                          /\ LoginsFollowed(Append(net, p), x)
    BY <1>0, <2>1, <2>2, <2>3, QuietPost
  <2> QED BY <2>1, <2>4 DEF DeadlinesOrdered
<1>11. ASSUME NEW w \in Worker, HashStep(w) PROVE DeadlinesOrdered'
  BY <1>11, <1>a DEF HashStep, HashTake, HashPost, app
<1>12. CASE UNCHANGED vars
  BY <1>12, <1>a DEF vars, app
<1> QED BY <1>1, <1>2, <1>3, <1>4, <1>5, <1>6, <1>7, <1>8, <1>9, <1>10, <1>11, <1>12
        DEF Next, TakeJob, CallStep

-----------------------------------------------------------------------------
(* Nothing is kept of a connection after its cleanup. *)
CleanupJob(c) == [kind |-> "cleanup", conn |-> c]

LEMMA RetainedFrame ==
    ASSUME NothingRetained,
           \A c \in Conn : Cleaned(c)' => /\ Cleaned(c)
                                          /\ deferred[c] = <<>> => deferred'[c] = <<>>
                                          /\ c \in waiting' => c \in waiting
                                          /\ loggedIn'[c] => loggedIn[c]
    PROVE  NothingRetained'
  BY DEF NothingRetained

LEMMA CleanedQueued ==
    ASSUME TypeOK, NEW j \in Job, jobs' = Append(jobs, j), alive' = alive
    PROVE  \A c \in Conn : Cleaned(c)' => Cleaned(c)
<1>1. jobs \in Seq(Job)
  BY DEF TypeOK
<1>2. Range(jobs') = Range(jobs) \cup {j}
  BY <1>1, RangeAppend
<1> QED BY <1>2 DEF Cleaned

LEMMA CleanedTaken ==
    ASSUME TypeOK, NEW kind, Takes(kind), alive' = alive
    PROVE  /\ \A c \in Conn : kind # "cleanup" => (Cleaned(c)' => Cleaned(c))
           /\ \A c \in Conn : Head(jobs) # CleanupJob(c) => (Cleaned(c)' => Cleaned(c))
<1>1. /\ jobs \in Seq(Job) /\ jobs # <<>> /\ jobs' = Tail(jobs) /\ Head(jobs).kind = kind
  BY HeadJob
<1>2. Range(jobs) = {Head(jobs)} \cup Range(jobs')
  BY <1>1, RangeTail
<1>3. \A c \in Conn : Head(jobs) # CleanupJob(c) => (Cleaned(c)' => Cleaned(c))
  BY <1>2 DEF Cleaned, CleanupJob
<1>4. \A c \in Conn : CleanupJob(c).kind = "cleanup"
  BY DEF CleanupJob
<1> QED BY <1>1, <1>3, <1>4

LEMMA CleanedClosed ==
    ASSUME TypeOK, NEW cs \in SUBSET Conn, Closed(cs, jobs)
    PROVE  \A c \in Conn : Cleaned(c)' => Cleaned(c)
<1>1. alive' = [c \in Conn |-> alive[c] /\ c \notin cs]
  BY ClosedEffect
<1>2. PICK order \in Seq(Job) :
        /\ jobs' = jobs \o order
        /\ \A c \in cs : alive[c] => [kind |-> "cleanup", conn |-> c] \in Range(order)
  BY ClosedEffect
<1>3. jobs \in Seq(Job)
  BY DEF TypeOK
<1>4. Range(jobs') = Range(jobs) \cup Range(order)
  BY <1>2, <1>3, RangeConcat
<1> QED BY <1>1, <1>2, <1>4 DEF Cleaned

LEMMA RetainedDispatched ==
    ASSUME TypeOK, NothingRetained, NEW c \in Conn, NEW n, NEW rest,
           Dropped(c, n, rest) \/ Deferred(c, n, rest) \/ ProcessMessage(c, n, rest)
    PROVE  \A x \in Conn : ~alive[x] => /\ waiting' \cap {x} \subseteq waiting
                                        /\ loggedIn'[x] => loggedIn[x]
<1>1. CASE Dropped(c, n, rest) \/ Deferred(c, n, rest)
  BY <1>1 DEF Dropped, Deferred
<1>2. CASE alive[c] /\ Handled(c, n, rest)
  <2>1. waiting' = waiting /\ \A x \in Conn : x # c => loggedIn'[x] = loggedIn[x]
    BY <1>2 DEF Handled, Login, TypeOK
  <2> QED BY <1>2, <2>1
<1>3. CASE alive[c] /\ Submitted(c, n, rest)
  BY <1>3 DEF Submitted
<1> QED BY <1>1, <1>2, <1>3 DEF ProcessMessage

LEMMA NextRetained == TypeOK /\ NothingRetained /\ [Next]_vars => NothingRetained'
<1> SUFFICES ASSUME TypeOK, NothingRetained, [Next]_vars PROVE NothingRetained'
  OBVIOUS
<1>0. deferred \in [Conn -> Seq(Nat)] /\ loggedIn \in [Conn -> BOOLEAN]
  BY DEF TypeOK
<1>a. ASSUME deferred' = deferred, waiting' = waiting, loggedIn' = loggedIn,
             \A c \in Conn : Cleaned(c)' => Cleaned(c)
      PROVE  NothingRetained'
  BY <1>a, RetainedFrame
<1>b. ASSUME deferred' = deferred, waiting' \subseteq waiting, loggedIn' = loggedIn,
             jobs' = jobs, alive' = alive
      PROVE  NothingRetained'
  BY <1>b, RetainedFrame DEF Cleaned
<1>1. ASSUME NEW c \in Conn, OnMessage(c) PROVE NothingRetained'
  <2>1. \A x \in Conn : Cleaned(x)' => Cleaned(x)
    <3>1. CASE pending[c] < MaxPending /\ HasRoom
      <4> PICK j : j = [kind |-> "message", conn |-> c, number |-> received'[c]]
        OBVIOUS
      <4>0. received'[c] \in Nat
        BY <1>1 DEF OnMessage, TypeOK
      <4>1. j \in Job
        BY <4>0, JobTypes
      <4>2. jobs' = Append(jobs, j) /\ alive' = alive
        BY <1>1, <3>1 DEF OnMessage
      <4> QED BY <4>1, <4>2, CleanedQueued
    <3>2. CASE ~(pending[c] < MaxPending /\ HasRoom)
      <4>1. Closed({c}, jobs)
        BY <1>1, <3>2 DEF OnMessage
      <4> QED BY <4>1, CleanedClosed
    <3> QED BY <3>1, <3>2
  <2> QED BY <1>1, <1>a, <2>1 DEF OnMessage, queue
<1>2. ASSUME NEW c \in Conn, CloseConnection(c) PROVE NothingRetained'
  <2>1. \A x \in Conn : Cleaned(x)' => Cleaned(x)
    BY <1>2, CleanedClosed DEF CloseConnection
  <2> QED BY <1>2, <1>a, <2>1 DEF CloseConnection, app, queue
<1>3. ASSUME PumpTimer PROVE NothingRetained'
  <2>1. \A x \in Conn : Cleaned(x)' => Cleaned(x)
    BY <1>3, JobTypes, CleanedQueued DEF PumpTimer
  <2> QED BY <1>3, <1>a, <2>1 DEF PumpTimer, app, queue
<1>4. ASSUME RunPost PROVE NothingRetained'
  <2>1. CASE jobs' = jobs /\ alive' = alive
    BY <1>4, <1>b, <2>1 DEF RunPost, queue
  <2>2. CASE Closed(shed, jobs)
    <3>1. shed \in SUBSET Conn
      BY DEF TypeOK
    <3>2. \A x \in Conn : Cleaned(x)' => Cleaned(x)
      BY <2>2, <3>1, CleanedClosed
    <3> QED BY <1>4, <1>a, <3>2 DEF RunPost, queue
  <2> QED BY <1>4, <2>1, <2>2 DEF RunPost
<1>5. ASSUME TakeMessage PROVE NothingRetained'
  <2> PICK c, n, rest : c = Head(jobs).conn /\ n = Head(jobs).number /\ rest = <<>>
    OBVIOUS
  <2>1. c \in Conn
    BY <1>5, HeadJob, JobTypes DEF TakeMessage
  <2>2. DispatchMessage(c, n, rest) /\ alive' = alive
    BY <1>5 DEF TakeMessage
  <2>3. \A x \in Conn : Cleaned(x)' => Cleaned(x)
    BY <1>5, CleanedTaken DEF TakeMessage
  <2>4. \A x \in Conn : ~alive[x] => /\ waiting' \cap {x} \subseteq waiting
                                     /\ loggedIn'[x] => loggedIn[x]
    BY <2>1, <2>2, RetainedDispatched DEF DispatchMessage
  <2>5. \A x \in Conn : ~alive[x] => deferred'[x] = deferred[x]
    <3>1. CASE Deferred(c, n, rest)
      BY <1>0, <3>1 DEF Deferred
    <3>2. CASE deferred' = deferred
      BY <3>2
    <3> QED BY <2>2, <3>1, <3>2 DEF DispatchMessage
  <2> QED BY <2>3, <2>4, <2>5, RetainedFrame DEF Cleaned
<1>6. ASSUME Cleanup PROVE NothingRetained'
  <2> PICK c : c = Head(jobs).conn
    OBVIOUS
  <2>1. c \in Conn /\ Head(jobs) = CleanupJob(c)
    BY <1>6, HeadJob, JobTypes DEF Cleanup, CleanupJob
  <2>2. /\ deferred' = [deferred EXCEPT ![c] = <<>>] /\ loggedIn' = [loggedIn EXCEPT ![c] = FALSE]
        /\ waiting' = waiting \ {c} /\ alive' = alive
    BY <1>6 DEF Cleanup, Cancel
  <2>3. \A x \in Conn : x # c => (Cleaned(x)' => Cleaned(x))
    <3>1. \A x \in Conn : x # c => Head(jobs) # CleanupJob(x)
      BY <2>1 DEF CleanupJob
    <3> QED BY <1>6, <2>2, <3>1, CleanedTaken DEF Cleanup
  <2>4. /\ deferred'[c] = <<>> /\ c \notin waiting' /\ ~loggedIn'[c]
        /\ \A x \in Conn : x # c => deferred'[x] = deferred[x] /\ loggedIn'[x] = loggedIn[x]
    BY <1>0, <2>1, <2>2
  <2>5. \A x \in Conn : Cleaned(x)' => deferred'[x] = <<>> /\ x \notin waiting' /\ ~loggedIn'[x]
    <3> TAKE x \in Conn
    <3>1. CASE x = c
      BY <2>4, <3>1
    <3>2. CASE x # c
      BY <2>2, <2>3, <2>4, <3>2 DEF NothingRetained
    <3> QED BY <3>1, <3>2
  <2> QED BY <2>5 DEF NothingRetained
<1>7. ASSUME TakeHashed PROVE NothingRetained'
  <2> PICK c : c = Head(jobs).conn
    OBVIOUS
  <2>1. /\ alive' = alive /\ deferred' = deferred /\ waiting' = waiting
        /\ loggedIn' = loggedIn \/ (alive[c] /\ Login(c))
    BY <1>7 DEF TakeHashed
  <2>2. \A x \in Conn : Cleaned(x)' => Cleaned(x)
    BY <1>7, <2>1, CleanedTaken DEF TakeHashed
  <2>3. \A x \in Conn : ~alive[x] => loggedIn'[x] = loggedIn[x]
    BY <1>0, <2>1 DEF Login
  <2> QED BY <2>1, <2>2, <2>3, RetainedFrame DEF Cleaned
<1>8. ASSUME TakePump PROVE NothingRetained'
  <2>1. \A x \in Conn : Cleaned(x)' => Cleaned(x)
    BY <1>8, CleanedTaken DEF TakePump
  <2> QED BY <1>8, <1>a, <2>1 DEF TakePump, app, queue
<1>9. ASSUME DrainNext PROVE NothingRetained'
  <2> PICK c, n : c = Inner.conn /\ n = Head(deferred[Inner.conn])
    OBVIOUS
  <2>1. c \in Conn
    BY <1>9, InnerCall, CallTypes DEF DrainNext
  <2>2. /\ Dropped(c, n, calls) \/ ProcessMessage(c, n, calls)
        /\ deferred[c] # <<>> /\ deferred' = [deferred EXCEPT ![c] = Tail(@)]
        /\ alive' = alive /\ jobs' = jobs
    BY <1>9 DEF DrainNext
  <2>3. \A x \in Conn : ~alive[x] => /\ waiting' \cap {x} \subseteq waiting
                                     /\ loggedIn'[x] => loggedIn[x]
    BY <2>1, <2>2, RetainedDispatched
  <2>4. \A x \in Conn : deferred[x] = <<>> => deferred'[x] = <<>>
    BY <1>0, <2>2
  <2>5. \A x \in Conn : Cleaned(x)' => Cleaned(x)
    BY <2>2 DEF Cleaned
  <2> QED BY <2>3, <2>4, <2>5, RetainedFrame DEF Cleaned
<1>10. ASSUME DrainEnd \/ Return \/ Pumped PROVE NothingRetained'
  BY <1>10, <1>b DEF DrainEnd, Return, Pumped, app, queue
<1>11. ASSUME NEW expired \in SUBSET Conn, PumpPrune(expired) PROVE NothingRetained'
  <2>1. waiting' \subseteq waiting
    BY <1>11 DEF PumpPrune
  <2> QED BY <1>11, <1>b, <2>1 DEF PumpPrune, app
<1>12. ASSUME NEW c \in Conn, PumpExpire(c) PROVE NothingRetained'
  BY <1>12, <1>b DEF PumpExpire, queue
<1>13. ASSUME PumpScan PROVE NothingRetained'
  <2>1. waiting' \subseteq waiting
    BY <1>13 DEF PumpScan
  <2> QED BY <1>13, <1>b, <2>1 DEF PumpScan, app
<1>14. ASSUME NEW w \in Worker, HashTake(w) PROVE NothingRetained'
  BY <1>14, <1>b DEF HashTake, app
<1>15. ASSUME NEW w \in Worker, HashPost(w) PROVE NothingRetained'
  <2>1. PICK c \in hashing[w] : jobs' = Append(jobs, HashedJob(c, w))
    BY <1>15 DEF HashPost, HashedJob
  <2>2. HashedJob(c, w) \in Job
    BY JobTypes DEF TypeOK
  <2>3. \A x \in Conn : Cleaned(x)' => Cleaned(x)
    BY <1>15, <2>1, <2>2, CleanedQueued DEF HashPost
  <2> QED BY <1>15, <1>a, <2>3 DEF HashPost, app, queue
<1>16. CASE UNCHANGED vars
  BY <1>16, <1>b DEF vars, app, queue
<1> QED BY <1>1, <1>2, <1>3, <1>4, <1>5, <1>6, <1>7, <1>8, <1>9, <1>10, <1>11, <1>12, <1>13, <1>14,
           <1>15, <1>16 DEF Next, TakeJob, CallStep, HashStep

-----------------------------------------------------------------------------
LEMMA InitPipe == Init => PipeInv
<1> SUFFICES ASSUME Init PROVE PipeInv
  OBVIOUS
<1>1. TypeOK
  <2>1. <<>> \in Seq(Post) /\ <<>> \in Seq(Job) /\ <<>> \in Seq(Call) /\ <<>> \in Seq(Nat)
    BY SMT
  <2> QED BY <2>1 DEF Init, TypeOK
<1>2. CountsExact
  <2>1. DOMAIN <<>> = {} /\ Len(<<>>) = 0
    BY SMT
  <2>2. DeferredPlaces = {}
    BY <2>1 DEF Init, DeferredPlaces
  <2>3. Cardinality(DeferredPlaces) = 0
    BY <2>2, FS_EmptySet
  <2>4. \A c \in Conn : /\ pending[c] = 0 /\ Len(deferred[c]) = 0
                        /\ Count(jobs, MessageJob(c)) = 0 /\ Count(calls, {Dispatched(c)}) = 0
    BY <2>1, CountEmpty DEF Init
  <2>5. 0 <= MaxPending /\ 0 <= DeferredLimit /\ 0 = 0 + 0 + 0
    BY PipelineAssumption, SMT
  <2> QED BY <2>3, <2>4, <2>5 DEF Init, CountsExact
<1>3. OneRequest
  <2>1. OnePump(calls) /\ Expiring(calls) = {}
    BY EmptyStack DEF Init
  <2> QED BY <2>1 DEF Init, OneRequest
<1>4. \A w \in Worker : WorkerHolds(w)
  <2>1. \A c \in Conn, w \in Worker : Count(jobs, {HashedJob(c, w)}) = 0
    BY CountEmpty DEF Init
  <2>2. 0 + 0 + 0 = 0
    OBVIOUS
  <2> QED BY <2>1, <2>2 DEF Init, WorkerHolds, Bit
<1>5. DeadlinesOrdered
  <2>1. DOMAIN <<>> = {}
    BY SMT
  <2>2. \A c \in Conn : ResetsIn(net, c) = {}
    BY <2>1 DEF Init, ResetsIn
  <2> QED BY <2>1, <2>2 DEF Init, DeadlinesOrdered, ResetsOrdered, LoginsFollowed
<1>6. NothingRetained
  BY DEF Init, NothingRetained
<1> QED BY <1>1, <1>2, <1>3, <1>4, <1>5, <1>6 DEF PipeInv

LEMMA NextPipe == PipeInv /\ [Next]_vars => PipeInv'
<1> SUFFICES ASSUME PipeInv, [Next]_vars PROVE PipeInv'
  OBVIOUS
<1>1. /\ TypeOK /\ CountsExact /\ OneRequest /\ (\A w \in Worker : WorkerHolds(w))
      /\ DeadlinesOrdered /\ NothingRetained
  BY DEF PipeInv
<1>2. TypeOK'
  BY <1>1, NextTypes
<1>3. CountsExact'
  BY <1>1, <1>2, NextCounts
<1>4. OneRequest'
  BY <1>1, <1>2, NextRequests
<1>5. \A w \in Worker : WorkerHolds(w)'
  BY <1>1, <1>2, NextWorkers
<1>6. DeadlinesOrdered'
  BY <1>1, NextDeadlines
<1>7. NothingRetained'
  BY <1>1, NextRetained
<1> QED BY <1>2, <1>3, <1>4, <1>5, <1>6, <1>7 DEF PipeInv

LEMMA PipeInductive == Spec => []PipeInv
  BY InitPipe, NextPipe, PTL DEF Spec

(* Jobs, callbacks, calls and counters keep their types: neither             *)
(* pending_messages nor deferred_message_count_ (signal_server.cpp) ever     *)
(* underflows, whichever way a message goes.                                 *)
THEOREM PipelineTypes == Spec => []TypeOK
  BY PipeInductive, PTL DEF PipeInv

(* The counters by which OnMessage and DispatchMessage bound memory are      *)
(* exact for any connections, limits and messages: pending_messages counts   *)
(* the messages queued, deferred and being dispatched, and never exceeds its *)
(* limit; deferred_message_count_ is the deferred messages of all.           *)
THEOREM CountersExact == Spec => []CountsExact
  BY PipeInductive, PTL DEF PipeInv

(* The authentication timeout of the network thread finds no deadline only   *)
(* when no request is pending and no hashed login is on its way: the         *)
(* compare-exchange of FinishCredentialRequest takes no later deadline away. *)
THEOREM DeadlinesCover == Spec => []DeadlineCovers
<1>1. PipeInv => DeadlineCovers
  <2> SUFFICES ASSUME PipeInv, NEW c \in Conn, deadline[c] = 0
               PROVE  ~credential[c] /\ HashedLogin(c) \notin Range(net)
    BY DEF DeadlineCovers, HashedLogin
  <2>1. ResetsOrdered(net, c, deadline[c], credential[c]) /\ LoginsFollowed(net, c) /\ net \in Seq(Post)
    BY DEF PipeInv, DeadlinesOrdered, TypeOK
  <2>2. ~credential[c]
    BY <2>1, SMT DEF ResetsOrdered
  <2>3. ASSUME NEW n \in ResetsIn(net, c) PROVE FALSE
    <3>1. net[n].deadline \in Nat
      BY <2>1, ResetDeadlines
    <3>2. 0 < net[n].deadline /\ net[n].deadline <= 0
      BY <2>1 DEF ResetsOrdered
    <3> QED BY ONLY <3>1, <3>2, SMT
  <2>4. HashedLogin(c) \notin Range(net)
    BY <2>1, <2>3 DEF LoginsFollowed, Range
  <2> QED BY <2>2, <2>4
<1> QED BY <1>1, PipeInductive, PTL

(* StartCredentialWork never finds the executor of an idle hashing worker    *)
(* full, so that its "Reserved credential worker unavailable" is never       *)
(* thrown, for any number of connections and workers.                        *)
THEOREM WorkersReady == Spec => []WorkerReady
<1>1. PipeInv => WorkerReady
  <2> SUFFICES ASSUME PipeInv, NEW w \in Worker
               PROVE  (slot[w] = {} => inbox[w] = {}) /\ Cardinality(inbox[w]) <= 1
    BY DEF WorkerReady
  <2>1. TypeOK /\ WorkerHolds(w)
    BY DEF PipeInv
  <2>2. \A c \in inbox[w] : c \in slot[w] /\ \A x \in Conn : x # c => x \notin inbox[w]
    BY <2>1, WorkerFull
  <2>3. inbox[w] \subseteq Conn
    BY <2>1 DEF TypeOK
  <2>4. Cardinality(inbox[w]) <= 1
    <3>1. CASE inbox[w] = {}
      <4>1. Cardinality(inbox[w]) = 0
        BY <3>1, FS_EmptySet
      <4> QED BY ONLY <4>1, SMT
    <3>2. CASE inbox[w] # {}
      <4>1. PICK c : inbox[w] = {c}
        BY <2>2, <2>3, <3>2
      <4>2. Cardinality(inbox[w]) = 1
        BY <4>1, FS_Singleton
      <4> QED BY ONLY <4>2, SMT
    <3> QED BY <3>1, <3>2
  <2> QED BY <2>2, <2>4
<1> QED BY <1>1, PipeInductive, PTL

(* The job of QueueSessionCleanup leaves neither deferred messages nor a     *)
(* waiting request nor a login behind, and nothing after it brings one back. *)
THEOREM NothingKept == Spec => []NothingRetained
  BY PipeInductive, PTL DEF PipeInv

-----------------------------------------------------------------------------
(* The messages of a connection that are neither processed nor thrown away,  *)
(* in order: those deferred, then those in the queue of the worker.          *)
MessagesIn(q, c) == {i \in DOMAIN q : q[i].kind = "message" /\ q[i].conn = c}

(* q is the queue of jobs, d what c has deferred, p its last message         *)
(* processed and r the number received.                                      *)
InLine(c, q, d, p, r) ==
    /\ p <= r
    /\ \A i \in DOMAIN d : p < d[i] /\ d[i] <= r
    /\ \A i, j \in DOMAIN d : i < j => d[i] < d[j]
    /\ \A i \in MessagesIn(q, c) :
          /\ p < q[i].number /\ q[i].number <= r
          /\ \A j \in DOMAIN d : d[j] < q[i].number
    /\ \A i, j \in MessagesIn(q, c) : i < j => q[i].number < q[j].number

InQueue(c, q, k) == \E i \in MessagesIn(q, c) : q[i].number = k
NoneLost(c, q, d, p, r) ==
    \A k \in Nat : p < k /\ k <= r => InQueue(c, q, k) \/ \E i \in DOMAIN d : d[i] = k

LineKept(c) ==
    /\ InLine(c, jobs, deferred[c], processed[c], received[c])
    /\ alive[c] /\ c \notin shed => NoneLost(c, jobs, deferred[c], processed[c], received[c])

(* What is deferred waits for a request or for a drain under way, and only a *)
(* connection that is closed is cleaned up.                                  *)
DrainDue(c) == deferred[c] # <<>> /\ ~credential[c] => Drain(c) \in Range(calls)
CleanupOfClosed == \A j \in Range(jobs) : j.kind = "cleanup" => ~alive[j.conn]

LEMMA MessagesAppend ==
    ASSUME NEW q \in Seq(Job), NEW e \in Job, NEW c \in Conn
    PROVE  /\ MessagesIn(q, c) \subseteq MessagesIn(Append(q, e), c)
           /\ \A i \in MessagesIn(q, c) : i <= Len(q)
           /\ \A i \in MessagesIn(Append(q, e), c) :
                i \in MessagesIn(q, c)
                    \/ (i = Len(q) + 1 /\ e.kind = "message" /\ e.conn = c)
           /\ e.kind = "message" /\ e.conn = c => Len(q) + 1 \in MessagesIn(Append(q, e), c)
           /\ Append(q, e)[Len(q) + 1] = e
<1>1. /\ Len(q) \in Nat /\ DOMAIN q = 1..Len(q)
      /\ DOMAIN Append(q, e) = 1..(Len(q) + 1)
      /\ \A n \in DOMAIN q : Append(q, e)[n] = q[n]
      /\ Append(q, e)[Len(q) + 1] = e
  BY SeqAppend
<1>2. /\ \A i \in DOMAIN q : i \in DOMAIN Append(q, e) /\ i <= Len(q)
      /\ \A i \in DOMAIN Append(q, e) : i \in DOMAIN q \/ i = Len(q) + 1
      /\ Len(q) + 1 \in DOMAIN Append(q, e)
  BY <1>1, SMT
<1> QED BY <1>1, <1>2 DEF MessagesIn

LEMMA MessagesTail ==
    ASSUME NEW q \in Seq(Job), q # <<>>, NEW c \in Conn
    PROVE  /\ \A i \in MessagesIn(Tail(q), c) : i + 1 \in MessagesIn(q, c) /\ Tail(q)[i] = q[i + 1]
           /\ \A i \in MessagesIn(q, c) :
                (i = 1 /\ q[i] = Head(q)) \/ (i - 1 \in MessagesIn(Tail(q), c) /\ q[i] = Tail(q)[i - 1])
           /\ Head(q).kind = "message" /\ Head(q).conn = c => 1 \in MessagesIn(q, c)
           /\ MessagesIn(q, c) \subseteq Nat \ {0}
           /\ MessagesIn(Tail(q), c) \subseteq Nat \ {0}
           /\ \A i \in MessagesIn(q, c) : q[i].number \in Nat
<1>1. /\ 1 \in DOMAIN q /\ Head(q) = q[1]
      /\ \A n \in DOMAIN Tail(q) : n + 1 \in DOMAIN q /\ Tail(q)[n] = q[n + 1]
  BY SeqTail
<1>2. \A n \in DOMAIN q : n = 1 \/ (n - 1 \in DOMAIN Tail(q) /\ q[n] = Tail(q)[n - 1])
  BY SMT
<1>3. DOMAIN q \subseteq Nat \ {0} /\ DOMAIN Tail(q) \subseteq Nat \ {0}
  BY SMT
<1>4. \A i \in DOMAIN q : q[i] \in Job
  BY SMT
<1>5. \A i \in MessagesIn(q, c) : q[i].number \in Nat
  BY <1>4, JobTypes DEF MessagesIn
<1> QED BY <1>1, <1>2, <1>3, <1>5 DEF MessagesIn

LEMMA MessagesTypes ==
    ASSUME NEW q \in Seq(Job), NEW c \in Conn
    PROVE  /\ MessagesIn(q, c) \subseteq Nat \ {0}
           /\ \A i \in MessagesIn(q, c) : q[i].number \in Nat
<1>1. DOMAIN q \subseteq Nat \ {0} /\ \A i \in DOMAIN q : q[i] \in Job
  BY SMT
<1> QED BY <1>1, JobTypes DEF MessagesIn

(* A message arrives at the end of the line. *)
LEMMA LineArrives ==
    ASSUME NEW c \in Conn, NEW q \in Seq(Job), NEW d \in Seq(Nat), NEW p \in Nat, NEW r \in Nat,
           InLine(c, q, d, p, r),
           NEW e \in Job, e.kind = "message", e.conn = c, e.number = r + 1
    PROVE  /\ InLine(c, Append(q, e), d, p, r + 1)
           /\ NoneLost(c, q, d, p, r) => NoneLost(c, Append(q, e), d, p, r + 1)
<1> PICK a : a = Append(q, e)
  OBVIOUS
<1>1. /\ \A i \in MessagesIn(q, c) : i \in MessagesIn(a, c) /\ a[i] = q[i] /\ i <= Len(q)
      /\ \A i \in MessagesIn(a, c) : i \in MessagesIn(q, c) \/ (i = Len(q) + 1 /\ a[i] = e)
      /\ Len(q) + 1 \in MessagesIn(a, c) /\ a[Len(q) + 1] = e
  <2>a. \A i \in MessagesIn(q, c) : i \in MessagesIn(a, c)
    BY MessagesAppend
  <2>b. \A i \in MessagesIn(q, c) : a[i] = q[i]
    <3>1. \A n \in DOMAIN q : a[n] = q[n]
      BY SeqAppend
    <3> QED BY <3>1 DEF MessagesIn
  <2>c. \A i \in MessagesIn(q, c) : i <= Len(q)
    BY MessagesAppend
  <2>1. \A i \in MessagesIn(q, c) : i \in MessagesIn(a, c) /\ a[i] = q[i] /\ i <= Len(q)
    BY <2>a, <2>b, <2>c
  <2>2. \A i \in MessagesIn(a, c) : i \in MessagesIn(q, c) \/ i = Len(q) + 1
    BY MessagesAppend
  <2>3. Len(q) + 1 \in MessagesIn(a, c) /\ a[Len(q) + 1] = e
    BY MessagesAppend
  <2> QED BY <2>1, <2>2, <2>3
<1>2. Len(q) \in Nat /\ \A j \in DOMAIN d : d[j] \in Nat
  BY SMT
<1>3. /\ MessagesIn(q, c) \subseteq Nat \ {0}
      /\ \A i \in MessagesIn(q, c) : q[i].number \in Nat
  BY MessagesTypes
<1> PICK old, new : old = MessagesIn(q, c) /\ new = MessagesIn(a, c)
  OBVIOUS
<1>4. InLine(c, a, d, p, r + 1)
  <2>1. p <= r + 1 /\ \A i \in DOMAIN d : p < d[i] /\ d[i] <= r + 1
    BY <1>2, SMT DEF InLine
  <2>2. \A i \in new : i \in old \/ (i = Len(q) + 1 /\ a[i].number = r + 1)
    BY <1>1
  <2>3. \A i \in old : p < q[i].number /\ q[i].number <= r /\ \A j \in DOMAIN d : d[j] < q[i].number
    BY DEF InLine
  <2>4. \A i \in new : /\ p < a[i].number /\ a[i].number <= r + 1
                       /\ \A j \in DOMAIN d : d[j] < a[i].number
    <3> TAKE i \in new
    <3>1. CASE i \in old
      <4>1. a[i].number \in Nat /\ p < a[i].number /\ a[i].number <= r
            /\ \A j \in DOMAIN d : d[j] < a[i].number
        BY <1>1, <1>3, <2>3, <3>1
      <4> PICK m : m = a[i].number
        OBVIOUS
      <4>2. m \in Nat /\ m <= r
        BY <4>1
      <4>3. m <= r + 1
        BY ONLY <4>2, r \in Nat, SMT
      <4> QED BY <4>1, <4>3
    <3>2. CASE a[i].number = r + 1
      <4>1. p <= r /\ \A j \in DOMAIN d : d[j] <= r
        BY DEF InLine
      <4>2. p < r + 1 /\ r + 1 <= r + 1 /\ \A j \in DOMAIN d : d[j] < r + 1
        BY ONLY <1>2, <4>1, p \in Nat, r \in Nat, SMT
      <4> QED BY <3>2, <4>2
    <3> QED BY <2>2, <3>1, <3>2
  <2>5. \A i, j \in new : i < j => a[i].number < a[j].number
    <3> SUFFICES ASSUME NEW i \in new, NEW j \in new, i < j PROVE a[i].number < a[j].number
      OBVIOUS
    <3>1. CASE i \in old /\ j \in old
      BY <1>1, <3>1 DEF InLine
    <3>2. CASE i \in old /\ a[j].number = r + 1
      <4> PICK m : m = a[i].number
        OBVIOUS
      <4>1. m \in Nat /\ m <= r
        BY <1>1, <1>3, <2>3, <3>2
      <4>2. m < r + 1
        BY ONLY <4>1, r \in Nat, SMT
      <4> QED BY <3>2, <4>2
    <3>3. CASE i = Len(q) + 1 /\ j \in old
      <4>1. j \in Nat /\ j <= Len(q)
        BY <1>1, <1>3, <3>3
      <4>2. ~(i < j)
        BY ONLY <1>2, <4>1, <3>3, SMT
      <4> QED BY <4>2
    <3>4. CASE i = Len(q) + 1 /\ j = Len(q) + 1
      BY ONLY <1>2, <3>4, i < j, SMT
    <3> QED BY <2>2, <3>1, <3>2, <3>3, <3>4
  <2> QED BY <2>1, <2>4, <2>5 DEF InLine
<1>5. ASSUME NoneLost(c, q, d, p, r) PROVE NoneLost(c, a, d, p, r + 1)
  <2> SUFFICES ASSUME NEW k \in Nat, p < k, k <= r + 1
               PROVE  InQueue(c, a, k) \/ \E i \in DOMAIN d : d[i] = k
    BY DEF NoneLost
  <2>1. CASE k = r + 1
    BY <1>1, <2>1 DEF InQueue
  <2>2. CASE k <= r
    BY <1>1, <1>5, <2>2 DEF NoneLost, InQueue
  <2>3. k = r + 1 \/ k <= r
    BY ONLY k \in Nat, r \in Nat, k <= r + 1, SMT
  <2> QED BY <2>1, <2>2, <2>3
<1> QED BY <1>4, <1>5

(* Only the messages of the connection in the queue count: another job may   *)
(* join or leave it.                                                         *)
LEMMA LineSame ==
    ASSUME NEW c, NEW q, NEW a, NEW d, NEW p, NEW r,
           MessagesIn(a, c) = MessagesIn(q, c), \A i \in MessagesIn(q, c) : a[i] = q[i]
    PROVE  /\ InLine(c, q, d, p, r) => InLine(c, a, d, p, r)
           /\ NoneLost(c, q, d, p, r) => NoneLost(c, a, d, p, r)
  BY DEF InLine, NoneLost, InQueue

LEMMA LineAppend ==
    ASSUME NEW c \in Conn, NEW q \in Seq(Job), NEW d, NEW p, NEW r,
           NEW e \in Job, ~(e.kind = "message" /\ e.conn = c)
    PROVE  /\ InLine(c, q, d, p, r) => InLine(c, Append(q, e), d, p, r)
           /\ NoneLost(c, q, d, p, r) => NoneLost(c, Append(q, e), d, p, r)
<1>a. \A i \in MessagesIn(q, c) : i \in MessagesIn(Append(q, e), c)
  BY MessagesAppend
<1>b. \A i \in MessagesIn(q, c) : Append(q, e)[i] = q[i]
  <2>1. \A n \in DOMAIN q : Append(q, e)[n] = q[n]
    BY SeqAppend
  <2> QED BY <2>1 DEF MessagesIn
<1>1. \A i \in MessagesIn(q, c) : i \in MessagesIn(Append(q, e), c) /\ Append(q, e)[i] = q[i]
  BY <1>a, <1>b
<1>2. \A i \in MessagesIn(Append(q, e), c) : i \in MessagesIn(q, c)
  BY MessagesAppend
<1>3. MessagesIn(Append(q, e), c) = MessagesIn(q, c)
  BY <1>1, <1>2
<1> QED BY <1>1, <1>3, LineSame

LEMMA LineConcat ==
    ASSUME NEW c \in Conn, NEW q \in Seq(Job), NEW d, NEW p, NEW r,
           NEW o \in Seq(Job), \A n \in DOMAIN o : o[n].kind = "cleanup"
    PROVE  /\ InLine(c, q, d, p, r) => InLine(c, q \o o, d, p, r)
           /\ NoneLost(c, q, d, p, r) => NoneLost(c, q \o o, d, p, r)
<1>1. \A n \in DOMAIN (q \o o) :
        n \in DOMAIN q \/ (n - Len(q) \in DOMAIN o /\ (q \o o)[n] = o[n - Len(q)])
  BY SMT
<1>2. \A n \in DOMAIN q : n \in DOMAIN (q \o o) /\ (q \o o)[n] = q[n]
  BY SMT
<1>3. "cleanup" # "message"
  OBVIOUS
<1>4. /\ MessagesIn(q \o o, c) = MessagesIn(q, c)
      /\ \A i \in MessagesIn(q, c) : (q \o o)[i] = q[i]
  BY <1>1, <1>2, <1>3 DEF MessagesIn
<1> QED BY <1>4, LineSame

(* The head of the queue leaves it. *)
LEMMA LineTail ==
    ASSUME NEW c \in Conn, NEW q \in Seq(Job), q # <<>>, NEW d \in Seq(Nat), NEW p \in Nat, NEW r \in Nat,
           InLine(c, q, d, p, r)
    PROVE  /\ InLine(c, Tail(q), d, p, r)
           /\ Head(q).kind = "message" /\ Head(q).conn = c =>
                /\ p < Head(q).number /\ Head(q).number <= r
                /\ \A j \in DOMAIN d : d[j] < Head(q).number
                /\ \A i \in MessagesIn(Tail(q), c) : Head(q).number < Tail(q)[i].number
           /\ \A k : InQueue(c, q, k) => \/ InQueue(c, Tail(q), k)
                                         \/ /\ Head(q).kind = "message" /\ Head(q).conn = c
                                            /\ Head(q).number = k
<1> PICK t, h : t = Tail(q) /\ h = Head(q)
  OBVIOUS
<1>1. /\ \A i \in MessagesIn(t, c) : i + 1 \in MessagesIn(q, c) /\ t[i] = q[i + 1]
      /\ \A i \in MessagesIn(q, c) :
            (i = 1 /\ q[i] = h) \/ (i - 1 \in MessagesIn(t, c) /\ q[i] = t[i - 1])
      /\ h.kind = "message" /\ h.conn = c => 1 \in MessagesIn(q, c)
      /\ MessagesIn(t, c) \subseteq Nat \ {0}
  BY MessagesTail
<1>0. q[1] = h
  BY SeqTail
<1>2. \A i, j \in MessagesIn(t, c) : i < j => t[i].number < t[j].number
  <2> SUFFICES ASSUME NEW i \in MessagesIn(t, c), NEW j \in MessagesIn(t, c), i < j
               PROVE  t[i].number < t[j].number
    OBVIOUS
  <2>1. i \in Nat /\ j \in Nat
    BY <1>1
  <2>2. i + 1 < j + 1
    BY ONLY <2>1, i < j, SMT
  <2> QED BY <1>1, <2>2 DEF InLine
<1>3. InLine(c, t, d, p, r)
  BY <1>1, <1>2 DEF InLine
<1>4. ASSUME h.kind = "message", h.conn = c
      PROVE  /\ p < h.number /\ h.number <= r
             /\ \A j \in DOMAIN d : d[j] < h.number
             /\ \A i \in MessagesIn(t, c) : h.number < t[i].number
  <2>1. 1 \in MessagesIn(q, c) /\ q[1] = h
    BY <1>0, <1>1, <1>4
  <2>2. \A i \in MessagesIn(t, c) : 1 < i + 1
    BY <1>1, SMT
  <2> QED BY <1>1, <2>1, <2>2 DEF InLine
<1>5. ASSUME NEW k, InQueue(c, q, k), ~InQueue(c, t, k)
      PROVE  h.kind = "message" /\ h.conn = c /\ h.number = k
  BY <1>1, <1>5 DEF InQueue, MessagesIn
<1> QED BY <1>3, <1>4, <1>5

(* The head of the queue is deferred: it follows what is deferred already. *)
LEMMA LineDeferred ==
    ASSUME NEW c \in Conn, NEW q \in Seq(Job), q # <<>>, NEW d \in Seq(Nat), NEW p \in Nat, NEW r \in Nat,
           InLine(c, q, d, p, r), Head(q).kind = "message", Head(q).conn = c,
           NEW n \in Nat, n = Head(q).number
    PROVE  /\ InLine(c, Tail(q), Append(d, n), p, r)
           /\ NoneLost(c, q, d, p, r) => NoneLost(c, Tail(q), Append(d, n), p, r)
<1> PICK t, a : t = Tail(q) /\ a = Append(d, n)
  OBVIOUS
<1>1. /\ InLine(c, t, d, p, r)
      /\ p < n /\ n <= r
      /\ \A j \in DOMAIN d : d[j] < n
      /\ \A i \in MessagesIn(t, c) : n < t[i].number
      /\ \A k : InQueue(c, q, k) => InQueue(c, t, k) \/ n = k
  BY LineTail
<1>2. /\ Len(d) \in Nat /\ DOMAIN d = 1..Len(d)
      /\ DOMAIN a = 1..(Len(d) + 1)
      /\ \A j \in DOMAIN d : a[j] = d[j]
      /\ a[Len(d) + 1] = n
  BY SeqAppend
<1>3. /\ \A j \in DOMAIN a : j \in DOMAIN d \/ j = Len(d) + 1
      /\ \A j \in DOMAIN d : j \in DOMAIN a /\ j \in Nat /\ j <= Len(d)
      /\ Len(d) + 1 \in DOMAIN a
  BY ONLY <1>2, SMT
<1>4. \A j \in DOMAIN a : (j \in DOMAIN d /\ a[j] = d[j]) \/ (j = Len(d) + 1 /\ a[j] = n)
  BY <1>2, <1>3
<1>5. InLine(c, t, a, p, r)
  <2>1. \A j \in DOMAIN a : p < a[j] /\ a[j] <= r
    BY <1>1, <1>4 DEF InLine
  <2>2. \A i, j \in DOMAIN a : i < j => a[i] < a[j]
    <3> SUFFICES ASSUME NEW i \in DOMAIN a, NEW j \in DOMAIN a, i < j PROVE a[i] < a[j]
      OBVIOUS
    <3>1. CASE i \in DOMAIN d /\ j \in DOMAIN d
      BY <1>1, <1>2, <3>1 DEF InLine
    <3>2. CASE i \in DOMAIN d /\ j = Len(d) + 1
      BY <1>1, <1>2, <3>2
    <3>3. CASE i = Len(d) + 1 /\ j \in DOMAIN d
      BY ONLY <1>2, <1>3, <3>3, i < j, SMT
    <3>4. CASE i = Len(d) + 1 /\ j = Len(d) + 1
      BY ONLY <1>2, <3>4, i < j, SMT
    <3> QED BY <1>3, <3>1, <3>2, <3>3, <3>4
  <2>3. \A i \in MessagesIn(t, c) : /\ p < t[i].number /\ t[i].number <= r
                                    /\ \A j \in DOMAIN a : a[j] < t[i].number
    BY <1>1, <1>4 DEF InLine
  <2> QED BY <1>1, <2>1, <2>2, <2>3 DEF InLine
<1>6. ASSUME NoneLost(c, q, d, p, r) PROVE NoneLost(c, t, a, p, r)
  <2> SUFFICES ASSUME NEW k \in Nat, p < k, k <= r
               PROVE  InQueue(c, t, k) \/ \E j \in DOMAIN a : a[j] = k
    BY DEF NoneLost
  <2>1. InQueue(c, q, k) \/ \E j \in DOMAIN d : d[j] = k
    BY <1>6 DEF NoneLost
  <2> QED BY <1>1, <1>2, <1>3, <2>1
<1> QED BY <1>5, <1>6

(* The head of the queue is processed, when nothing is deferred: it is the   *)
(* next message unless one was lost.                                         *)
LEMMA LineProcessed ==
    ASSUME NEW c \in Conn, NEW q \in Seq(Job), q # <<>>, NEW p \in Nat, NEW r \in Nat,
           InLine(c, q, <<>>, p, r), Head(q).kind = "message", Head(q).conn = c,
           NEW n \in Nat, n = Head(q).number
    PROVE  /\ p < n
           /\ InLine(c, Tail(q), <<>>, n, r)
           /\ NoneLost(c, q, <<>>, p, r) => n = p + 1 /\ NoneLost(c, Tail(q), <<>>, n, r)
<1> PICK t, d : t = Tail(q) /\ d = <<>>
  OBVIOUS
<1>0. d \in Seq(Nat) /\ DOMAIN d = {}
  BY SMT
<1>1. /\ InLine(c, t, d, p, r)
      /\ p < n /\ n <= r
      /\ \A i \in MessagesIn(t, c) : n < t[i].number
      /\ \A k : InQueue(c, q, k) => InQueue(c, t, k) \/ n = k
  BY <1>0, LineTail
<1>2. InLine(c, t, d, n, r)
  BY <1>0, <1>1 DEF InLine
<1>3. \A i \in MessagesIn(t, c) : t[i].number \in Nat
  BY MessagesTypes, SeqTail
<1>4. ASSUME NoneLost(c, q, d, p, r) PROVE n = p + 1 /\ NoneLost(c, t, d, n, r)
  <2>1. \A k \in Nat : p < k /\ k <= r => InQueue(c, t, k) \/ n = k
    BY <1>0, <1>1, <1>4 DEF NoneLost
  <2>2. n = p + 1
    <3>1. p + 1 \in Nat /\ p < p + 1 /\ p + 1 <= n /\ p + 1 <= r
      BY <1>1, SMT
    <3>2. InQueue(c, t, p + 1) \/ n = p + 1
      BY <2>1, <3>1
    <3>3. ASSUME InQueue(c, t, p + 1) PROVE FALSE
      <4>1. n < p + 1
        BY <1>1, <3>3 DEF InQueue
      <4> QED BY ONLY <3>1, <4>1, p \in Nat, n \in Nat, SMT
    <3> QED BY <3>2, <3>3
  <2>3. NoneLost(c, t, d, n, r)
    <3> SUFFICES ASSUME NEW k \in Nat, n < k, k <= r PROVE InQueue(c, t, k)
      BY DEF NoneLost
    <3>1. p < k /\ n # k
      BY ONLY <1>1, n < k, p \in Nat, n \in Nat, k \in Nat, SMT
    <3> QED BY <2>1, <3>1
  <2> QED BY <2>2, <2>3
<1> QED BY <1>1, <1>2, <1>4

(* The first of the deferred messages is processed: it is the next one. *)
LEMMA LineDrained ==
    ASSUME NEW c \in Conn, NEW q \in Seq(Job), NEW d \in Seq(Nat), d # <<>>, NEW p \in Nat, NEW r \in Nat,
           InLine(c, q, d, p, r), NEW n \in Nat, n = Head(d)
    PROVE  /\ p < n
           /\ InLine(c, q, Tail(d), n, r)
           /\ InLine(c, q, Tail(d), p, r)
           /\ NoneLost(c, q, d, p, r) => n = p + 1 /\ NoneLost(c, q, Tail(d), n, r)
<1> PICK t : t = Tail(d)
  OBVIOUS
<1>1. /\ d[1] = n /\ 1 \in DOMAIN d
      /\ \A j \in DOMAIN t : j + 1 \in DOMAIN d /\ t[j] = d[j + 1]
  BY SeqTail
<1>2. \A j \in DOMAIN d : j = 1 \/ (j - 1 \in DOMAIN t /\ d[j] = t[j - 1])
  BY SMT
<1>3. DOMAIN t \subseteq Nat \ {0} /\ \A j \in DOMAIN d : d[j] \in Nat
  BY SMT
<1>4. p < n /\ n <= r /\ \A i \in MessagesIn(q, c) : n < q[i].number
  BY <1>1 DEF InLine
<1>5. \A j \in DOMAIN t : n < t[j]
  <2> TAKE j \in DOMAIN t
  <2>1. 1 < j + 1
    BY <1>3, SMT
  <2> QED BY <1>1, <2>1 DEF InLine
<1>6. \A i, j \in DOMAIN t : i < j => t[i] < t[j]
  <2> SUFFICES ASSUME NEW i \in DOMAIN t, NEW j \in DOMAIN t, i < j PROVE t[i] < t[j]
    OBVIOUS
  <2>1. i \in Nat /\ j \in Nat
    BY <1>3
  <2>2. i + 1 < j + 1
    BY ONLY <2>1, i < j, SMT
  <2> QED BY <1>1, <2>2 DEF InLine
<1>7. InLine(c, q, t, n, r) /\ InLine(c, q, t, p, r)
  BY <1>1, <1>4, <1>5, <1>6 DEF InLine
<1>8. ASSUME NoneLost(c, q, d, p, r) PROVE n = p + 1 /\ NoneLost(c, q, t, n, r)
  <2>1. \A k \in Nat : p < k /\ k <= r => InQueue(c, q, k) \/ n = k \/ \E j \in DOMAIN t : t[j] = k
    <3> SUFFICES ASSUME NEW k \in Nat, p < k, k <= r, ~InQueue(c, q, k)
                 PROVE  n = k \/ \E j \in DOMAIN t : t[j] = k
      OBVIOUS
    <3>1. PICK i \in DOMAIN d : d[i] = k
      BY <1>8 DEF NoneLost
    <3>2. CASE i = 1
      BY <1>1, <3>1, <3>2
    <3>3. CASE i - 1 \in DOMAIN t /\ d[i] = t[i - 1]
      BY <3>1, <3>3
    <3> QED BY <1>2, <3>2, <3>3
  <2>2. n = p + 1
    <3>1. p + 1 \in Nat /\ p < p + 1 /\ p + 1 <= n /\ p + 1 <= r
      BY <1>4, SMT
    <3>2. ASSUME InQueue(c, q, p + 1) \/ \E j \in DOMAIN t : t[j] = p + 1 PROVE FALSE
      <4>1. n < p + 1
        BY <1>4, <1>5, <3>2 DEF InQueue
      <4> QED BY ONLY <3>1, <4>1, p \in Nat, n \in Nat, SMT
    <3> QED BY <2>1, <3>1, <3>2
  <2>3. NoneLost(c, q, t, n, r)
    <3> SUFFICES ASSUME NEW k \in Nat, n < k, k <= r
                 PROVE  InQueue(c, q, k) \/ \E j \in DOMAIN t : t[j] = k
      BY DEF NoneLost
    <3>1. p < k /\ n # k
      BY ONLY <1>4, n < k, p \in Nat, n \in Nat, k \in Nat, SMT
    <3> QED BY <2>1, <3>1
  <2> QED BY <2>2, <2>3
<1> QED BY <1>4, <1>7, <1>8

LEMMA RangePush ==
    ASSUME NEW T, NEW s \in Seq(T), NEW e \in T
    PROVE  Range(<<e>> \o s) = {e} \cup Range(s)
<1>1. <<e>> \in Seq(T) /\ DOMAIN <<e>> = {1} /\ <<e>>[1] = e
  BY SMT
<1> PICK u : u = <<e>>
  OBVIOUS
<1>2. u \in Seq(T) /\ Range(u) = {e}
  BY <1>1 DEF Range
<1>3. Range(u \o s) = Range(u) \cup Range(s)
  BY <1>2, RangeConcat, ZenonT(40)
<1> QED BY <1>2, <1>3

LEMMA NextCleanups == TypeOK /\ CleanupOfClosed /\ [Next]_vars => CleanupOfClosed'
<1> SUFFICES ASSUME TypeOK, CleanupOfClosed, [Next]_vars PROVE CleanupOfClosed'
  OBVIOUS
<1>0. jobs \in Seq(Job)
  BY DEF TypeOK
<1>a. ASSUME jobs' = jobs, alive' = alive PROVE CleanupOfClosed'
  BY <1>a DEF CleanupOfClosed
<1>b. ASSUME NEW e \in Job, e.kind # "cleanup", jobs' = Append(jobs, e), alive' = alive
      PROVE  CleanupOfClosed'
  <2>1. Range(jobs') = Range(jobs) \cup {e}
    BY <1>0, <1>b, RangeAppend
  <2> QED BY <1>b, <2>1 DEF CleanupOfClosed
<1>c. ASSUME NEW kind, Takes(kind), alive' = alive PROVE CleanupOfClosed'
  <2>1. Range(jobs) = {Head(jobs)} \cup Range(jobs')
    BY <1>0, <1>c, HeadJob, RangeTail
  <2> QED BY <1>c, <2>1 DEF CleanupOfClosed
<1>d. ASSUME NEW cs \in SUBSET Conn, Closed(cs, jobs) PROVE CleanupOfClosed'
  <2>1. alive' = [c \in Conn |-> alive[c] /\ c \notin cs]
    BY <1>d, ClosedEffect
  <2>2. PICK order \in Seq(Job) : /\ jobs' = jobs \o order
                                  /\ \A n \in DOMAIN order : order[n].conn \in cs
    BY <1>d, ClosedEffect
  <2>3. Range(jobs') = Range(jobs) \cup Range(order)
    BY <1>0, <2>2, RangeConcat
  <2>4. \A j \in Range(order) : j.conn \in cs
    BY <2>2 DEF Range
  <2>5. \A j \in Range(jobs) : j.kind = "cleanup" => j.conn \in Conn
    BY <1>0, JobTypes, SMT DEF Range
  <2> QED BY <2>1, <2>3, <2>4, <2>5 DEF CleanupOfClosed
<1>1. ASSUME NEW c \in Conn, OnMessage(c) PROVE CleanupOfClosed'
  <2>1. CASE pending[c] < MaxPending /\ HasRoom
    <3> PICK j : j = [kind |-> "message", conn |-> c, number |-> received'[c]]
      OBVIOUS
    <3>0. received'[c] \in Nat
      BY <1>1 DEF OnMessage, TypeOK
    <3>1. j \in Job /\ j.kind # "cleanup"
      BY <3>0, JobTypes
    <3>2. jobs' = Append(jobs, j) /\ alive' = alive
      BY <1>1, <2>1 DEF OnMessage
    <3> QED BY <1>b, <3>1, <3>2
  <2>2. CASE ~(pending[c] < MaxPending /\ HasRoom)
    <3>1. Closed({c}, jobs)
      BY <1>1, <2>2 DEF OnMessage
    <3> QED BY <1>d, <3>1
  <2> QED BY <2>1, <2>2
<1>2. ASSUME NEW c \in Conn, CloseConnection(c) PROVE CleanupOfClosed'
  BY <1>2, <1>d DEF CloseConnection
<1>3. ASSUME PumpTimer PROVE CleanupOfClosed'
  <2>1. [kind |-> "pump"] \in Job /\ [kind |-> "pump"].kind # "cleanup"
    BY JobTypes
  <2> QED BY <1>3, <1>b, <2>1 DEF PumpTimer
<1>4. ASSUME RunPost PROVE CleanupOfClosed'
  <2>1. shed \in SUBSET Conn
    BY DEF TypeOK
  <2>2. (jobs' = jobs /\ alive' = alive) \/ Closed(shed, jobs)
    BY <1>4 DEF RunPost
  <2> QED BY <1>a, <1>d, <2>1, <2>2
<1>5. ASSUME TakeMessage \/ Cleanup \/ TakeHashed \/ TakePump PROVE CleanupOfClosed'
  BY <1>5, <1>c DEF TakeMessage, Cleanup, TakeHashed, TakePump
<1>6. ASSUME CallStep PROVE CleanupOfClosed'
  BY <1>6, <1>a DEF CallStep, DrainNext, DrainEnd, Return, PumpScan, Pumped, PumpPrune, PumpExpire
<1>7. ASSUME NEW w \in Worker, HashTake(w) PROVE CleanupOfClosed'
  BY <1>7, <1>a DEF HashTake
<1>8. ASSUME NEW w \in Worker, HashPost(w) PROVE CleanupOfClosed'
  <2>1. PICK c \in hashing[w] : jobs' = Append(jobs, HashedJob(c, w))
    BY <1>8 DEF HashPost, HashedJob
  <2>2. HashedJob(c, w) \in Job /\ HashedJob(c, w).kind # "cleanup"
    BY JobTypes DEF TypeOK, HashedJob
  <2> QED BY <1>8, <1>b, <2>1, <2>2 DEF HashPost
<1>9. CASE UNCHANGED vars
  BY <1>9, <1>a DEF vars
<1> QED BY <1>1, <1>2, <1>3, <1>4, <1>5, <1>6, <1>7, <1>8, <1>9 DEF Next, TakeJob, HashStep

(* Between jobs nothing is deferred but for an outstanding request. *)
LEMMA NothingDue ==
    ASSUME NEW c, DrainDue(c), calls = <<>>, ~credential[c]
    PROVE  deferred[c] = <<>>
<1>1. Range(calls) = {}
  <2>1. DOMAIN <<>> = {}
    BY SMT
  <2> QED BY <2>1 DEF Range
<1> QED BY <1>1 DEF DrainDue

LEMMA NextDrains == TypeOK /\ (\A c \in Conn : DrainDue(c)) /\ [Next]_vars => \A c \in Conn : DrainDue(c)'
<1> SUFFICES ASSUME TypeOK, \A c \in Conn : DrainDue(c), [Next]_vars, NEW x \in Conn PROVE DrainDue(x)'
  OBVIOUS
<1>0. /\ calls \in Seq(Call) /\ deferred \in [Conn -> Seq(Nat)] /\ credential \in [Conn -> BOOLEAN]
      /\ DrainDue(x)
  BY DEF TypeOK
<1>a. ASSUME deferred' = deferred, credential' = credential, calls' = calls PROVE DrainDue(x)'
  BY <1>0, <1>a DEF DrainDue
<1>b. ASSUME deferred'[x] = deferred[x] \/ deferred'[x] = <<>>, credential'[x] = credential[x], calls = <<>>
      PROVE  DrainDue(x)'
  BY <1>0, <1>b, NothingDue DEF DrainDue
<1>c. ASSUME NEW call, In(call), call # "drain", Range(Tail(calls)) \subseteq Range(calls'),
             deferred'[x] = deferred[x], credential'[x] = credential[x]
      PROVE  DrainDue(x)'
  <2>1. Range(calls) = {Inner} \cup Range(Tail(calls))
    BY <1>0, <1>c, InnerCall, RangeTail DEF Inner
  <2>2. Inner # Drain(x)
    BY <1>c DEF In, Drain
  <2> QED BY <1>0, <1>c, <2>1, <2>2 DEF DrainDue
<1>d. ASSUME NEW c \in Conn, NEW posted, NEW rest \in Seq(Call), Finish(c, posted, rest), deferred' = deferred,
             Drain(x) \in Range(calls) => Drain(x) \in Range(rest)
      PROVE  DrainDue(x)'
  <2>1. /\ credential' = [credential EXCEPT ![c] = FALSE]
        /\ calls' = <<Drain(c)>> \o rest
    BY <1>d DEF Finish
  <2>2. Range(calls') = {Drain(c)} \cup Range(rest)
    BY <2>1, CallTypes, RangePush
  <2>3. x # c => credential'[x] = credential[x]
    BY <1>0, <2>1
  <2> QED BY <1>0, <1>d, <2>2, <2>3 DEF DrainDue
<1>1. ASSUME NEW c \in Conn, OnMessage(c) \/ CloseConnection(c) PROVE DrainDue(x)'
  BY <1>1, <1>a DEF OnMessage, CloseConnection, app
<1>2. ASSUME PumpTimer \/ RunPost PROVE DrainDue(x)'
  BY <1>2, <1>a DEF PumpTimer, RunPost, app
<1>3. ASSUME TakeMessage PROVE DrainDue(x)'
  <2> PICK c, n, rest : c = Head(jobs).conn /\ n = Head(jobs).number /\ rest = <<>>
    OBVIOUS
  <2>1. calls = <<>> /\ DispatchMessage(c, n, rest)
    BY <1>3 DEF TakeMessage, Takes
  <2>2. CASE Deferred(c, n, rest)
    <3>1. /\ credential' = credential /\ credential[c]
          /\ x # c => deferred'[x] = deferred[x]
      BY <1>0, <2>2 DEF Deferred
    <3> QED BY <1>b, <2>1, <3>1 DEF DrainDue
  <2>3. CASE (Dropped(c, n, rest) \/ ProcessMessage(c, n, rest)) /\ deferred' = deferred
    <3>1. ~credential'[x] => credential'[x] = credential[x]
      BY <1>0, <2>3 DEF Dropped, ProcessMessage, Handled, Submitted
    <3> QED BY <1>b, <2>1, <2>3, <3>1 DEF DrainDue
  <2> QED BY <2>1, <2>2, <2>3 DEF DispatchMessage
<1>4. ASSUME Cleanup PROVE DrainDue(x)'
  <2>1. /\ calls = <<>> /\ credential' = credential
        /\ deferred' = [deferred EXCEPT ![Head(jobs).conn] = <<>>]
    BY <1>4 DEF Cleanup, Takes
  <2>2. deferred'[x] = deferred[x] \/ deferred'[x] = <<>>
    BY <1>0, <2>1
  <2> QED BY <1>b, <2>1, <2>2
<1>5. ASSUME TakeHashed PROVE DrainDue(x)'
  <2> PICK c, rest : c = Head(jobs).conn /\ rest = <<Prune>>
    OBVIOUS
  <2>1. c \in Conn /\ rest \in Seq(Call)
    <3>1. Prune \in Call
      BY CallTypes
    <3>2. <<Prune>> \in Seq(Call)
      BY <3>1, SMT
    <3> QED BY <1>5, <3>2, HeadJob, JobTypes DEF TakeHashed
  <2>2. PICK posted : Finish(c, posted, rest)
    BY <1>5 DEF TakeHashed
  <2>3. Range(calls) = {}
    <3>1. DOMAIN <<>> = {}
      BY SMT
    <3> QED BY <1>5, <3>1 DEF TakeHashed, Takes, Range
  <2>4. deferred' = deferred
    BY <1>5 DEF TakeHashed
  <2> QED BY <1>d, <2>1, <2>2, <2>3, <2>4
<1>6. ASSUME TakePump PROVE DrainDue(x)'
  BY <1>6, <1>b DEF TakePump, Takes, app
<1>7. ASSUME DrainNext PROVE DrainDue(x)'
  <2> PICK c, n : c = Inner.conn /\ n = Head(deferred[Inner.conn])
    OBVIOUS
  <2>1. c \in Conn
    BY <1>7, InnerCall, CallTypes DEF DrainNext
  <2>2. /\ Dropped(c, n, calls) \/ ProcessMessage(c, n, calls)
        /\ deferred[c] # <<>> /\ deferred' = [deferred EXCEPT ![c] = Tail(@)]
    BY <1>7 DEF DrainNext
  <2>3. Range(calls) \subseteq Range(calls')
    <3>1. CASE calls' = calls
      BY <3>1
    <3>2. CASE calls' = <<Prune, Dispatched(c)>> \o calls
      <4>1. Prune \in Call /\ Dispatched(c) \in Call
        BY <2>1, CallTypes
      <4> PICK u : u = <<Prune, Dispatched(c)>>
        OBVIOUS
      <4>2. u \in Seq(Call)
        BY <4>1, SMT
      <4>3. Range(u \o calls) = Range(u) \cup Range(calls)
        BY <1>0, <4>2, RangeConcat, ZenonT(40)
      <4> QED BY <3>2, <4>3
    <3> QED BY <2>2, <3>1, <3>2 DEF Dropped, ProcessMessage, Handled, Submitted
  <2>4. ~credential'[x] => ~credential[x]
    BY <1>0, <2>2 DEF Dropped, ProcessMessage, Handled, Submitted
  <2>5. deferred'[x] # <<>> => deferred[x] # <<>>
    BY <1>0, <2>2
  <2> QED BY <1>0, <2>3, <2>4, <2>5 DEF DrainDue
<1>8. ASSUME DrainEnd PROVE DrainDue(x)'
  <2>1. /\ In("drain") /\ calls' = Tail(calls) /\ deferred' = deferred /\ credential' = credential
        /\ credential[Inner.conn] \/ deferred[Inner.conn] = <<>>
    BY <1>8 DEF DrainEnd, app
  <2>2. Range(calls) = {Inner} \cup Range(calls')
    BY <1>0, <2>1, InnerCall, RangeTail DEF Inner
  <2>3. Inner = Drain(x) => Inner.conn = x
    BY DEF Drain
  <2> QED BY <1>0, <2>1, <2>2, <2>3 DEF DrainDue
<1>9. ASSUME Return PROVE DrainDue(x)'
  BY <1>9, <1>c DEF Return
<1>10. ASSUME PumpScan PROVE DrainDue(x)'
  BY <1>10, <1>c DEF PumpScan, app
<1>11. ASSUME Pumped PROVE DrainDue(x)'
  BY <1>11, <1>c DEF Pumped, app
<1>12. ASSUME NEW expired \in SUBSET Conn, PumpPrune(expired) PROVE DrainDue(x)'
  <2>1. /\ In("prune") /\ deferred' = deferred /\ credential' = credential
        /\ calls' = <<[call |-> "pump", expired |-> expired]>> \o Tail(calls)
    BY <1>12 DEF PumpPrune, app
  <2>2. Tail(calls) \in Seq(Call) /\ [call |-> "pump", expired |-> expired] \in Call
    BY <2>1, InnerCall, CallTypes
  <2>3. Range(Tail(calls)) \subseteq Range(calls')
    BY <2>1, <2>2, RangePush
  <2> QED BY <1>c, <2>1, <2>3
<1>13. ASSUME NEW c \in Conn, PumpExpire(c) PROVE DrainDue(x)'
  <2> PICK k, rest : k = [Inner EXCEPT !.expired = @ \ {c}] /\ rest = <<k>> \o Tail(calls)
    OBVIOUS
  <2>1. In("pump") /\ Finish(c, net, rest) /\ deferred' = deferred
    BY <1>13 DEF PumpExpire
  <2>2. Inner \in Call /\ Inner.call = "pump" /\ Tail(calls) \in Seq(Call)
    BY <2>1, InnerCall
  <2>3. k \in Call
    <3>1. Inner = [call |-> "pump", expired |-> Inner.expired] /\ Inner.expired \in SUBSET Conn
      BY <2>2, CallTypes
    <3> PICK e : e = Inner.expired
      OBVIOUS
    <3>2. Inner = [call |-> "pump", expired |-> e] /\ e \in SUBSET Conn
      BY <3>1
    <3>3. k = [[call |-> "pump", expired |-> e] EXCEPT !.expired = @ \ {c}]
      BY <3>2
    <3>4. k = [call |-> "pump", expired |-> e \ {c}]
      BY ONLY <3>3
    <3> QED BY <3>2, <3>4, CallTypes
  <2>4. rest \in Seq(Call)
    BY <2>2, <2>3, SMT
  <2> PICK t : t = Tail(calls)
    OBVIOUS
  <2>5. Range(rest) = {k} \cup Range(t)
    BY ONLY <2>2, <2>3, rest = <<k>> \o Tail(calls), t = Tail(calls), RangePush
  <2>6. Range(calls) = {Inner} \cup Range(t)
    BY <1>0, <2>1, InnerCall, RangeTail DEF Inner
  <2>7. Inner # Drain(x)
    BY <2>2 DEF Drain
  <2> QED BY <1>d, <2>1, <2>4, <2>5, <2>6, <2>7
<1>14. ASSUME NEW w \in Worker, HashStep(w) PROVE DrainDue(x)'
  BY <1>14, <1>a DEF HashStep, HashTake, HashPost, app
<1>15. CASE UNCHANGED vars
  BY <1>15, <1>a DEF vars, app
<1> QED BY <1>1, <1>2, <1>3, <1>4, <1>5, <1>6, <1>7, <1>8, <1>9, <1>10, <1>11, <1>12, <1>13, <1>14,
           <1>15 DEF Next, TakeJob, CallStep

(* What happens to the line of a connection that is closed, or not touched. *)
LEMMA LineCut ==
    ASSUME NEW c, NEW q, NEW d, NEW p, NEW r, InLine(c, q, d, p, r)
    PROVE  InLine(c, q, <<>>, p, r)
<1>1. DOMAIN <<>> = {}
  BY SMT
<1> QED BY <1>1 DEF InLine

LEMMA LineLater ==
    ASSUME NEW c \in Conn, NEW q \in Seq(Job), NEW d \in Seq(Nat), NEW p \in Nat, NEW r \in Nat,
           InLine(c, q, d, p, r)
    PROVE  InLine(c, q, d, p, r + 1)
<1>1. \A m \in Nat : m <= r => m <= r + 1
  BY ONLY r \in Nat, SMT
<1>2. \A i \in DOMAIN d : d[i] \in Nat
  BY SMT
<1>3. \A i \in MessagesIn(q, c) : q[i].number \in Nat
  BY MessagesTypes
<1> PICK s : s = r + 1
  OBVIOUS
<1>4. InLine(c, q, d, p, s)
  BY <1>1, <1>2, <1>3 DEF InLine
<1> QED BY <1>4

LEMMA LineTailOther ==
    ASSUME NEW c \in Conn, NEW q \in Seq(Job), q # <<>>, NEW d \in Seq(Nat), NEW p \in Nat, NEW r \in Nat,
           InLine(c, q, d, p, r), ~(Head(q).kind = "message" /\ Head(q).conn = c)
    PROVE  /\ InLine(c, Tail(q), d, p, r)
           /\ NoneLost(c, q, d, p, r) => NoneLost(c, Tail(q), d, p, r)
<1>1. InLine(c, Tail(q), d, p, r) /\ \A k : InQueue(c, q, k) => InQueue(c, Tail(q), k)
  BY LineTail
<1> QED BY <1>1 DEF NoneLost

LEMMA LineTypes ==
    ASSUME TypeOK, NEW c \in Conn
    PROVE  /\ jobs \in Seq(Job) /\ deferred[c] \in Seq(Nat)
           /\ processed[c] \in Nat /\ received[c] \in Nat
  BY DEF TypeOK

LEMMA LineFrame ==
    ASSUME NEW c, LineKept(c),
           deferred'[c] = deferred[c], processed'[c] = processed[c], received'[c] = received[c],
           alive'[c] /\ c \notin shed' => alive[c] /\ c \notin shed,
           InLine(c, jobs, deferred[c], processed[c], received[c])
                => InLine(c, jobs', deferred[c], processed[c], received[c]),
           NoneLost(c, jobs, deferred[c], processed[c], received[c])
                => NoneLost(c, jobs', deferred[c], processed[c], received[c])
    PROVE  LineKept(c)'
<1> PICK d, p, r : d = deferred[c] /\ p = processed[c] /\ r = received[c]
  OBVIOUS
<1>1. InLine(c, jobs', d, p, r) /\ (alive'[c] /\ c \notin shed' => NoneLost(c, jobs', d, p, r))
  BY DEF LineKept
<1> QED BY <1>1 DEF LineKept

LEMMA LineNow ==
    ASSUME NEW c, NEW q, NEW d, NEW p, NEW r,
           InLine(c, q, d, p, r), alive'[c] /\ c \notin shed' => NoneLost(c, q, d, p, r),
           q = jobs', d = deferred'[c], p = processed'[c], r = received'[c]
    PROVE  LineKept(c)'
  BY DEF LineKept

LEMMA LineArrival == ASSUME TypeOK, NEW x \in Conn, LineKept(x), NEW c \in Conn, OnMessage(c) PROVE LineKept(x)'
<1> PICK d, p, r : d = deferred[x] /\ p = processed[x] /\ r = received[x]
  OBVIOUS
<1>0. jobs \in Seq(Job) /\ d \in Seq(Nat) /\ p \in Nat /\ r \in Nat
  BY LineTypes
<1>1. /\ shed' = shed /\ deferred'[x] = d /\ processed'[x] = p
      /\ received'[x] = IF x = c THEN r + 1 ELSE r
  BY DEF OnMessage, TypeOK
<1>2. InLine(x, jobs, d, p, r) /\ (alive[x] /\ x \notin shed => NoneLost(x, jobs, d, p, r))
  BY DEF LineKept
<1>3. CASE pending[c] < MaxPending /\ HasRoom
  <2> PICK j, n : n = received'[c] /\ j = [kind |-> "message", conn |-> c, number |-> n]
    OBVIOUS
  <2>0. n \in Nat /\ (x = c => n = r + 1)
    BY SMTT(40) DEF OnMessage, TypeOK
  <2>1. j \in Job /\ j.kind = "message" /\ j.conn = c /\ j.number = n
    BY <2>0, JobTypes
  <2>2. jobs' = Append(jobs, j) /\ alive' = alive
    BY <1>3 DEF OnMessage
  <2>3. CASE x = c
    <3>1. /\ InLine(x, Append(jobs, j), d, p, r + 1)
          /\ NoneLost(x, jobs, d, p, r) => NoneLost(x, Append(jobs, j), d, p, r + 1)
      BY <1>0, <1>2, <2>0, <2>1, <2>3, LineArrives
    <3> QED BY <1>1, <1>2, <2>2, <2>3, <3>1, LineNow
  <2>4. CASE x # c
    <3>1. /\ InLine(x, Append(jobs, j), d, p, r)
          /\ NoneLost(x, jobs, d, p, r) => NoneLost(x, Append(jobs, j), d, p, r)
      BY <1>0, <1>2, <2>1, <2>4, LineAppend
    <3> QED BY <1>1, <1>2, <2>2, <2>4, <3>1, LineNow
  <2> QED BY <2>3, <2>4
<1>4. CASE ~(pending[c] < MaxPending /\ HasRoom)
  <2>1. Closed({c}, jobs)
    BY <1>4 DEF OnMessage
  <2>2. alive' = [y \in Conn |-> alive[y] /\ y \notin {c}]
    BY <2>1, ClosedEffect
  <2>3. PICK o \in Seq(Job) : jobs' = jobs \o o /\ \A n \in DOMAIN o : o[n].kind = "cleanup"
    BY <2>1, ClosedEffect
  <2>4. /\ InLine(x, jobs \o o, d, p, r)
        /\ NoneLost(x, jobs, d, p, r) => NoneLost(x, jobs \o o, d, p, r)
    BY <1>0, <1>2, <2>3, LineConcat
  <2>5. CASE x = c
    <3>1. ~alive'[x]
      BY <2>2, <2>5
    <3>2. jobs' \in Seq(Job)
      BY <1>0, <2>3, SMT
    <3>3. InLine(x, jobs', d, p, r + 1)
      BY <1>0, <2>3, <2>4, <3>2, LineLater
    <3> QED BY <1>1, <2>5, <3>1, <3>3, LineNow
  <2>6. CASE x # c
    BY <1>1, <1>2, <2>2, <2>3, <2>4, <2>6, LineNow
  <2> QED BY <2>5, <2>6
<1> QED BY <1>3, <1>4

LEMMA AnswerSheds ==
    ASSUME NEW c, NEW hashed, NEW answer \in Answers(c, hashed)
    PROVE  shed \subseteq answer.shed
  BY DEF Answers

(* What the three outcomes of DispatchMessage but deferral do to the line. *)
LEMMA DispatchedLine ==
    ASSUME TypeOK, NEW c \in Conn, NEW n, NEW rest,
           Dropped(c, n, rest) \/ ProcessMessage(c, n, rest)
    PROVE  /\ \/ ~alive[c] /\ processed' = processed
              \/ ~credential[c] /\ processed' = [processed EXCEPT ![c] = n]
           /\ shed \subseteq shed'
<1>1. CASE Dropped(c, n, rest)
  BY <1>1 DEF Dropped
<1>2. CASE ProcessMessage(c, n, rest) /\ Handled(c, n, rest)
  BY <1>2, AnswerSheds DEF ProcessMessage, Handled
<1>3. CASE ProcessMessage(c, n, rest) /\ Submitted(c, n, rest)
  BY <1>3 DEF ProcessMessage, Submitted
<1> QED BY <1>1, <1>2, <1>3 DEF ProcessMessage

LEMMA LineTaken ==
    ASSUME TypeOK, NEW x \in Conn, LineKept(x), DrainDue(x), TakeMessage
    PROVE  /\ LineKept(x)'
           /\ processed'[x] # processed[x] =>
                /\ ~credential[x] /\ processed[x] < processed'[x]
                /\ processed'[x] = processed[x] + 1 \/ x \in shed
<1> PICK c, n, rest : c = Head(jobs).conn /\ n = Head(jobs).number /\ rest = <<>>
  OBVIOUS
<1> PICK d, p, r : d = deferred[x] /\ p = processed[x] /\ r = received[x]
  OBVIOUS
<1>0. /\ jobs \in Seq(Job) /\ d \in Seq(Nat) /\ p \in Nat /\ r \in Nat
      /\ jobs # <<>> /\ jobs' = Tail(jobs) /\ calls = <<>>
      /\ Head(jobs).kind = "message" /\ c \in Conn /\ n \in Nat
  BY LineTypes, HeadJob, JobTypes DEF TakeMessage
<1>1. DispatchMessage(c, n, rest) /\ alive' = alive /\ received'[x] = r
  BY DEF TakeMessage, network
<1>2. InLine(x, jobs, d, p, r) /\ (alive[x] /\ x \notin shed => NoneLost(x, jobs, d, p, r))
  BY DEF LineKept
<1>3. shed \subseteq shed'
  <2>1. CASE Deferred(c, n, rest)
    BY <2>1 DEF Deferred
  <2>2. CASE Dropped(c, n, rest) \/ ProcessMessage(c, n, rest)
    BY <1>0, <2>2, DispatchedLine
  <2> QED BY <1>1, <2>1, <2>2 DEF DispatchMessage
<1>4. CASE x # c
  <2>1. deferred'[x] = d /\ processed'[x] = p
    <3>1. CASE Deferred(c, n, rest)
      BY <1>4, <3>1 DEF Deferred, TypeOK
    <3>2. CASE (Dropped(c, n, rest) \/ ProcessMessage(c, n, rest)) /\ deferred' = deferred
      BY <1>0, <1>4, <3>2, DispatchedLine DEF TypeOK
    <3> QED BY <1>1, <3>1, <3>2 DEF DispatchMessage
  <2>2. /\ InLine(x, Tail(jobs), d, p, r)
        /\ NoneLost(x, jobs, d, p, r) => NoneLost(x, Tail(jobs), d, p, r)
    BY <1>0, <1>2, <1>4, LineTailOther
  <2> QED BY <1>0, <1>1, <1>2, <1>3, <2>1, <2>2, LineNow
<1>5. CASE x = c /\ Deferred(c, n, rest)
  <2>1. alive[x] /\ processed'[x] = p
    BY <1>5 DEF Deferred
  <2>2. CASE deferred'[x] = Append(d, n)
    <3>1. /\ InLine(x, Tail(jobs), Append(d, n), p, r)
          /\ NoneLost(x, jobs, d, p, r) => NoneLost(x, Tail(jobs), Append(d, n), p, r)
      BY <1>0, <1>2, <1>5, LineDeferred
    <3> QED BY <1>0, <1>1, <1>2, <1>3, <2>1, <2>2, <3>1, LineNow
  <2>3. CASE deferred'[x] = d /\ x \in shed'
    <3>1. InLine(x, Tail(jobs), d, p, r)
      BY <1>0, <1>2, LineTail
    <3> QED BY <1>0, <1>1, <2>1, <2>3, <3>1, LineNow
  <2> QED BY <1>5, <2>1, <2>2, <2>3 DEF Deferred, TypeOK
<1>6. CASE x = c /\ (Dropped(c, n, rest) \/ ProcessMessage(c, n, rest)) /\ deferred' = deferred
  <2>1. InLine(x, Tail(jobs), d, p, r)
    BY <1>0, <1>2, LineTail
  <2>2. \/ ~alive[x] /\ processed' = processed
        \/ ~credential[x] /\ processed' = [processed EXCEPT ![x] = n]
    BY <1>0, <1>6, DispatchedLine
  <2>3. CASE ~alive[x] /\ processed' = processed
    BY <1>0, <1>1, <1>6, <2>1, <2>3, LineNow
  <2>4. CASE ~credential[x] /\ processed' = [processed EXCEPT ![x] = n]
    <3>1. d = <<>> /\ processed'[x] = n
      BY <1>0, <2>4, NothingDue DEF TypeOK
    <3>2. InLine(x, jobs, <<>>, p, r)
      BY <1>2, <3>1
    <3>3. /\ p < n
          /\ InLine(x, Tail(jobs), <<>>, n, r)
          /\ NoneLost(x, jobs, <<>>, p, r) => n = p + 1 /\ NoneLost(x, Tail(jobs), <<>>, n, r)
      BY <1>0, <1>6, <3>2, LineProcessed
    <3>4. LineKept(x)'
      BY <1>0, <1>1, <1>2, <1>3, <1>6, <3>1, <3>3, LineNow
    <3>5. alive[x]
      <4>1. p # n
        BY ONLY <1>0, <3>3, SMT
      <4> QED BY <1>6, <3>1, <4>1 DEF Dropped, ProcessMessage
    <3> QED BY <1>2, <2>4, <3>1, <3>3, <3>4, <3>5
  <2> QED BY <2>2, <2>3, <2>4
<1> QED BY <1>1, <1>4, <1>5, <1>6 DEF DispatchMessage

LEMMA LineDrainNext ==
    ASSUME TypeOK, NEW x \in Conn, LineKept(x), DrainNext
    PROVE  /\ LineKept(x)'
           /\ processed'[x] # processed[x] =>
                /\ ~credential[x] /\ processed[x] < processed'[x]
                /\ processed'[x] = processed[x] + 1 \/ x \in shed
<1> PICK c, n : c = Inner.conn /\ n = Head(deferred[Inner.conn])
  OBVIOUS
<1> PICK d, p, r : d = deferred[x] /\ p = processed[x] /\ r = received[x]
  OBVIOUS
<1>0. /\ jobs \in Seq(Job) /\ d \in Seq(Nat) /\ p \in Nat /\ r \in Nat /\ c \in Conn
  BY LineTypes, InnerCall, CallTypes DEF DrainNext
<1>1. /\ Dropped(c, n, calls) \/ ProcessMessage(c, n, calls)
      /\ deferred[c] # <<>> /\ deferred' = [deferred EXCEPT ![c] = Tail(@)]
      /\ jobs' = jobs /\ alive' = alive /\ received'[x] = r
  BY DEF DrainNext, network
<1>2. InLine(x, jobs, d, p, r) /\ (alive[x] /\ x \notin shed => NoneLost(x, jobs, d, p, r))
  BY DEF LineKept
<1>3. /\ shed \subseteq shed'
      /\ \/ ~alive[c] /\ processed' = processed
         \/ ~credential[c] /\ processed' = [processed EXCEPT ![c] = n]
  BY <1>0, <1>1, DispatchedLine
<1>4. CASE x # c
  <2>1. deferred'[x] = d /\ processed'[x] = p
    BY <1>0, <1>1, <1>3, <1>4 DEF TypeOK
  <2> QED BY <1>1, <1>2, <1>3, <2>1, LineNow
<1>5. CASE x = c
  <2>1. deferred'[x] = Tail(d) /\ d # <<>> /\ n = Head(d)
    BY <1>0, <1>1, <1>5 DEF TypeOK
  <2>2. n \in Nat
    BY <1>0, <2>1, SeqTail
  <2>3. /\ p < n
        /\ InLine(x, jobs, Tail(d), n, r)
        /\ InLine(x, jobs, Tail(d), p, r)
        /\ NoneLost(x, jobs, d, p, r) => n = p + 1 /\ NoneLost(x, jobs, Tail(d), n, r)
    BY <1>0, <1>2, <2>1, <2>2, LineDrained, SMTT(40)
  <2>4. CASE ~alive[x] /\ processed' = processed
    BY <1>1, <2>1, <2>3, <2>4, LineNow
  <2>5. CASE ~credential[x] /\ processed' = [processed EXCEPT ![x] = n]
    <3>1. processed'[x] = n
      BY <2>5 DEF TypeOK
    <3>2. LineKept(x)'
      BY <1>1, <1>2, <1>3, <2>1, <2>3, <3>1, LineNow
    <3>3. alive[x]
      <4>1. p # n
        BY ONLY <1>0, <2>2, <2>3, SMT
      <4> QED BY <1>1, <1>5, <3>1, <4>1 DEF Dropped, ProcessMessage
    <3> QED BY <1>2, <2>3, <2>5, <3>1, <3>2, <3>3
  <2> QED BY <1>3, <1>5, <2>4, <2>5
<1> QED BY <1>4, <1>5

LEMMA NextLines ==
    ASSUME TypeOK, \A c \in Conn : DrainDue(c), CleanupOfClosed, \A c \in Conn : LineKept(c),
           [Next]_vars, NEW x \in Conn
    PROVE  /\ LineKept(x)'
           /\ processed'[x] # processed[x] =>
                /\ TakeMessage \/ DrainNext
                /\ ~credential[x] /\ processed[x] < processed'[x]
                /\ processed'[x] = processed[x] + 1 \/ x \in shed
<1> DEFINE Goal == /\ LineKept(x)'
                   /\ processed'[x] # processed[x] =>
                        /\ TakeMessage \/ DrainNext
                        /\ ~credential[x] /\ processed[x] < processed'[x]
                        /\ processed'[x] = processed[x] + 1 \/ x \in shed
<1> PICK d, p, r : d = deferred[x] /\ p = processed[x] /\ r = received[x]
  OBVIOUS
<1>0. /\ jobs \in Seq(Job) /\ d \in Seq(Nat) /\ p \in Nat /\ r \in Nat
      /\ LineKept(x) /\ DrainDue(x)
  BY LineTypes
<1>z. InLine(x, jobs, d, p, r) /\ (alive[x] /\ x \notin shed => NoneLost(x, jobs, d, p, r))
  BY <1>0 DEF LineKept
<1>a. ASSUME jobs' = jobs, deferred' = deferred, processed' = processed, received' = received,
             alive'[x] /\ x \notin shed' => alive[x] /\ x \notin shed
      PROVE  Goal
  BY <1>z, <1>a, LineNow
<1>b. ASSUME NEW e \in Job, e.kind # "message", jobs' = Append(jobs, e), deferred' = deferred,
             processed' = processed, received' = received, alive' = alive, shed' = shed
      PROVE  Goal
  <2>1. /\ InLine(x, Append(jobs, e), d, p, r)
        /\ NoneLost(x, jobs, d, p, r) => NoneLost(x, Append(jobs, e), d, p, r)
    BY <1>0, <1>b, <1>z, LineAppend
  <2> QED BY <1>b, <1>z, <2>1, LineNow
<1>c. ASSUME NEW kind, Takes(kind), kind # "message", deferred' = deferred,
             processed' = processed, received' = received, alive' = alive, shed \subseteq shed'
      PROVE  Goal
  <2>1. jobs # <<>> /\ Head(jobs).kind # "message" /\ jobs' = Tail(jobs)
    BY <1>c, HeadJob
  <2>2. /\ InLine(x, Tail(jobs), d, p, r)
        /\ NoneLost(x, jobs, d, p, r) => NoneLost(x, Tail(jobs), d, p, r)
    BY <1>0, <1>z, <2>1, LineTailOther
  <2> QED BY <1>c, <1>z, <2>1, <2>2, LineNow
<1>d. ASSUME NEW cs \in SUBSET Conn, Closed(cs, jobs), deferred' = deferred,
             processed' = processed, received' = received, shed' = shed \/ shed = cs
      PROVE  Goal
  <2>1. alive' = [c \in Conn |-> alive[c] /\ c \notin cs]
    BY <1>d, ClosedEffect
  <2>2. PICK o \in Seq(Job) : jobs' = jobs \o o /\ \A n \in DOMAIN o : o[n].kind = "cleanup"
    BY <1>d, ClosedEffect
  <2>3. /\ InLine(x, jobs \o o, d, p, r)
        /\ NoneLost(x, jobs, d, p, r) => NoneLost(x, jobs \o o, d, p, r)
    BY <1>0, <1>z, <2>2, LineConcat
  <2> QED BY <1>d, <1>z, <2>1, <2>2, <2>3, LineNow
<1>1. ASSUME NEW c \in Conn, OnMessage(c) PROVE Goal
  BY <1>0, <1>1, LineArrival DEF OnMessage
<1>2. ASSUME NEW c \in Conn, CloseConnection(c) PROVE Goal
  BY <1>2, <1>d DEF CloseConnection, network, app
<1>3. ASSUME PumpTimer PROVE Goal
  <2>1. [kind |-> "pump"] \in Job /\ [kind |-> "pump"].kind # "message"
    BY JobTypes
  <2> QED BY <1>3, <1>b, <2>1 DEF PumpTimer, app
<1>4. ASSUME RunPost PROVE Goal
  <2>1. shed \in SUBSET Conn /\ deferred' = deferred /\ processed' = processed /\ received' = received
    BY <1>4 DEF RunPost, TypeOK
  <2>2. CASE Closed(shed, jobs)
    BY <1>d, <2>1, <2>2
  <2>3. CASE jobs' = jobs /\ alive' = alive /\ shed' = shed
    BY <1>a, <2>1, <2>3
  <2> QED BY <1>4, <2>2, <2>3 DEF RunPost
<1>5. ASSUME TakeMessage PROVE Goal
  BY <1>0, <1>5, LineTaken
<1>6. ASSUME Cleanup PROVE Goal
  <2> PICK c : c = Head(jobs).conn
    OBVIOUS
  <2>1. /\ jobs # <<>> /\ Head(jobs).kind = "cleanup" /\ jobs' = Tail(jobs) /\ c \in Conn
    BY <1>6, HeadJob, JobTypes DEF Cleanup
  <2>2. /\ deferred' = [deferred EXCEPT ![c] = <<>>] /\ alive' = alive /\ shed' = shed
        /\ processed' = processed /\ received' = received
    BY <1>6 DEF Cleanup, network
  <2>3. ~alive[c]
    <3>1. Head(jobs) \in Range(jobs)
      BY <1>0, <2>1, RangeTail
    <3> QED BY <2>1, <3>1 DEF CleanupOfClosed
  <2>4. /\ InLine(x, Tail(jobs), d, p, r)
        /\ NoneLost(x, jobs, d, p, r) => NoneLost(x, Tail(jobs), d, p, r)
    BY <1>0, <1>z, <2>1, LineTailOther
  <2>5. InLine(x, Tail(jobs), <<>>, p, r)
    BY <2>4, LineCut
  <2>6. deferred'[x] = IF x = c THEN <<>> ELSE d
    BY <2>1, <2>2 DEF TypeOK
  <2>7. CASE x = c
    BY <2>1, <2>2, <2>3, <2>5, <2>6, <2>7, LineNow
  <2>8. CASE x # c
    BY <1>z, <2>1, <2>2, <2>4, <2>6, <2>8, LineNow
  <2> QED BY <2>7, <2>8
<1>7. ASSUME TakeHashed PROVE Goal
  <2>1. shed \subseteq shed'
    BY <1>7, AnswerSheds DEF TakeHashed
  <2> QED BY <1>7, <1>c, <2>1 DEF TakeHashed, network
<1>8. ASSUME TakePump PROVE Goal
  BY <1>8, <1>c DEF TakePump, network, app
<1>9. ASSUME DrainNext PROVE Goal
  BY <1>0, <1>9, LineDrainNext
<1>10. ASSUME DrainEnd \/ Return \/ PumpScan \/ Pumped PROVE Goal
  BY <1>10, <1>a DEF DrainEnd, Return, PumpScan, Pumped, network, app
<1>11. ASSUME NEW expired \in SUBSET Conn, PumpPrune(expired) PROVE Goal
  BY <1>11, <1>a DEF PumpPrune, network, app
<1>12. ASSUME NEW c \in Conn, PumpExpire(c) PROVE Goal
  BY <1>12, <1>a DEF PumpExpire, network
<1>13. ASSUME NEW w \in Worker, HashTake(w) PROVE Goal
  BY <1>13, <1>a DEF HashTake, network, app
<1>14. ASSUME NEW w \in Worker, HashPost(w) PROVE Goal
  <2>1. PICK c \in hashing[w] : jobs' = Append(jobs, HashedJob(c, w))
    BY <1>14 DEF HashPost, HashedJob
  <2>2. HashedJob(c, w) \in Job /\ HashedJob(c, w).kind # "message"
    BY JobTypes DEF TypeOK, HashedJob
  <2> QED BY <1>14, <1>b, <2>1, <2>2 DEF HashPost, network, app
<1>15. ASSUME UNCHANGED vars PROVE Goal
  BY <1>15, <1>a DEF vars, network, app
<1> HIDE DEF Goal
<1>16. Goal
  BY <1>1, <1>2, <1>3, <1>4, <1>5, <1>6, <1>7, <1>8, <1>9, <1>10, <1>11, <1>12, <1>13, <1>14, <1>15
     DEF Next, TakeJob, CallStep, HashStep
<1> QED BY <1>16 DEF Goal

OrderInv == PipeInv /\ (\A c \in Conn : LineKept(c) /\ DrainDue(c)) /\ CleanupOfClosed

LEMMA OrderInductive == Spec => []OrderInv
<1>1. Init => OrderInv
  <2> SUFFICES ASSUME Init PROVE (\A c \in Conn : LineKept(c) /\ DrainDue(c)) /\ CleanupOfClosed
    BY InitPipe DEF OrderInv
  <2>1. DOMAIN <<>> = {}
    BY SMT
  <2>2. Range(jobs) = {} /\ \A c \in Conn : MessagesIn(jobs, c) = {}
    BY <2>1 DEF Init, Range, MessagesIn
  <2>3. \A c \in Conn : deferred[c] = <<>> /\ processed[c] = 0 /\ received[c] = 0
    BY DEF Init
  <2>4. 0 <= 0 /\ \A k \in Nat : ~(0 < k /\ k <= 0)
    BY SMT
  <2>5. \A c \in Conn : InLine(c, jobs, <<>>, 0, 0) /\ NoneLost(c, jobs, <<>>, 0, 0)
    BY <2>1, <2>2, <2>4 DEF InLine, NoneLost
  <2> QED BY <2>2, <2>3, <2>5 DEF LineKept, DrainDue, CleanupOfClosed
<1>2. OrderInv /\ [Next]_vars => OrderInv'
  <2> SUFFICES ASSUME OrderInv, [Next]_vars PROVE OrderInv'
    OBVIOUS
  <2>1. PipeInv /\ TypeOK /\ (\A c \in Conn : LineKept(c)) /\ (\A c \in Conn : DrainDue(c)) /\ CleanupOfClosed
    BY DEF OrderInv, PipeInv
  <2>2. PipeInv'
    BY <2>1, NextPipe
  <2>3. \A c \in Conn : LineKept(c)'
    BY <2>1, NextLines
  <2>4. \A c \in Conn : DrainDue(c)'
    BY <2>1, NextDrains
  <2>5. CleanupOfClosed'
    BY <2>1, NextCleanups
  <2> QED BY <2>2, <2>3, <2>4, <2>5 DEF OrderInv
<1> QED BY <1>1, <1>2, PTL DEF Spec

(* DispatchMessage and the drain of FinishCredentialRequest process the      *)
(* messages of a connection one by one in the order of their arrival, none   *)
(* while its request waits or is hashed, whatever else runs in between; one  *)
(* is skipped only on a connection shed for its backlog.                     *)
THEOREM OrderKept == Spec => InOrder
<1>1. OrderInv /\ [Next]_vars =>
        [\A c \in Conn : processed'[c] # processed[c] =>
              /\ processed'[c] > processed[c]
              /\ processed'[c] = processed[c] + 1 \/ c \in shed
              /\ c \notin waiting
              /\ \A w \in Worker : c \notin slot[w]]_vars
  <2> SUFFICES ASSUME OrderInv, [Next]_vars, NEW c \in Conn, processed'[c] # processed[c]
               PROVE  /\ processed'[c] > processed[c]
                      /\ processed'[c] = processed[c] + 1 \/ c \in shed
                      /\ c \notin waiting
                      /\ \A w \in Worker : c \notin slot[w]
    OBVIOUS
  <2>1. /\ TypeOK /\ OneRequest /\ CleanupOfClosed
        /\ (\A x \in Conn : LineKept(x)) /\ (\A x \in Conn : DrainDue(x))
    BY DEF OrderInv, PipeInv
  <2>2. /\ ~credential[c] /\ processed[c] < processed'[c]
        /\ processed'[c] = processed[c] + 1 \/ c \in shed
    BY <2>1, NextLines
  <2>3. processed'[c] > processed[c]
    BY <2>2, SMT
  <2>4. c \notin waiting /\ \A w \in Worker : c \notin slot[w]
    BY <2>1, <2>2 DEF OneRequest
  <2> QED BY <2>2, <2>3, <2>4
<1> QED BY <1>1, OrderInductive, PTL DEF Spec, InOrder

-----------------------------------------------------------------------------
(* CredentialService.  The pumps of a stack, and whom they call back. *)
PumpsIn(s) == {n \in DOMAIN s : s[n].call = "pump"}
BackIn(s) ==
    {c \in Conn : \E n \in PumpsIn(s) :
        c \in s[n].expired \/ \E m \in 1..(n - 1) : s[m] = Drain(c)}

LEMMA PhaseOf ==
    /\ CalledBack = BackIn(calls)
    /\ Phase = (IF PumpsIn(calls) = {} THEN "none" ELSE "expiring")
  BY DEF CalledBack, Phase, PumpPlaces, BackIn, PumpsIn

LEMMA PhaseSame ==
    ASSUME calls' = calls
    PROVE  Phase' = Phase /\ CalledBack' = CalledBack
  BY DEF CalledBack, Phase, PumpPlaces

LEMMA BackQuiet ==
    ASSUME NEW s, PumpsIn(s) = {}
    PROVE  BackIn(s) = {}
  BY DEF BackIn

LEMMA PumpsNone ==
    ASSUME NEW s, NoPump(s)
    PROVE  PumpsIn(s) = {} /\ BackIn(s) = {}
  BY BackQuiet DEF NoPump, PumpsIn, PumpCall

LEMMA PumpsPush ==
    ASSUME NEW s \in Seq(Call), NEW k \in Call, k.call # "pump", PumpsIn(s) = {}
    PROVE  PumpsIn(<<k>> \o s) = {} /\ BackIn(<<k>> \o s) = {}
<1> PICK t : t = <<k>> \o s
  OBVIOUS
<1>1. \A n \in DOMAIN t : (n = 1 /\ t[n] = k) \/ (n - 1 \in DOMAIN s /\ t[n] = s[n - 1])
  BY SMT
<1>2. PumpsIn(t) = {}
  BY <1>1 DEF PumpsIn
<1> QED BY <1>2, BackQuiet

(* Returning from a drain or a dispatch may end a callback, never a pump. *)
LEMMA PumpsTail ==
    ASSUME NEW s \in Seq(Call), s # <<>>, Head(s).call # "pump"
    PROVE  /\ PumpsIn(Tail(s)) = {} <=> PumpsIn(s) = {}
           /\ BackIn(Tail(s)) \subseteq BackIn(s)
<1> PICK t : t = Tail(s)
  OBVIOUS
<1>1. /\ \A n \in DOMAIN s : n \in Nat /\ (n = 1 \/ (n - 1 \in DOMAIN t /\ t[n - 1] = s[n]))
      /\ \A n \in DOMAIN t : n \in Nat /\ n + 1 \in DOMAIN s /\ t[n] = s[n + 1]
      /\ s[1] = Head(s)
  <2>1. /\ Head(s) = s[1] /\ Len(s) \in Nat /\ DOMAIN s = 1..Len(s) /\ DOMAIN t = 1..(Len(s) - 1)
        /\ \A n \in DOMAIN t : n + 1 \in DOMAIN s /\ t[n] = s[n + 1]
    BY SeqTail
  <2>2. ASSUME NEW n \in DOMAIN s, n # 1
        PROVE  n \in Nat /\ n - 1 \in DOMAIN t /\ (n - 1) + 1 = n
    BY ONLY <2>1, <2>2, SMT
  <2>3. \A n \in DOMAIN t : n \in Nat
    BY ONLY <2>1, SMT
  <2>4. ASSUME NEW n \in DOMAIN s, n # 1 PROVE t[n - 1] = s[n]
    <3>1. n - 1 \in DOMAIN t /\ (n - 1) + 1 = n
      BY <2>2, <2>4
    <3>2. t[n - 1] = s[(n - 1) + 1]
      BY <2>1, <3>1
    <3> QED BY <3>1, <3>2
  <2> QED BY <2>1, <2>2, <2>3, <2>4
<1>2. \A n \in PumpsIn(t) : n + 1 \in PumpsIn(s)
  BY <1>1 DEF PumpsIn
<1>3. \A n \in PumpsIn(s) : n - 1 \in PumpsIn(t)
  BY <1>1, SMT DEF PumpsIn
<1>4. ASSUME NEW c \in BackIn(t) PROVE c \in BackIn(s)
  <2>1. c \in Conn
    BY DEF BackIn
  <2>2. PICK n \in PumpsIn(t) : c \in t[n].expired \/ \E m \in 1..(n - 1) : t[m] = Drain(c)
    BY DEF BackIn
  <2>3. n + 1 \in PumpsIn(s) /\ t[n] = s[n + 1] /\ n \in DOMAIN t /\ n \in Nat
    BY <1>1, <1>2 DEF PumpsIn
  <2>4. ASSUME NEW m \in 1..(n - 1), t[m] = Drain(c)
        PROVE  m + 1 \in 1..((n + 1) - 1) /\ s[m + 1] = Drain(c)
    <3>1. m \in DOMAIN t /\ m + 1 \in 1..((n + 1) - 1)
      <4>1. DOMAIN t = 1..(Len(s) - 1) /\ Len(s) \in Nat
        BY SeqTail
      <4> QED BY ONLY <4>1, <2>3, m \in 1..(n - 1), SMT
    <3> QED BY <1>1, <2>4, <3>1
  <2> QED BY <2>1, <2>2, <2>3, <2>4 DEF BackIn
<1>5. PumpsIn(t) = {} <=> PumpsIn(s) = {}
  BY <1>2, <1>3
<1> QED BY <1>4, <1>5

(* A pump calls back whom it expired, and still does while the callback runs. *)
LEMMA PumpsOnTop ==
    ASSUME NEW s \in Seq(Call), NoPump(s), NEW e \in SUBSET Conn
    PROVE  LET k == [call |-> "pump", expired |-> e]
           IN  PumpsIn(<<k>> \o s) = {1} /\ BackIn(<<k>> \o s) = e
<1> PICK k, t : k = [call |-> "pump", expired |-> e] /\ t = <<k>> \o s
  OBVIOUS
<1>1. /\ \A n \in DOMAIN t : n = 1 \/ (n - 1 \in DOMAIN s /\ t[n] = s[n - 1])
      /\ 1 \in DOMAIN t /\ t[1] = k
  BY SMT
<1>2. k.call = "pump" /\ k.expired = e
  OBVIOUS
<1>3. \A n \in DOMAIN s : s[n].call # "pump"
  BY DEF NoPump
<1>4. PumpsIn(t) = {1}
  BY <1>1, <1>2, <1>3 DEF PumpsIn
<1>5. 1..(1 - 1) = {}
  BY SMT
<1>6. BackIn(t) = e
  BY <1>1, <1>2, <1>4, <1>5 DEF BackIn
<1> QED BY <1>4, <1>6

Above(c, e, s) == <<Drain(c)>> \o (<<[call |-> "pump", expired |-> e]>> \o s)

CallsBack(c, e, s) == PumpsIn(Above(c, e, s)) = {2} /\ BackIn(Above(c, e, s)) = e \cup {c}

LEMMA PumpsBelow ==
    ASSUME NEW s \in Seq(Call), NoPump(s), NEW e \in SUBSET Conn, NEW c \in Conn
    PROVE  CallsBack(c, e, s)
<1> PICK k, u, t : /\ k = [call |-> "pump", expired |-> e]
                   /\ u = <<k>> \o s /\ t = <<Drain(c)>> \o u
  OBVIOUS
<1>1. PumpsIn(u) = {1}
  BY PumpsOnTop
<1>2. k \in Call /\ u \in Seq(Call) /\ 1 \in DOMAIN u /\ u[1] = k
  <2>1. k \in Call
    BY CallTypes
  <2> QED BY <2>1, SMT
<1>3. /\ \A n \in DOMAIN t : n = 1 \/ (n \in Nat /\ n - 1 \in DOMAIN u /\ t[n] = u[n - 1])
      /\ 1 \in DOMAIN t /\ t[1] = Drain(c) /\ 2 \in DOMAIN t /\ t[2] = k
  <2>1. Drain(c) \in Call
    BY CallTypes
  <2> QED BY <1>2, <2>1, SMT
<1>4. /\ k.call = "pump" /\ k.expired = e
      /\ \A x \in Conn : Drain(x).call = "drain" /\ Drain(x).conn = x
  BY DEF Drain
<1>5. PumpsIn(t) = {2}
  <2>1. ASSUME NEW n \in PumpsIn(t) PROVE n = 2
    <3>1. n # 1 /\ n \in DOMAIN t /\ t[n].call = "pump"
      BY <1>3, <1>4 DEF PumpsIn
    <3>2. n \in Nat /\ n - 1 \in PumpsIn(u)
      BY <1>3, <3>1 DEF PumpsIn
    <3>3. n - 1 = 1
      BY <1>1, <3>2
    <3> QED BY ONLY <3>2, <3>3, SMT
  <2>2. 2 \in PumpsIn(t)
    BY <1>3, <1>4 DEF PumpsIn
  <2> QED BY <2>1, <2>2
<1>6. 1..(2 - 1) = {1}
  BY SMT
<1>7. \A x \in Conn : Drain(c) = Drain(x) <=> c = x
  BY <1>4
<1>8. ASSUME NEW x \in Conn PROVE x \in BackIn(t) <=> x \in e \/ x = c
  <2>1. x \in BackIn(t) <=> x \in t[2].expired \/ \E m \in 1..(2 - 1) : t[m] = Drain(x)
    BY <1>5 DEF BackIn
  <2>2. (\E m \in 1..(2 - 1) : t[m] = Drain(x)) <=> t[1] = Drain(x)
    BY <1>6
  <2> QED BY <1>3, <1>4, <1>7, <2>1, <2>2
<1>9. BackIn(t) = e \cup {c}
  BY <1>8 DEF BackIn
<1>10. t = Above(c, e, s)
  BY DEF Above
<1> QED BY <1>5, <1>9, <1>10 DEF CallsBack

LEMMA PhaseNext ==
    /\ CalledBack' = BackIn(calls')
    /\ Phase' = (IF PumpsIn(calls') = {} THEN "none" ELSE "expiring")
  BY DEF CalledBack, Phase, PumpPlaces, BackIn, PumpsIn

LEMMA ServiceStutters ==
    ASSUME calls' = calls, alive' = alive, waiting' = waiting, slot' = slot
    PROVE  UNCHANGED Service!vars
  BY PhaseSame DEF Service!vars

LEMMA ServiceCloses ==
    ASSUME TypeOK, NEW cs \in SUBSET Conn, Closed(cs, jobs),
           calls' = calls, waiting' = waiting, slot' = slot
    PROVE  Service!Close(cs)
<1>1. alive' = [c \in Conn |-> alive[c] /\ c \notin cs]
  BY ClosedEffect
<1> QED BY <1>1, PhaseSame DEF Service!Close

(* A message is dispatched between pumps, or drained by the callback of one. *)
LEMMA ServiceSubmits ==
    ASSUME TypeOK, OneRequest, NEW c \in Conn, NEW n, alive[c], ~credential[c],
           Submitted(c, n, calls), slot' = slot, alive' = alive,
           Pumping => c \in CalledBack
    PROVE  Service!Submit(c)
<1>1. /\ waiting' = waiting \cup {c}
      /\ IF Pumping THEN calls' = calls ELSE calls' = <<Prune, Dispatched(c)>> \o calls
  BY DEF Submitted
<1>2. c \notin waiting /\ \A w \in Worker : c \notin slot[w]
  BY DEF OneRequest
<1>3. calls \in Seq(Call) /\ (Pumping <=> PumpsIn(calls) # {})
  <2>1. calls \in Seq(Call)
    BY DEF TypeOK
  <2>2. DOMAIN calls = 1..Len(calls)
    BY <2>1
  <2> QED BY <2>1, <2>2 DEF Pumping, PumpsIn
<1>4. Phase = "none" \/ (Phase = "expiring" /\ c \in CalledBack)
  BY <1>3, PhaseOf
<1>5. Phase' = Phase /\ CalledBack' = CalledBack
  <2>1. CASE Pumping
    BY <1>1, <2>1, PhaseSame
  <2>2. CASE ~Pumping
    <3> PICK s : s = <<Dispatched(c)>> \o calls
      OBVIOUS
    <3>1. /\ Prune \in Call /\ Prune.call # "pump"
          /\ Dispatched(c) \in Call /\ Dispatched(c).call # "pump"
      BY CallTypes DEF Prune, Dispatched
    <3>2. PumpsIn(calls) = {} /\ BackIn(calls) = {}
      BY <1>3, <2>2, BackQuiet
    <3>3. s \in Seq(Call) /\ PumpsIn(s) = {}
      BY <1>3, <3>1, <3>2, SeqPush, PumpsPush
    <3>4. PumpsIn(<<Prune>> \o s) = {} /\ BackIn(<<Prune>> \o s) = {}
      BY <3>1, <3>3, PumpsPush
    <3>5. calls' = <<Prune>> \o s
      BY <1>1, <1>3, <2>2, <3>1, SMT
    <3> QED BY <3>2, <3>4, <3>5, PhaseOf, PhaseNext
  <2> QED BY <2>1, <2>2
<1> QED BY <1>1, <1>2, <1>4, <1>5 DEF Service!Submit

LEMMA ServiceDispatched ==
    ASSUME TypeOK, OneRequest, NEW c \in Conn, NEW n, slot' = slot, alive' = alive,
           Dropped(c, n, calls) \/ Deferred(c, n, calls) \/ ProcessMessage(c, n, calls),
           Pumping => c \in CalledBack
    PROVE  Service!Submit(c) \/ UNCHANGED Service!vars
<1>1. CASE calls' = calls /\ waiting' = waiting
  BY <1>1, ServiceStutters
<1>2. CASE alive[c] /\ ~credential[c] /\ Submitted(c, n, calls)
  BY <1>2, ServiceSubmits
<1> QED BY <1>1, <1>2 DEF Dropped, Deferred, ProcessMessage, Handled

(* A drain above a pump is of a connection the pump called back. *)
LEMMA DrainCalledBack ==
    ASSUME TypeOK, In("drain"), Pumping
    PROVE  Inner.conn \in CalledBack
<1> PICK c : c = Inner.conn
  OBVIOUS
<1>1. /\ calls \in Seq(Call) /\ Inner \in Call /\ Inner.call = "drain" /\ Inner = calls[1]
  BY InnerCall
<1>2. c \in Conn /\ Inner = Drain(c)
  <2>1. c \in Conn
    BY <1>1, CallTypes
  <2>2. Inner = Drain(Inner.conn)
    BY <1>1, SMT DEF Call, Drain
  <2> QED BY <2>1, <2>2
<1>3. PICK n \in 1..Len(calls) : calls[n].call = "pump"
  BY DEF Pumping
<1>4. n # 1
  BY <1>1, <1>3
<1>5. DOMAIN calls = 1..Len(calls) /\ Len(calls) \in Nat
  BY <1>1
<1>6. 1 \in 1..(n - 1)
  BY ONLY <1>3, <1>4, <1>5, SMT
<1>7. n \in PumpPlaces
  BY <1>3, <1>5 DEF PumpPlaces
<1> QED BY <1>1, <1>2, <1>6, <1>7 DEF CalledBack

LEMMA ServiceReturns ==
    ASSUME TypeOK, calls # <<>>, Inner.call # "pump", calls' = Tail(calls),
           alive' = alive, waiting' = waiting, slot' = slot
    PROVE  Service!Returned \/ UNCHANGED Service!vars
<1>1. calls \in Seq(Call)
  BY DEF TypeOK
<1>2. /\ PumpsIn(Tail(calls)) = {} <=> PumpsIn(calls) = {}
      /\ BackIn(Tail(calls)) \subseteq BackIn(calls)
  BY <1>1, PumpsTail DEF Inner
<1>3. Phase' = Phase /\ CalledBack' \in SUBSET CalledBack
  BY <1>2, PhaseOf, PhaseNext
<1>4. CASE PumpsIn(calls) = {}
  <2>1. CalledBack = {}
    BY <1>4, PhaseOf, BackQuiet
  <2> QED BY <1>3, <2>1 DEF Service!vars
<1>5. CASE PumpsIn(calls) # {}
  <2>1. Phase = "expiring"
    BY <1>5, PhaseOf
  <2> QED BY <1>3, <2>1 DEF Service!Returned
<1> QED BY <1>4, <1>5

(* The completion pumps when its callback is over. *)
LEMMA ServiceCompletes ==
    ASSUME TypeOK, \A w \in Worker : WorkerHolds(w), TakeHashed
    PROVE  \E w \in Worker : Service!Complete(w)
<1> PICK c, w : c = Head(jobs).conn /\ w = Head(jobs).worker
  OBVIOUS
<1>1. Head(jobs) \in Job /\ Head(jobs).kind = "hashed" /\ jobs # <<>> /\ calls = <<>>
  BY HeadJob DEF TakeHashed
<1>2. c \in Conn /\ w \in Worker /\ Head(jobs) = HashedJob(c, w)
  BY <1>1, JobTypes
<1>3. slot[w] # {}
  BY <1>1, <1>2, HeadHashed
<1>4. /\ waiting' = waiting /\ alive' = alive
      /\ slot' = [slot EXCEPT ![w] = {}] /\ calls' = <<Drain(c)>> \o <<Prune>>
  BY DEF TakeHashed, Finish
<1>5. PumpsIn(calls) = {} /\ BackIn(calls) = {} /\ <<>> \in Seq(Call)
  <2>1. PumpsIn(<<>>) = {} /\ BackIn(<<>>) = {}
    BY EmptyStack, PumpsNone
  <2> QED BY <1>1, <2>1, SMT
<1>6. PumpsIn(calls') = {} /\ BackIn(calls') = {}
  <2> PICK k, t, u : k = Prune /\ t = <<k>> /\ u = <<>>
    OBVIOUS
  <2>1. /\ Drain(c) \in Call /\ Drain(c).call # "pump" /\ k \in Call /\ k.call # "pump"
    BY <1>2, CallTypes DEF Drain, Prune
  <2>2. t = <<k>> \o u /\ t \in Seq(Call) /\ u \in Seq(Call) /\ PumpsIn(u) = {}
    BY <1>1, <1>5, <2>1, SMT
  <2>3. PumpsIn(t) = {}
    BY <2>1, <2>2, PumpsPush
  <2>4. PumpsIn(<<Drain(c)>> \o t) = {} /\ BackIn(<<Drain(c)>> \o t) = {}
    BY <2>1, <2>2, <2>3, PumpsPush
  <2> QED BY <1>4, <2>4
<1>7. Phase = "none" /\ Phase' = Phase /\ CalledBack' = CalledBack
  BY <1>5, <1>6, PhaseOf, PhaseNext
<1>8. Service!Complete(w)
  BY <1>3, <1>4, <1>7 DEF Service!Complete
<1> QED BY <1>2, <1>8

(* The prune finds no pump under way: they never nest. *)
LEMMA ServicePrunes ==
    ASSUME TypeOK, OneRequest, NEW late \in SUBSET Conn, PumpPrune(late)
    PROVE  Service!Prune(late)
<1> PICK k, rest : k = [call |-> "pump", expired |-> late] /\ rest = Tail(calls)
  OBVIOUS
<1>1. /\ calls \in Seq(Call) /\ calls # <<>> /\ Head(calls).call = "prune" /\ rest \in Seq(Call)
      /\ OnePump(calls)
  BY InnerCall DEF PumpPrune, OneRequest, Inner
<1>2. /\ calls' = <<k>> \o rest
      /\ late \subseteq {c \in waiting : alive[c]}
      /\ waiting' = {c \in waiting : alive[c]} \ late
      /\ alive' = alive /\ slot' = slot
  BY DEF PumpPrune
<1>3. NoPump(rest)
  BY <1>1, PumpTail DEF PumpCall
<1>4. PumpsIn(calls) = {}
  <2>1. PumpsIn(rest) = {}
    BY <1>3, PumpsNone
  <2> QED BY <1>1, <2>1, PumpsTail
<1>5. PumpsIn(calls') = {1} /\ BackIn(calls') = late
  BY <1>1, <1>2, <1>3, PumpsOnTop
<1>6. Phase = "none" /\ Phase' = "expiring" /\ CalledBack' = late
  BY <1>4, <1>5, PhaseOf, PhaseNext
<1> QED BY <1>2, <1>6 DEF Service!Prune

(* The next expiry callback begins; it is of a request the prune expired. *)
LEMMA ServiceExpires ==
    ASSUME TypeOK, OneRequest, NEW c \in Conn, PumpExpire(c)
    PROVE  UNCHANGED Service!vars
<1> PICK e, rest : e = Inner.expired /\ rest = Tail(calls)
  OBVIOUS
<1>1. /\ calls \in Seq(Call) /\ calls # <<>> /\ rest \in Seq(Call) /\ OnePump(calls)
      /\ Inner = Head(calls) /\ Inner \in Call /\ Inner.call = "pump" /\ c \in e
  BY InnerCall DEF PumpExpire, OneRequest, Inner
<1>2. e \in SUBSET Conn /\ Inner = [call |-> "pump", expired |-> e]
  BY <1>1, CallTypes
<1>3. NoPump(rest)
  BY <1>1, PumpTail DEF PumpCall
<1> PICK k, l : /\ k = [call |-> "pump", expired |-> e]
                /\ l = [call |-> "pump", expired |-> e \ {c}]
  OBVIOUS
<1>4. calls = <<k>> \o rest
  BY <1>1, <1>2, SeqTail
<1>5. calls' = <<Drain(c)>> \o (<<l>> \o rest)
  <2>1. [Inner EXCEPT !.expired = @ \ {c}] = l
    <3> PICK i : i = Inner
      OBVIOUS
    <3>1. i = [call |-> "pump", expired |-> e]
      BY <1>2
    <3>2. [i EXCEPT !.expired = @ \ {c}] = l
      BY ONLY <3>1, l = [call |-> "pump", expired |-> e \ {c}], SMT
    <3> QED BY <3>2
  <2>2. l \in Call /\ Drain(c) \in Call
    BY <1>2, CallTypes
  <2>3. calls' = <<Drain(c)>> \o (<<[Inner EXCEPT !.expired = @ \ {c}]>> \o rest)
    BY DEF PumpExpire, Finish
  <2> QED BY <2>1, <2>3
<1>6. PumpsIn(calls) = {1} /\ BackIn(calls) = e
  BY <1>2, <1>3, <1>1, <1>4, PumpsOnTop
<1>7. PumpsIn(calls') = {2} /\ BackIn(calls') = e
  <2>1. PumpsIn(calls') = {2} /\ BackIn(calls') = (e \ {c}) \cup {c}
    <3> PICK f : f = e \ {c}
      OBVIOUS
    <3>1. f \in SUBSET Conn /\ l = [call |-> "pump", expired |-> f]
      BY <1>2
    <3>2. rest \in Seq(Call)
      BY <1>1
    <3>3. CallsBack(c, f, rest)
      BY <1>3, <3>1, <3>2, PumpsBelow
    <3>4. calls' = Above(c, f, rest)
      BY <1>5, <3>1 DEF Above
    <3> QED BY <3>3, <3>4 DEF CallsBack
  <2> QED BY <1>1, <2>1
<1>8. Phase' = Phase /\ CalledBack' = CalledBack
  BY <1>6, <1>7, PhaseOf, PhaseNext
<1>9. alive' = alive /\ waiting' = waiting /\ slot' = slot
  BY DEF PumpExpire, queue
<1> QED BY <1>8, <1>9 DEF Service!vars

LEMMA ServiceStarts ==
    ASSUME TypeOK, OneRequest, PumpScan
    PROVE  Service!Start
<1> DEFINE idle == {w \in Worker : slot[w] = {}}
           One  == {{}} \cup {{c} : c \in waiting}
<1>1. PICK start \in [idle -> One] :
         /\ \A v, w \in idle : v # w => start[v] \cap start[w] = {}
         /\ slot' = [w \in Worker |-> IF w \in idle THEN start[w] ELSE slot[w]]
         /\ waiting' = waiting \ UNION {start[w] : w \in idle}
  BY DEF PumpScan
<1>2. /\ calls \in Seq(Call) /\ calls # <<>> /\ Head(calls).call = "pump" /\ 1 \in DOMAIN calls
      /\ calls[1].call = "pump" /\ OnePump(calls) /\ calls' = Tail(calls) /\ alive' = alive
  BY InnerCall, SeqTail DEF PumpScan, OneRequest, Inner
<1>3. NoPump(calls')
  BY <1>2, PumpTail DEF PumpCall
<1>4. PumpsIn(calls) # {} /\ PumpsIn(calls') = {} /\ BackIn(calls') = {}
  BY <1>2, <1>3, PumpsNone DEF PumpsIn
<1>5. Phase # "none" /\ Phase' = "none" /\ CalledBack' = {}
  BY <1>4, PhaseOf, PhaseNext
<1> PICK all : all = [w \in Worker |-> IF w \in idle THEN start[w] ELSE {}]
  OBVIOUS
<1>6. /\ \A w \in idle : w \in Worker /\ all[w] = start[w] /\ slot[w] = {}
      /\ \A w \in Worker : w \notin idle => all[w] = {}
      /\ \A w \in Worker : w \in idle <=> slot[w] = {}
  OBVIOUS
<1>7. all \in [Worker -> {{}} \cup {{c} : c \in waiting}]
  <2>1. ASSUME NEW w \in Worker PROVE all[w] \in One
    BY <1>6
  <2> QED BY <2>1
<1>8. slot' = [w \in Worker |-> slot[w] \cup all[w]]
  <2>1. ASSUME NEW w \in Worker
        PROVE  (IF w \in idle THEN start[w] ELSE slot[w]) = slot[w] \cup all[w]
    BY <1>6
  <2> HIDE DEF idle
  <2> QED BY <1>1, <2>1
<1>9. UNION {all[w] : w \in Worker} = UNION {start[w] : w \in idle}
  <2> HIDE DEF idle, One
  <2>1. ASSUME NEW x PROVE (\E w \in Worker : x \in all[w]) <=> (\E w \in idle : x \in start[w])
    BY <1>6
  <2> QED BY <2>1
<1>10. \A w \in Worker : all[w] # {} => slot[w] = {}
  BY <1>6
<1>11. \A v, w \in Worker : v # w => all[v] \cap all[w] = {}
  <2> HIDE DEF idle, One
  <2> QED BY <1>1, <1>6
<1>12. waiting' = waiting \ UNION {all[w] : w \in Worker}
  BY <1>1, <1>9
<1> HIDE DEF idle, One
<1> QED BY <1>2, <1>5, <1>7, <1>8, <1>10, <1>11, <1>12 DEF Service!Start

LEMMA ServiceCancels ==
    ASSUME TypeOK, CleanupOfClosed, Cleanup
    PROVE  \E c \in Conn : Service!Cancel(c)
<1> PICK c : c = Head(jobs).conn
  OBVIOUS
<1>1. /\ jobs \in Seq(Job) /\ jobs # <<>> /\ Head(jobs) \in Job /\ Head(jobs).kind = "cleanup"
      /\ calls = <<>>
  BY HeadJob DEF Cleanup
<1>2. c \in Conn
  BY <1>1, JobTypes
<1>3. Head(jobs) \in Range(jobs)
  BY <1>1, RangeTail
<1>4. ~alive[c]
  BY <1>1, <1>3 DEF CleanupOfClosed
<1>5. /\ waiting' = waiting \ {c} /\ slot' = slot /\ calls' = calls /\ alive' = alive
  BY DEF Cleanup, Cancel
<1>6. Phase = "none"
  BY <1>1, EmptyStack, PumpsNone, PhaseOf
<1>7. Service!Cancel(c)
  BY <1>4, <1>5, <1>6, PhaseSame DEF Service!Cancel
<1> QED BY <1>2, <1>7

(* The timer's job is to pump: nothing has happened yet. *)
LEMMA ServiceTimer ==
    ASSUME TypeOK, TakePump
    PROVE  UNCHANGED Service!vars
<1> PICK k, p, t, u : k = Prune /\ p = [call |-> "pumped"] /\ t = <<p>> /\ u = <<>>
  OBVIOUS
<1>1. calls = u /\ calls' = <<Prune, p>>
  BY HeadJob DEF TakePump
<1>2. k \in Call /\ k.call # "pump" /\ p \in Call /\ p.call # "pump"
  BY CallTypes DEF Prune
<1>3. calls' = <<k>> \o t /\ t = <<p>> \o u /\ t \in Seq(Call) /\ u \in Seq(Call)
  BY <1>1, <1>2, SMT
<1>4. PumpsIn(u) = {} /\ BackIn(u) = {}
  BY EmptyStack, PumpsNone
<1>5. PumpsIn(t) = {}
  BY <1>2, <1>3, <1>4, PumpsPush
<1>6. PumpsIn(calls') = {} /\ BackIn(calls') = {}
  BY <1>2, <1>3, <1>5, PumpsPush
<1>7. Phase' = Phase /\ CalledBack' = CalledBack
  BY <1>1, <1>4, <1>6, PhaseOf, PhaseNext
<1>8. alive' = alive /\ waiting' = waiting /\ slot' = slot
  BY DEF TakePump, queue
<1> QED BY <1>7, <1>8 DEF Service!vars

LEMMA ServiceStep ==
    ASSUME OrderInv, [Next]_vars
    PROVE  [Service!Next]_(Service!vars)
<1>0. TypeOK /\ OneRequest /\ (\A w \in Worker : WorkerHolds(w)) /\ CleanupOfClosed
  BY DEF OrderInv, PipeInv
<1> DEFINE Goal == [Service!Next]_(Service!vars)
<1>a. ASSUME calls' = calls, alive' = alive, waiting' = waiting, slot' = slot PROVE Goal
  BY <1>a, ServiceStutters
<1>b. ASSUME NEW cs \in SUBSET Conn, Closed(cs, jobs),
             calls' = calls, waiting' = waiting, slot' = slot PROVE Goal
  BY <1>0, <1>b, ServiceCloses DEF Service!Next
<1>1. ASSUME NEW c \in Conn, OnMessage(c) PROVE Goal
  <2>1. /\ calls' = calls /\ waiting' = waiting /\ slot' = slot
        /\ alive' = alive \/ Closed({c}, jobs)
    BY <1>1 DEF OnMessage, queue
  <2> QED BY <1>a, <1>b, <2>1
<1>2. ASSUME NEW c \in Conn, CloseConnection(c) PROVE Goal
  BY <1>2, <1>b DEF CloseConnection, queue
<1>3. ASSUME PumpTimer PROVE Goal
  BY <1>3, <1>a DEF PumpTimer, queue
<1>4. ASSUME RunPost PROVE Goal
  <2>1. /\ calls' = calls /\ waiting' = waiting /\ slot' = slot
        /\ alive' = alive \/ Closed(shed, jobs)
    BY <1>4 DEF RunPost, queue
  <2>2. shed \in SUBSET Conn
    BY <1>0 DEF TypeOK
  <2> QED BY <1>a, <1>b, <2>1, <2>2
<1>5. ASSUME NEW c \in Conn, Service!Submit(c) \/ UNCHANGED Service!vars PROVE Goal
  BY <1>5 DEF Service!Next
<1>6. ASSUME TakeMessage PROVE Goal
  <2> PICK c, n : c = Head(jobs).conn /\ n = Head(jobs).number
    OBVIOUS
  <2>1. c \in Conn /\ calls = <<>>
    BY <1>0, <1>6, HeadJob, JobTypes DEF TakeMessage
  <2>2. /\ Dropped(c, n, calls) \/ Deferred(c, n, calls) \/ ProcessMessage(c, n, calls)
        /\ slot' = slot /\ alive' = alive
    BY <1>6, <2>1 DEF TakeMessage, DispatchMessage
  <2>3. ~Pumping
    BY <2>1, SMT DEF Pumping
  <2>4. Service!Submit(c) \/ UNCHANGED Service!vars
    BY <1>0, <2>1, <2>2, <2>3, ServiceDispatched
  <2> QED BY <1>5, <2>1, <2>4
<1>7. ASSUME Cleanup PROVE Goal
  BY <1>0, <1>7, ServiceCancels DEF Service!Next
<1>8. ASSUME TakeHashed PROVE Goal
  BY <1>0, <1>8, ServiceCompletes DEF Service!Next
<1>9. ASSUME TakePump PROVE Goal
  BY <1>0, <1>9, ServiceTimer
<1>10. ASSUME DrainNext PROVE Goal
  <2> PICK c, n : c = Inner.conn /\ n = Head(deferred[Inner.conn])
    OBVIOUS
  <2>1. c \in Conn /\ In("drain")
    BY <1>0, <1>10, InnerCall, CallTypes DEF DrainNext
  <2>2. (Dropped(c, n, calls) \/ ProcessMessage(c, n, calls)) /\ slot' = slot /\ alive' = alive
    BY <1>10 DEF DrainNext
  <2>3. Pumping => c \in CalledBack
    BY <1>0, <2>1, DrainCalledBack
  <2>4. Service!Submit(c) \/ UNCHANGED Service!vars
    BY <1>0, <2>1, <2>2, <2>3, ServiceDispatched
  <2> QED BY <1>5, <2>1, <2>4
<1>11. ASSUME DrainEnd \/ Return \/ Pumped PROVE Goal
  <2>1. /\ calls # <<>> /\ Inner.call # "pump" /\ calls' = Tail(calls)
        /\ alive' = alive /\ waiting' = waiting /\ slot' = slot
    BY <1>11 DEF DrainEnd, Return, Pumped, In, queue
  <2> QED BY <1>0, <2>1, ServiceReturns DEF Service!Next
<1>12. ASSUME NEW late \in SUBSET Conn, PumpPrune(late) PROVE Goal
  BY <1>0, <1>12, ServicePrunes DEF Service!Next
<1>13. ASSUME NEW c \in Conn, PumpExpire(c) PROVE Goal
  BY <1>0, <1>13, ServiceExpires
<1>14. ASSUME PumpScan PROVE Goal
  BY <1>0, <1>14, ServiceStarts DEF Service!Next
<1>15. ASSUME NEW w \in Worker, HashStep(w) PROVE Goal
  BY <1>15, <1>a DEF HashStep, HashTake, HashPost, queue
<1>16. ASSUME UNCHANGED vars PROVE Goal
  BY <1>16, <1>a DEF vars, queue
<1> HIDE DEF Goal
<1>17. Goal
  BY <1>1, <1>2, <1>3, <1>4, <1>6, <1>7, <1>8, <1>9, <1>10, <1>11, <1>12, <1>13, <1>14, <1>15, <1>16
     DEF Next, TakeJob, CallStep
<1> QED BY <1>17 DEF Goal

(* The application worker keeps its half of CredentialService: however its    *)
(* drains, pumps and callbacks nest, a connection submits one request at a     *)
(* time, a pump never runs inside another, and in the middle of one only the   *)
(* connections it called back submit, for any connections and workers.         *)
THEOREM PipelineServes == Spec => ServiceKept
<1>1. Init => Service!Init
  <2> SUFFICES ASSUME Init PROVE Service!Init
    OBVIOUS
  <2>1. PumpsIn(calls) = {} /\ BackIn(calls) = {}
    BY EmptyStack, PumpsNone DEF Init
  <2>2. Phase = "none" /\ CalledBack = {}
    BY <2>1, PhaseOf
  <2> QED BY <2>2 DEF Init, Service!Init
<1>2. OrderInv /\ [Next]_vars => [Service!Next]_(Service!vars)
  BY ServiceStep
<1> QED BY <1>1, <1>2, OrderInductive, PTL DEF Spec, ServiceKept, Service!Spec
=============================================================================
