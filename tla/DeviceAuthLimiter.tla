--------------------------- MODULE DeviceAuthLimiter ---------------------------
(***************************************************************************)
(* The budgets of failed password checks (src/src/device_auth_limiter.cpp). *)
(*                                                                         *)
(* A check belongs to a source (a proved controller or an address) and to  *)
(* a target (that source and the device whose password it tries, or the    *)
(* one administrator).  Verify reserves a place in both budgets, releases  *)
(* the lock for the hash, and settles both afterwards; other checks, an    *)
(* administrator's Clear and the passing of every deadline come between.   *)
(* Every action is what happens under one hold of the mutex.               *)
(*                                                                         *)
(* CooldownRemaining and Snapshot only read.  The flags of the operations  *)
(* that failed, kept for display, are left out.                            *)
(***************************************************************************)
EXTENDS Naturals, FiniteSets

CONSTANTS
    Source, Target,    \* keys of the two dimensions
    Checks,            \* the pairs of source and target that are checked together
    Attempt,           \* threads that may verify at the same time
    SourceLimit,       \* source_failure_limit_
    TargetLimit,       \* target_failure_limit_
    MaxEntries,        \* kMaxEntries of each dimension
    Window,            \* kWindow
    InitialBackoff,    \* kInitialBackoff
    MaxBackoff,        \* kMaxBackoff
    Recovery,          \* kBackoffRecovery
    CleanupPeriod,     \* a minute between two prunes
    Exponential,       \* Policy::Exponential, else Policy::Fixed
    MaxTime,           \* bound on the clock
    MaxGeneration      \* bound on the clears of a bucket in use

Key == Source \cup Target

ASSUME LimiterAssumption ==
    /\ Source \cap Target = {}
    /\ Checks \subseteq Source \X Target
    /\ IsFiniteSet(Attempt)
    /\ SourceLimit \in Nat \ {0} /\ TargetLimit \in Nat \ {0}
    /\ MaxEntries \in Nat \ {0}
    /\ Window \in Nat \ {0}
    /\ InitialBackoff \in Nat \ {0}
    /\ MaxBackoff \in Nat /\ InitialBackoff <= MaxBackoff
    /\ Recovery \in Nat
    /\ CleanupPeriod \in Nat \ {0}
    /\ Exponential \in BOOLEAN
    /\ MaxTime \in Nat
    /\ MaxGeneration \in Nat

VARIABLES
    entries,       \* keys of sources_ and targets_
    bucket,        \* their Failures
    holds,         \* the keys an attempt has reserved while it hashes
    seen,          \* the generation it read of each of them
    nextCleanup,   \* next_cleanup_
    now

vars == <<entries, bucket, holds, seen, nextCleanup, now>>

Bucket == [count : Nat, pending : Nat, expires : Nat, blocked : Nat, backoff : Nat,
           generation : Nat]

NoBucket == [count |-> 0, pending |-> 0, expires |-> 0, blocked |-> 0, backoff |-> 0,
             generation |-> 0]

TypeOK ==
    /\ entries \subseteq Key
    /\ bucket \in [Key -> Bucket]
    /\ \A k \in Key \ entries : bucket[k] = NoBucket
    /\ holds \in [Attempt -> {{}} \cup {{c[1], c[2]} : c \in Checks}]
    /\ seen \in [Attempt -> [Key -> Nat]]
    /\ nextCleanup \in Nat
    /\ now \in Nat

Init ==
    /\ entries = {}
    /\ bucket = [k \in Key |-> NoBucket]
    /\ holds = [a \in Attempt |-> {}]
    /\ seen = [a \in Attempt |-> [k \in Key |-> 0]]
    /\ nextCleanup = 0
    /\ now = 0

-----------------------------------------------------------------------------
Limit(k) == IF k \in Source THEN SourceLimit ELSE TargetLimit

Dimension(k) == IF k \in Source THEN Source ELSE Target

(* A new bucket is an empty one reset now. *)
ResetExpired(b) ==
    IF b.expires > now THEN b
    ELSE [b EXCEPT !.count = 0, !.expires = now + Window, !.blocked = 0, !.backoff = 0]

Backoff(b) ==
    IF ~Exponential THEN Window
    ELSE IF b.backoff = 0 THEN InitialBackoff
    ELSE IF b.backoff * 2 > MaxBackoff THEN MaxBackoff ELSE b.backoff * 2

(* Mutant: the window of the first failure is kept. *)
RecordShort(b, k) ==
    LET failed == IF b.count < Limit(k) THEN b.count + 1 ELSE b.count
    IN  IF failed < Limit(k) THEN [b EXCEPT !.count = failed]
        ELSE [b EXCEPT !.count = failed, !.backoff = Backoff(b), !.blocked = now + Backoff(b)]

(* Mutant: the bucket is forgotten as soon as its cooldown ends. *)
RecordForgetful(b, k) ==
    LET failed == IF b.count < Limit(k) THEN b.count + 1 ELSE b.count
    IN  IF failed < Limit(k) THEN [b EXCEPT !.count = failed]
        ELSE [b EXCEPT !.count = failed, !.backoff = Backoff(b), !.blocked = now + Backoff(b),
                       !.expires = now + Backoff(b)]

(* A failure; the last of the budget starts a cooldown, and so does each one after it. *)
Record(b, k) ==
    LET failed == IF b.count < Limit(k) THEN b.count + 1 ELSE b.count
    IN  IF failed < Limit(k) THEN [b EXCEPT !.count = failed]
        ELSE [b EXCEPT !.count = failed, !.backoff = Backoff(b), !.blocked = now + Backoff(b),
                       !.expires = now + Backoff(b) + IF Exponential THEN Recovery ELSE 0]

-----------------------------------------------------------------------------
(* Verify, up to the hash. *)

(* Mutant: the prune does not look at the checks under way. *)
KeptUnexpired ==
    IF now < nextCleanup THEN entries ELSE {k \in entries : bucket[k].expires > now}

(* What the prune leaves, once a minute. *)
Kept ==
    IF now < nextCleanup THEN entries
    ELSE {k \in entries : bucket[k].expires > now \/ bucket[k].pending > 0}

(* The buckets of s and t as the two calls of retry() leave them. *)
Looked(s, t) ==
    [k \in Key |-> LET b == IF k \in Kept THEN bucket[k] ELSE NoBucket
                   IN  IF k \in {s, t} THEN ResetExpired(b) ELSE b]

(* Mutant: checks under way are not counted. *)
RetryFailures(b, k) == b.blocked > now \/ (b.count >= Limit(k) /\ b.pending > 0)

(* A cooldown, no place left, or, after a cooldown, the one probe under way. *)
Retry(b, k) ==
    \/ b.blocked > now
    \/ b.pending >= IF b.count < Limit(k) THEN Limit(k) - b.count ELSE 1

Full(k) == k \notin Kept /\ Cardinality(Kept \cap Dimension(k)) >= MaxEntries

Refused(s, t) == \E k \in {s, t} : Retry(Looked(s, t)[k], k) \/ Full(k)

Pruned == nextCleanup' = IF now < nextCleanup THEN nextCleanup ELSE now + CleanupPeriod

(* The refusal itself prunes and resets what has expired. *)
Refuse(a, s, t) ==
    /\ holds[a] = {}
    /\ Refused(s, t)
    /\ entries' = Kept
    /\ bucket' = [k \in Key |-> IF k \in Kept THEN Looked(s, t)[k] ELSE NoBucket]
    /\ Pruned
    /\ UNCHANGED <<holds, seen, now>>

Reserve(a, s, t) ==
    /\ holds[a] = {}
    /\ ~Refused(s, t)
    /\ entries' = Kept \cup {s, t}
    /\ bucket' = [k \in Key |-> IF k \in {s, t} THEN [Looked(s, t)[k] EXCEPT !.pending = @ + 1]
                                ELSE Looked(s, t)[k]]
    /\ holds' = [holds EXCEPT ![a] = {s, t}]
    /\ seen' = [seen EXCEPT ![a] = [k \in Key |->
                   IF k \in {s, t} THEN bucket'[k].generation ELSE 0]]
    /\ Pruned
    /\ UNCHANGED now

-----------------------------------------------------------------------------
(* Verify, after the hash; an exception of it counts as a failure. *)

Settled(a, k, verified) ==
    LET b == ResetExpired([bucket[k] EXCEPT !.pending = @ - 1])
    IN  IF ~verified /\ b.generation = seen[a][k] THEN Record(b, k) ELSE b

Emptied(b) == b.count = 0 /\ b.pending = 0

Finish(a, verified) ==
    LET gone == {k \in holds[a] : Emptied(Settled(a, k, verified))}
    IN  /\ holds[a] # {}
        /\ entries' = entries \ gone
        /\ bucket' = [k \in Key |-> IF k \in gone THEN NoBucket
                                    ELSE IF k \in holds[a] THEN Settled(a, k, verified)
                                    ELSE bucket[k]]
        /\ holds' = [holds EXCEPT ![a] = {}]
        /\ seen' = [seen EXCEPT ![a] = [k \in Key |-> 0]]
        /\ UNCHANGED <<nextCleanup, now>>

-----------------------------------------------------------------------------
(* Mutant: checks under way settle as if nothing had been cleared. *)
ClearedOnly(b) == ResetExpired([b EXCEPT !.expires = now])

(* A bucket with reservations is emptied, and remembers that it was. *)
Cleared(b) == ResetExpired([b EXCEPT !.generation = @ + 1, !.expires = now])

(* ClearMatching of the keys ks. *)
Clear(ks) ==
    /\ \A k \in ks : bucket[k].generation < MaxGeneration
    /\ entries' = {k \in entries : k \in ks => bucket[k].pending # 0}
    /\ bucket' = [k \in Key |-> IF k \notin ks THEN bucket[k]
                                ELSE IF bucket[k].pending = 0 THEN NoBucket
                                ELSE Cleared(bucket[k])]
    /\ UNCHANGED <<holds, seen, nextCleanup, now>>

(* The administrator clears one pair, or a source with all its pairs. *)
ClearSets ==
    {{t} : t \in Target} \cup {{s} \cup {t \in Target : <<s, t>> \in Checks} : s \in Source}

Tick ==
    /\ now < MaxTime
    /\ now' = now + 1
    /\ UNCHANGED <<entries, bucket, holds, seen, nextCleanup>>

Next ==
    \/ \E a \in Attempt, c \in Checks : Refuse(a, c[1], c[2]) \/ Reserve(a, c[1], c[2])
    \/ \E a \in Attempt, verified \in BOOLEAN : Finish(a, verified)
    \/ \E ks \in ClearSets : Clear(ks)
    \/ Tick

Spec == Init /\ [][Next]_vars

-----------------------------------------------------------------------------
Holders(k) == {a \in Attempt : k \in holds[a]}

(* Every reservation of Verify is in its bucket until it is settled, and no  *)
(* other is: no prune, clear or erasure takes a bucket away from a check     *)
(* under way (buckets.at would throw), and none leaks a reservation.         *)
ReservationsExact ==
    /\ \A k \in Key : bucket[k].pending = Cardinality(Holders(k))
    /\ \A a \in Attempt : holds[a] \subseteq entries

(* Failures and checks under way together never exceed a budget: parallel    *)
(* checks win no guess, and a spent budget lets one probe through at a time. *)
BudgetKept ==
    \A k \in Key : bucket[k].pending <=
        IF bucket[k].count < Limit(k) THEN Limit(k) - bucket[k].count ELSE 1

(* During a cooldown no password of that source or pair is being checked, so *)
(* that no failure can arrive which would extend or double it.               *)
CooldownQuiet ==
    \A k \in Key : bucket[k].blocked > now =>
        bucket[k].count = Limit(k) /\ bucket[k].pending = 0

(* A cooldown in force ends by time or by the administrator: refused checks, *)
(* the expiry of the window, prunes and floods of other keys leave it alone. *)
CooldownKept ==
    [][\A k \in Key : bucket[k].blocked > now =>
          \/ bucket'[k].blocked = bucket[k].blocked
          \/ \E ks \in ClearSets : k \in ks /\ Clear(ks)]_vars

(* After a cooldown the failures and the escalation are remembered for the   *)
(* recovery time: waiting, succeeding and reconnecting do not reset them.    *)
EscalationKept ==
    [][\A k \in Key :
          /\ Exponential
          /\ bucket[k].backoff > 0
          /\ now < bucket[k].blocked + Recovery
          => \/ bucket'[k].backoff >= bucket[k].backoff /\ bucket'[k].count = Limit(k)
             \/ \E ks \in ClearSets : k \in ks /\ Clear(ks)]_vars
=============================================================================
