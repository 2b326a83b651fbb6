----------------------- MODULE CryptoKeyRotator_proofs -----------------------
(***************************************************************************)
(* Rotation never leaves a gap and never removes a key early, for any      *)
(* number of replicas and requests, any durations, and however many locks  *)
(* are lost; and while none is lost, no key is retired twice.              *)
(***************************************************************************)
EXTENDS CryptoKeyRotator, WellFoundedInduction, TLAPS

\* A bounded set of numbers has a largest element.
LEMMA LargestExists ==
  ASSUME NEW N \in Nat, NEW S, S \subseteq 1 .. N, S # {}
  PROVE  \E m \in S : \A j \in S : j <= m
<1> DEFINE R == {p \in Nat \X Nat : p[1] < p[2]}
           T == {N - s : s \in S}
<1>1. IsWellFoundedOn(R, Nat)
  BY NatLessThanWellFounded DEF OpToRel
<1>2. T \subseteq Nat /\ T # {}
  <2>1. \A s \in S : N - s \in Nat
    OBVIOUS
  <2>2. PICK s \in S : TRUE
    OBVIOUS
  <2>3. N - s \in T
    OBVIOUS
  <2> QED
    BY <2>1, <2>3
<1> HIDE DEF T, R
<1>3. PICK x \in T : \A y \in T : ~ (<<y, x>> \in R)
  BY <1>1, <1>2, WFMin
<1>4. PICK m \in S : x = N - m
  BY DEF T
<1>5. \A j \in S : j <= m
  <2> SUFFICES ASSUME NEW j \in S, j > m PROVE FALSE
    OBVIOUS
  <2>1. N - j \in Nat /\ N - m \in Nat /\ N - j < N - m
    OBVIOUS
  <2>2. N - j \in T
    BY DEF T
  <2>3. <<N - j, N - m>> \in R
    BY <2>1 DEF R
  <2> QED
    BY <1>3, <1>4, <2>2, <2>3
<1> QED
  BY <1>5
\* The largest sequence in use is below the next one.
LEMMA NextIsLarger ==
  ASSUME TypeOK
  PROVE  NextSequence \in Nat /\ \A k \in present : k < NextSequence
<1>1. CASE present = {}
  BY <1>1 DEF NextSequence
<1>2. CASE present # {}
  <2>1. \E m \in present : \A j \in present : j <= m
    BY <1>2, LargestExists, RotatorAssumption DEF TypeOK, Sequences
  <2> DEFINE m == CHOOSE k \in present : \A j \in present : j <= k
  <2>2. m \in present /\ \A j \in present : j <= m
    BY <2>1
  <2>3. NextSequence = 1 + m
    BY <1>2 DEF NextSequence
  <2> QED
    <3> HIDE DEF m
    <3> QED
      BY <2>2, <2>3 DEF TypeOK, Sequences
<1> QED
  BY <1>1, <1>2

Later(a, b) == IF a <= b THEN b ELSE a

\* By time t some later key has served for the hour and the token's life.
Superseded(k, t) ==
    \E j \in present : j > k /\ starts_at[j] + Hour + TokenDuration <= t

RetiredCovered ==
    \A k \in present : deletes_at[k] # Null => Superseded(k, Later(deletes_at[k], now))

\* The deletions a sweep has decided on stay right, whatever it misses.
DoomedCovered ==
    \A r \in Replicas : \A k \in todo[r] :
        ShouldDelete(seenDeletes[r][k], sweepNow[r]) => Superseded(k, now)

SomeStarted == present # {} => \E k \in present : starts_at[k] <= now

\* Sequences are not reused below a key that a sweep is looking at.
TodoBounded ==
    \A r \in Replicas : \A k \in todo[r] :
        /\ \E j \in present : k <= j
        /\ pc[r] = "rotate" => k < next[r]

SweepsBehind ==
    /\ \A r \in Replicas : sweepNow[r] <= now
    /\ \A r \in Replicas : pc[r] \in {"idle", "locked"} => todo[r] = {}
    /\ \A q \in Requests : request[q] <= now

RotationInv ==
    /\ TypeOK /\ RetiredCovered /\ DoomedCovered /\ SomeStarted /\ TodoBounded /\ SweepsBehind

LEMMA RotationInit == Init => RotationInv
  BY RotatorAssumption
  DEF Init, RotationInv, TypeOK, RetiredCovered, DoomedCovered, SomeStarted, TodoBounded,
      SweepsBehind, NoStarts, NoDeletes, Times, Null, Steps

(* Steps that leave the table alone.                                       *)

LEMMA TableFrame ==
  ASSUME RotationInv, UNCHANGED <<now, keyVars>>
  PROVE  /\ RetiredCovered' /\ SomeStarted'
         /\ \A k, t : Superseded(k, t)' <=> Superseded(k, t)
<1>1. \A k, t : Superseded(k, t)' <=> Superseded(k, t)
  BY DEF Superseded, keyVars
<1>2. \A k : Later(deletes_at[k], now)' = Later(deletes_at[k], now)
  BY DEF Later, keyVars
<1> QED
  BY <1>1, <1>2 DEF RotationInv, RetiredCovered, SomeStarted, keyVars

LEMMA BeginKeeps ==
  ASSUME RotationInv, NEW r \in Replicas, Begin(r)
  PROVE  RotationInv'
<1>1. TypeOK'
  BY RotatorAssumption DEF RotationInv, Begin, TypeOK, Steps, Times, Null, keyVars, sweepVars, SweepsBehind
<1>2. UNCHANGED <<now, keyVars>>
  BY DEF Begin
<1>3. DoomedCovered'
  BY <1>2, TableFrame DEF RotationInv, DoomedCovered, Begin, TypeOK, sweepVars, SweepsBehind
<1>4. TodoBounded'
  BY <1>2 DEF RotationInv, TodoBounded, Begin, TypeOK, Sequences, keyVars, sweepVars, SweepsBehind
<1>5. SweepsBehind'
  BY <1>2 DEF RotationInv, SweepsBehind, Begin, TypeOK, sweepVars, SweepsBehind
<1> QED
  BY <1>1, <1>2, <1>3, <1>4, <1>5, TableFrame DEF RotationInv

\* What a sweep finds expired is superseded.
LEMMA ListDoom ==
  ASSUME RotationInv, NEW r \in Replicas, NEW k \in present, ShouldDelete(deletes_at[k], sweepNow[r])
  PROVE  Superseded(k, now)
<1>1. deletes_at[k] \in Nat /\ sweepNow[r] \in Nat /\ now \in Nat
  BY DEF RotationInv, TypeOK, ShouldDelete, Null, Times
<1>2. deletes_at[k] <= sweepNow[r] /\ sweepNow[r] <= now
  BY <1>1 DEF RotationInv, SweepsBehind, ShouldDelete
<1>3. Later(deletes_at[k], now) = now
  BY <1>1, <1>2 DEF Later
<1> QED
  BY <1>3 DEF RotationInv, RetiredCovered, ShouldDelete

LEMMA ListKeeps ==
  ASSUME RotationInv, NEW r \in Replicas, List(r)
  PROVE  RotationInv'
<1>1. TypeOK'
  BY RotatorAssumption DEF RotationInv, List, TypeOK, Steps, Times, Null, keyVars, sweepVars
<1>2. UNCHANGED <<now, keyVars>>
  BY DEF List
<1>3. DoomedCovered'
  BY ListDoom, <1>2, TableFrame DEF RotationInv, DoomedCovered, List, TypeOK, sweepVars
<1>4. TodoBounded'
  BY <1>2 DEF RotationInv, TodoBounded, List, TypeOK, Sequences, keyVars, sweepVars
<1>5. SweepsBehind'
  BY <1>2 DEF RotationInv, SweepsBehind, List, TypeOK, sweepVars
<1> QED
  BY <1>1, <1>2, <1>3, <1>4, <1>5, TableFrame DEF RotationInv

LEMMA ListFailsKeeps ==
  ASSUME RotationInv, NEW r \in Replicas, ListFails(r)
  PROVE  RotationInv'
<1>1. TypeOK'
  BY RotatorAssumption DEF RotationInv, ListFails, TypeOK, Steps, Times, Null, keyVars, sweepVars
<1>2. UNCHANGED <<now, keyVars>>
  BY DEF ListFails
<1>3. DoomedCovered'
  BY <1>2, TableFrame DEF RotationInv, DoomedCovered, ListFails, TypeOK, sweepVars
<1>4. TodoBounded'
  BY <1>2 DEF RotationInv, TodoBounded, ListFails, TypeOK, Sequences, keyVars, sweepVars
<1>5. SweepsBehind'
  BY <1>2 DEF RotationInv, SweepsBehind, ListFails, TypeOK, sweepVars
<1> QED
  BY <1>1, <1>2, <1>3, <1>4, <1>5, TableFrame DEF RotationInv

LEMMA TodoBelowNext ==
  ASSUME RotationInv, NEW r \in Replicas, NEW k \in todo[r]
  PROVE  k < NextSequence
<1>1. PICK j \in present : k <= j
  BY DEF RotationInv, TodoBounded
<1>2. j < NextSequence /\ NextSequence \in Nat
  BY NextIsLarger DEF RotationInv
<1> QED
  BY <1>1, <1>2 DEF RotationInv, TypeOK, Sequences

LEMMA BeginRotateKeeps ==
  ASSUME RotationInv, NEW r \in Replicas, NEW k \in Sequences, BeginRotate(r, k)
  PROVE  RotationInv'
<1>1. TypeOK'
  BY NextIsLarger, RotatorAssumption DEF RotationInv, BeginRotate, TypeOK, Steps, Times, Null, keyVars, sweepVars, Takes
<1>2. UNCHANGED <<now, keyVars>>
  BY DEF BeginRotate
<1>3. DoomedCovered'
  BY <1>2, TableFrame DEF RotationInv, DoomedCovered, BeginRotate, TypeOK, sweepVars, Takes
<1>4. TodoBounded'
  BY TodoBelowNext, <1>2 DEF RotationInv, TodoBounded, BeginRotate, TypeOK, Sequences, keyVars, sweepVars, Takes
<1>5. SweepsBehind'
  BY <1>2 DEF RotationInv, SweepsBehind, BeginRotate, TypeOK, sweepVars, Takes
<1> QED
  BY <1>1, <1>2, <1>3, <1>4, <1>5, TableFrame DEF RotationInv

LEMMA RotateFailsKeeps ==
  ASSUME RotationInv, NEW r \in Replicas, NEW k \in Sequences, RotateFails(r, k)
  PROVE  RotationInv'
<1>1. TypeOK'
  BY RotatorAssumption DEF RotationInv, RotateFails, TypeOK, Steps, Times, Null, keyVars, sweepVars, Drop
<1>2. UNCHANGED <<now, keyVars>>
  BY DEF RotateFails
<1>3. DoomedCovered'
  BY <1>2, TableFrame DEF RotationInv, DoomedCovered, RotateFails, TypeOK, sweepVars, Drop
<1>4. TodoBounded'
  BY <1>2 DEF RotationInv, TodoBounded, RotateFails, TypeOK, Sequences, keyVars, sweepVars, Drop
<1>5. SweepsBehind'
  BY <1>2 DEF RotationInv, SweepsBehind, RotateFails, TypeOK, sweepVars, Drop
<1> QED
  BY <1>1, <1>2, <1>3, <1>4, <1>5, TableFrame DEF RotationInv

LEMMA KeepKeyKeeps ==
  ASSUME RotationInv, NEW r \in Replicas, NEW k \in Sequences, KeepKey(r, k)
  PROVE  RotationInv'
<1>1. TypeOK'
  BY RotatorAssumption DEF RotationInv, KeepKey, TypeOK, Steps, Times, Null, keyVars, sweepVars, Drop, Takes
<1>2. UNCHANGED <<now, keyVars>>
  BY DEF KeepKey
<1>3. DoomedCovered'
  BY <1>2, TableFrame DEF RotationInv, DoomedCovered, KeepKey, TypeOK, sweepVars, Drop, Takes
<1>4. TodoBounded'
  BY <1>2 DEF RotationInv, TodoBounded, KeepKey, TypeOK, Sequences, keyVars, sweepVars, Drop, Takes
<1>5. SweepsBehind'
  BY <1>2 DEF RotationInv, SweepsBehind, KeepKey, TypeOK, sweepVars, Drop, Takes
<1> QED
  BY <1>1, <1>2, <1>3, <1>4, <1>5, TableFrame DEF RotationInv

LEMMA EndLoopKeeps ==
  ASSUME RotationInv, NEW r \in Replicas, EndLoop(r)
  PROVE  RotationInv'
<1>1. TypeOK'
  BY NextIsLarger, RotatorAssumption DEF RotationInv, EndLoop, TypeOK, Steps, Times, Null, keyVars, sweepVars
<1>2. UNCHANGED <<now, keyVars>>
  BY DEF EndLoop
<1>3. DoomedCovered'
  BY <1>2, TableFrame DEF RotationInv, DoomedCovered, EndLoop, TypeOK, sweepVars
<1>4. TodoBounded'
  BY <1>2 DEF RotationInv, TodoBounded, EndLoop, TypeOK, Sequences, keyVars, sweepVars
<1>5. SweepsBehind'
  BY <1>2 DEF RotationInv, SweepsBehind, EndLoop, TypeOK, sweepVars
<1> QED
  BY <1>1, <1>2, <1>3, <1>4, <1>5, TableFrame DEF RotationInv

LEMMA ReleaseKeeps ==
  ASSUME RotationInv, NEW r \in Replicas, Release(r)
  PROVE  RotationInv'
<1>1. TypeOK'
  BY RotatorAssumption DEF RotationInv, Release, TypeOK, Steps, Times, Null, keyVars, sweepVars, Leave, Unlock, NoStarts, NoDeletes
<1>2. UNCHANGED <<now, keyVars>>
  BY DEF Release
<1>3. DoomedCovered'
  BY <1>2, TableFrame DEF RotationInv, DoomedCovered, Release, TypeOK, sweepVars, Leave, Unlock, NoStarts, NoDeletes
<1>4. TodoBounded'
  BY <1>2 DEF RotationInv, TodoBounded, Release, TypeOK, Sequences, keyVars, sweepVars, Leave, Unlock, NoStarts, NoDeletes
<1>5. SweepsBehind'
  BY <1>2 DEF RotationInv, SweepsBehind, Release, TypeOK, sweepVars, Leave, Unlock, NoStarts, NoDeletes
<1> QED
  BY <1>1, <1>2, <1>3, <1>4, <1>5, TableFrame DEF RotationInv

LEMMA CrashKeeps ==
  ASSUME RotationInv, NEW r \in Replicas, Crash(r)
  PROVE  RotationInv'
<1>1. TypeOK'
  BY RotatorAssumption DEF RotationInv, Crash, TypeOK, Steps, Times, Null, keyVars, sweepVars, Leave, Unlock, NoStarts, NoDeletes
<1>2. UNCHANGED <<now, keyVars>>
  BY DEF Crash
<1>3. DoomedCovered'
  BY <1>2, TableFrame DEF RotationInv, DoomedCovered, Crash, TypeOK, sweepVars, Leave, Unlock, NoStarts, NoDeletes
<1>4. TodoBounded'
  BY <1>2 DEF RotationInv, TodoBounded, Crash, TypeOK, Sequences, keyVars, sweepVars, Leave, Unlock, NoStarts, NoDeletes
<1>5. SweepsBehind'
  BY <1>2 DEF RotationInv, SweepsBehind, Crash, TypeOK, sweepVars, Leave, Unlock, NoStarts, NoDeletes
<1> QED
  BY <1>1, <1>2, <1>3, <1>4, <1>5, TableFrame DEF RotationInv

LEMMA RequestFindsNoneKeeps ==
  ASSUME RotationInv, NEW q \in Requests, RequestFindsNone(q)
  PROVE  RotationInv'
<1>1. TypeOK'
  BY RotatorAssumption DEF RotationInv, RequestFindsNone, TypeOK, Steps, Times, Null, keyVars, sweepVars
<1>2. UNCHANGED <<now, keyVars>>
  BY DEF RequestFindsNone
<1>3. DoomedCovered'
  BY <1>2, TableFrame DEF RotationInv, DoomedCovered, RequestFindsNone, TypeOK, sweepVars
<1>4. TodoBounded'
  BY <1>2 DEF RotationInv, TodoBounded, RequestFindsNone, TypeOK, Sequences, keyVars, sweepVars
<1>5. SweepsBehind'
  BY <1>2 DEF RotationInv, SweepsBehind, RequestFindsNone, TypeOK, sweepVars
<1> QED
  BY <1>1, <1>2, <1>3, <1>4, <1>5, TableFrame DEF RotationInv

LEMMA LoseLockKeeps ==
  ASSUME RotationInv, LoseLock
  PROVE  RotationInv'
<1>1. TypeOK'
  BY RotatorAssumption DEF RotationInv, LoseLock, TypeOK, Steps, Times, Null, keyVars, sweepVars
<1>2. UNCHANGED <<now, keyVars>>
  BY DEF LoseLock
<1>3. DoomedCovered'
  BY <1>2, TableFrame DEF RotationInv, DoomedCovered, LoseLock, TypeOK, sweepVars
<1>4. TodoBounded'
  BY <1>2 DEF RotationInv, TodoBounded, LoseLock, TypeOK, Sequences, keyVars, sweepVars
<1>5. SweepsBehind'
  BY <1>2 DEF RotationInv, SweepsBehind, LoseLock, TypeOK, sweepVars
<1> QED
  BY <1>1, <1>2, <1>3, <1>4, <1>5, TableFrame DEF RotationInv

LEMMA PooledLockEndsKeeps ==
  ASSUME RotationInv, PooledLockEnds
  PROVE  RotationInv'
<1>1. TypeOK'
  BY RotatorAssumption DEF RotationInv, PooledLockEnds, TypeOK, Steps, Times, Null, keyVars, sweepVars
<1>2. UNCHANGED <<now, keyVars>>
  BY DEF PooledLockEnds
<1>3. DoomedCovered'
  BY <1>2, TableFrame DEF RotationInv, DoomedCovered, PooledLockEnds, TypeOK, sweepVars
<1>4. TodoBounded'
  BY <1>2 DEF RotationInv, TodoBounded, PooledLockEnds, TypeOK, Sequences, keyVars, sweepVars
<1>5. SweepsBehind'
  BY <1>2 DEF RotationInv, SweepsBehind, PooledLockEnds, TypeOK, sweepVars
<1> QED
  BY <1>1, <1>2, <1>3, <1>4, <1>5, TableFrame DEF RotationInv

(* Time and the steps that change the table.                               *)

LEMMA SupersededLater ==
  ASSUME TypeOK, NEW k, NEW t \in Nat, NEW u \in Nat, t <= u, Superseded(k, t)
  PROVE  Superseded(k, u)
<1>1. PICK j \in present : j > k /\ starts_at[j] + Hour + TokenDuration <= t
  BY DEF Superseded
<1>2. starts_at[j] + Hour + TokenDuration <= u
  BY <1>1, RotatorAssumption DEF TypeOK
<1> QED
  BY <1>1, <1>2 DEF Superseded

LEMMA LaterNat ==
  ASSUME TypeOK, NEW k \in present, deletes_at[k] # Null
  PROVE  /\ deletes_at[k] \in Nat
         /\ Later(deletes_at[k], now) \in Nat
         /\ now <= Later(deletes_at[k], now)
  BY DEF TypeOK, Later, Times, Null

LEMMA TickKeeps ==
  ASSUME RotationInv, Tick
  PROVE  RotationInv'
<1>1. TypeOK'
  BY DEF RotationInv, Tick, TypeOK, keyVars, sweepVars
<1>2. \A k, t : Superseded(k, t)' <=> Superseded(k, t)
  BY DEF Superseded, Tick, keyVars
<1>3. now \in Nat /\ now' = now + 1 /\ now' \in Nat
  BY DEF RotationInv, TypeOK, Tick
<1>4. RetiredCovered'
  <2> SUFFICES ASSUME NEW k \in present, deletes_at[k] # Null
               PROVE  Superseded(k, Later(deletes_at[k], now'))
    BY <1>2 DEF RetiredCovered, Tick, keyVars, Later
  <2>1. Later(deletes_at[k], now) <= Later(deletes_at[k], now')
        /\ Later(deletes_at[k], now') \in Nat
    BY <1>3, LaterNat DEF Later, RotationInv
  <2> QED
    BY <2>1, LaterNat, SupersededLater DEF RotationInv, RetiredCovered
<1>5. DoomedCovered'
  <2> SUFFICES ASSUME NEW r \in Replicas, NEW k \in todo[r],
                      ShouldDelete(seenDeletes[r][k], sweepNow[r])
               PROVE  Superseded(k, now')
    BY <1>2 DEF DoomedCovered, Tick, sweepVars
  <2> QED
    BY <1>3, SupersededLater DEF RotationInv, DoomedCovered
<1>6. SomeStarted' /\ TodoBounded'
  BY <1>3 DEF RotationInv, TypeOK, SomeStarted, TodoBounded, Tick, keyVars, sweepVars
<1>7. SweepsBehind'
  BY <1>3, RotatorAssumption DEF RotationInv, SweepsBehind, Tick, TypeOK, sweepVars, Times, Null
<1> QED
  BY <1>1, <1>4, <1>5, <1>6, <1>7 DEF RotationInv

\* A new row takes nothing from the others.
LEMMA InsertFrame ==
  ASSUME RotationInv, NEW w, NEW s \in Nat, Insert(w, s), now' = now
  PROVE  /\ \A k, t : Superseded(k, t) => Superseded(k, t)'
         /\ \A k \in present : starts_at'[k] = starts_at[k]
         /\ \A k : (\E j \in present : k <= j) => \E j \in present' : k <= j
         /\ present \subseteq present' /\ present' \subseteq Sequences
         /\ starts_at' \in [Sequences -> Nat]
<1>1. \A k \in present : k \in present' /\ starts_at'[k] = starts_at[k]
  BY DEF Insert, RotationInv, TypeOK
<1>2. \A k, t : Superseded(k, t) => Superseded(k, t)'
  BY <1>1 DEF Superseded
<1>3. present' \subseteq Sequences /\ starts_at' \in [Sequences -> Nat]
  BY DEF Insert, RotationInv, TypeOK
<1> QED
  BY <1>1, <1>2, <1>3

\* A key that starts at once.
LEMMA FreshKeyKeeps ==
  ASSUME RotationInv, NEW w, NEW s \in Nat, s <= now, Insert(w, s), now' = now,
         deletes_at' = [deletes_at EXCEPT ![w] = Null]
  PROVE  RetiredCovered' /\ SomeStarted' /\ deletes_at' \in [Sequences -> Times]
<1>1. /\ w \in Sequences \ present /\ present' = present \cup {w}
      /\ starts_at'[w] = s /\ deletes_at'[w] = Null
      /\ \A k \in present : deletes_at'[k] = deletes_at[k]
      /\ deletes_at' \in [Sequences -> Times]
  BY DEF Insert, RotationInv, TypeOK, Times
<1>2. \A k \in present : deletes_at[k] # Null => Superseded(k, Later(deletes_at[k], now))'
  <2> SUFFICES ASSUME NEW k \in present, deletes_at[k] # Null
               PROVE  Superseded(k, Later(deletes_at[k], now))'
    OBVIOUS
  <2>1. Later(deletes_at[k], now)' = Later(deletes_at[k], now)
    BY <1>1 DEF Later
  <2>2. Superseded(k, Later(deletes_at[k], now))
    BY DEF RotationInv, RetiredCovered
  <2> QED
    BY <2>1, <2>2, InsertFrame DEF Superseded
<1>3. RetiredCovered'
  BY <1>1, <1>2 DEF RetiredCovered
<1> QED
  BY <1>1, <1>3 DEF SomeStarted

LEMMA InsertNewKeyKeeps ==
  ASSUME RotationInv, NEW r \in Replicas, InsertNewKey(r)
  PROVE  RotationInv'
<1>1. /\ UNCHANGED <<now, lock, sweepNow, todo, seenStarts, seenDeletes, valid, next, request, losses>>
      /\ pc[r] = "insert" /\ pc' = [pc EXCEPT ![r] = "release"]
  BY DEF InsertNewKey
<1>2. SweepsBehind'
  BY <1>1 DEF RotationInv, SweepsBehind, TypeOK
<1>3. CASE UNCHANGED keyVars
  <2>1. TypeOK' /\ DoomedCovered' /\ TodoBounded'
    BY <1>1, <1>3, TableFrame
    DEF RotationInv, TypeOK, DoomedCovered, TodoBounded, keyVars, Steps
  <2> QED
    BY <1>1, <1>2, <1>3, <2>1, TableFrame DEF RotationInv
<1>4. CASE Insert(next[r], sweepNow[r]) /\ deletes_at' = [deletes_at EXCEPT ![next[r]] = Null]
  <2>1. sweepNow[r] \in Nat /\ sweepNow[r] <= now
    BY DEF RotationInv, TypeOK, SweepsBehind
  <2>2. RetiredCovered' /\ SomeStarted' /\ deletes_at' \in [Sequences -> Times]
    BY <1>1, <1>4, <2>1, FreshKeyKeeps
  <2>3. TypeOK'
    BY <1>1, <1>4, <2>1, <2>2, InsertFrame DEF RotationInv, TypeOK, Steps
  <2>4. DoomedCovered' /\ TodoBounded'
    BY <1>1, <1>4, <2>1, InsertFrame DEF RotationInv, TypeOK, DoomedCovered, TodoBounded
  <2> QED
    BY <1>2, <2>2, <2>3, <2>4 DEF RotationInv
<1> QED
  BY <1>3, <1>4 DEF InsertNewKey

LEMMA RequestInsertsKeeps ==
  ASSUME RotationInv, NEW q \in Requests, RequestInserts(q)
  PROVE  RotationInv'
<1>1. /\ UNCHANGED <<now, lock, sweepVars, losses>>
      /\ request[q] # Null /\ request' = [request EXCEPT ![q] = Null]
  BY DEF RequestInserts
<1>2. SweepsBehind' /\ request' \in [Requests -> Times]
  BY <1>1 DEF RotationInv, SweepsBehind, TypeOK, sweepVars, Times, Null
<1>3. CASE UNCHANGED keyVars
  <2>1. TypeOK' /\ DoomedCovered' /\ TodoBounded'
    BY <1>1, <1>2, <1>3, TableFrame
    DEF RotationInv, TypeOK, DoomedCovered, TodoBounded, keyVars, sweepVars
  <2> QED
    BY <1>1, <1>2, <1>3, <2>1, TableFrame DEF RotationInv
<1>4. ASSUME NEW t \in request[q] .. now, Insert(1, t), deletes_at' = [deletes_at EXCEPT ![1] = Null]
      PROVE  RotationInv'
  <2>1. t \in Nat /\ t <= now
    BY <1>1 DEF RotationInv, TypeOK, Times, Null
  <2>2. RetiredCovered' /\ SomeStarted' /\ deletes_at' \in [Sequences -> Times]
    BY <1>1, <1>4, <2>1, FreshKeyKeeps
  <2>3. TypeOK'
    BY <1>1, <1>2, <1>4, <2>1, <2>2, InsertFrame DEF RotationInv, TypeOK, sweepVars
  <2>4. DoomedCovered' /\ TodoBounded'
    BY <1>1, <1>4, <2>1, InsertFrame DEF RotationInv, TypeOK, DoomedCovered, TodoBounded, sweepVars
  <2> QED
    BY <1>2, <2>2, <2>3, <2>4 DEF RotationInv
<1> QED
  BY <1>3, <1>4 DEF RequestInserts

\* The successor covers the key it replaces from the start.
LEMMA RotateKeeps ==
  ASSUME RotationInv, NEW r \in Replicas, NEW k \in Sequences, Rotate(r, k)
  PROVE  RotationInv'
<1> DEFINE w == next[r]
           s == MinStartsAt(seenStarts[r][k], sweepNow[r])
           d == s + Hour + TokenDuration
<1>1. /\ UNCHANGED <<now, lock, sweepNow, seenStarts, seenDeletes, next, request, losses>>
      /\ pc[r] = "rotate" /\ pc' = [pc EXCEPT ![r] = "loop"]
      /\ k \in todo[r] /\ k \in present /\ Insert(w, s)
      /\ deletes_at' = [deletes_at EXCEPT ![k] = d, ![w] = Null]
      /\ todo' = [todo EXCEPT ![r] = @ \ {k}] /\ valid' = [valid EXCEPT ![r] = TRUE]
  BY DEF Rotate, Drop, RetiresAt
<1>2. s \in Nat /\ d \in Nat
  BY RotatorAssumption DEF RotationInv, TypeOK, MinStartsAt
<1>3. w \in Sequences \ present /\ present' = present \cup {w} /\ k < w /\ now \in Nat
  BY <1>1 DEF Insert, RotationInv, TypeOK, TodoBounded
<1>4. starts_at'[w] = s /\ deletes_at'[w] = Null /\ deletes_at'[k] = d
  BY <1>1, <1>3 DEF Insert, RotationInv, TypeOK
<1> HIDE DEF w, s
<1>5. \A x \in present : x # k => deletes_at'[x] = deletes_at[x]
  BY <1>1, <1>3 DEF RotationInv, TypeOK
<1>6. RetiredCovered'
  <2> SUFFICES ASSUME NEW x \in present', deletes_at'[x] # Null
               PROVE  Superseded(x, Later(deletes_at[x], now))'
    BY DEF RetiredCovered
  <2>1. CASE x = k
    <3>1. d <= Later(deletes_at[x], now)'
      BY <1>1, <1>2, <1>3, <1>4, <2>1 DEF Later
    <3> QED
      BY <1>3, <1>4, <2>1, <3>1 DEF Superseded
  <2>2. CASE x # k
    <3>1. x \in present /\ deletes_at'[x] = deletes_at[x]
      BY <1>3, <1>4, <1>5, <2>2
    <3>2. Later(deletes_at[x], now)' = Later(deletes_at[x], now)
      BY <1>1, <3>1 DEF Later
    <3>3. Superseded(x, Later(deletes_at[x], now))
      BY <3>1 DEF RotationInv, RetiredCovered
    <3> QED
      BY <1>1, <1>2, <3>2, <3>3, InsertFrame DEF Superseded
  <2> QED
    BY <2>1, <2>2
<1>7. DoomedCovered' /\ SomeStarted'
  BY <1>1, <1>2, InsertFrame DEF RotationInv, TypeOK, DoomedCovered, SomeStarted
<1>8. TodoBounded'
  BY <1>1, <1>2, InsertFrame DEF RotationInv, TypeOK, TodoBounded
<1>9. SweepsBehind'
  BY <1>1 DEF RotationInv, TypeOK, SweepsBehind
<1>10. deletes_at' \in [Sequences -> Times]
  BY <1>1, <1>2, <1>3 DEF RotationInv, TypeOK, Times
<1>11. TypeOK'
  BY <1>1, <1>2, <1>10, InsertFrame DEF RotationInv, TypeOK, Steps
<1> QED
  BY <1>6, <1>7, <1>8, <1>9, <1>11 DEF RotationInv

\* Whoever relied on the removed key can rely on the one that superseded it.
LEMMA RemovalFrame ==
  ASSUME RotationInv, NEW r \in Replicas, NEW k \in Sequences, k \in todo[r],
         ShouldDelete(seenDeletes[r][k], sweepNow[r]), now' = now,
         present' = present \ {k}, starts_at' = [starts_at EXCEPT ![k] = 0]
  PROVE  /\ \E j \in present' : j > k /\ starts_at'[j] + Hour + TokenDuration <= now
         /\ \A x \in Sequences : \A t \in Nat : now <= t /\ Superseded(x, t) => Superseded(x, t)'
         /\ \A x \in Sequences : (\E j \in present : x <= j) => \E j \in present' : x <= j
         /\ SomeStarted'
<1>1. PICK y \in present : y > k /\ starts_at[y] + Hour + TokenDuration <= now
  BY DEF RotationInv, DoomedCovered, Superseded
<1>2. y \in present' /\ \A j \in present' : j \in present /\ starts_at'[j] = starts_at[j]
  BY <1>1 DEF RotationInv, TypeOK, Sequences
<1>3. ASSUME NEW x \in Sequences, NEW t \in Nat, now <= t, Superseded(x, t)
      PROVE  Superseded(x, t)'
  <2>1. PICK j \in present : j > x /\ starts_at[j] + Hour + TokenDuration <= t
    BY <1>3 DEF Superseded
  <2>2. CASE j # k
    BY <1>2, <2>1, <2>2 DEF Superseded
  <2>3. CASE j = k
    <3>1. y > x
      BY <1>1, <2>1, <2>3 DEF RotationInv, TypeOK, Sequences
    <3>2. starts_at[y] + Hour + TokenDuration \in Nat /\ now \in Nat
      BY RotatorAssumption DEF RotationInv, TypeOK
    <3>3. starts_at[y] + Hour + TokenDuration <= t
      BY <1>1, <1>3, <3>2
    <3> QED
      BY <1>2, <3>1, <3>3 DEF Superseded
  <2> QED
    BY <2>2, <2>3
<1>4. ASSUME NEW x \in Sequences, NEW j \in present, x <= j
      PROVE  \E i \in present' : x <= i
  <2>1. CASE j # k
    BY <1>4, <2>1
  <2>2. CASE j = k
    BY <1>1, <1>2, <1>4, <2>2 DEF RotationInv, TypeOK, Sequences
  <2> QED
    BY <2>1, <2>2
<1>5. SomeStarted'
  <2>1. starts_at'[y] <= now'
    BY <1>1, <1>2, RotatorAssumption DEF RotationInv, TypeOK
  <2> QED
    BY <1>2, <2>1 DEF SomeStarted
<1> QED
  BY <1>1, <1>2, <1>3, <1>4, <1>5

LEMMA DeleteKeyKeeps ==
  ASSUME RotationInv, NEW r \in Replicas, NEW k \in Sequences, DeleteKey(r, k)
  PROVE  RotationInv'
<1>1. /\ UNCHANGED <<now, lock, pc, sweepNow, seenStarts, seenDeletes, valid, next, request, losses>>
      /\ todo' = [todo EXCEPT ![r] = @ \ {k}]
      /\ k \in todo[r] /\ ShouldDelete(seenDeletes[r][k], sweepNow[r])
  BY DEF DeleteKey, Takes, Drop
<1>2. SweepsBehind'
  BY <1>1 DEF RotationInv, TypeOK, SweepsBehind
<1>3. CASE UNCHANGED keyVars
  <2>1. TypeOK' /\ DoomedCovered' /\ TodoBounded'
    BY <1>1, <1>3, TableFrame
    DEF RotationInv, TypeOK, DoomedCovered, TodoBounded, keyVars
  <2> QED
    BY <1>1, <1>2, <1>3, <2>1, TableFrame DEF RotationInv
<1>4. CASE /\ present' = present \ {k}
           /\ starts_at' = [starts_at EXCEPT ![k] = 0]
           /\ deletes_at' = [deletes_at EXCEPT ![k] = Null]
  <2>1. TypeOK'
    BY <1>1, <1>4 DEF RotationInv, TypeOK, Times
  <2>2. RetiredCovered'
    <3> SUFFICES ASSUME NEW x \in present', deletes_at'[x] # Null
                 PROVE  Superseded(x, Later(deletes_at[x], now))'
      BY DEF RetiredCovered
    <3>1. x \in present /\ deletes_at'[x] = deletes_at[x]
      BY <1>4 DEF RotationInv, TypeOK
    <3>2. Later(deletes_at[x], now)' = Later(deletes_at[x], now)
      BY <1>1, <3>1 DEF Later
    <3>3. /\ Superseded(x, Later(deletes_at[x], now))
          /\ Later(deletes_at[x], now) \in Nat /\ now <= Later(deletes_at[x], now)
      BY <3>1, LaterNat DEF RotationInv, RetiredCovered
    <3>4. x \in Sequences
      BY <3>1 DEF RotationInv, TypeOK
    <3>5. \A t \in Nat : now <= t /\ Superseded(x, t) => Superseded(x, t)'
      BY <1>1, <1>4, <3>4, RemovalFrame
    <3> QED
      BY <3>2, <3>3, <3>5 DEF Superseded
  <2>3. DoomedCovered'
    <3> SUFFICES ASSUME NEW p \in Replicas, NEW x \in todo'[p],
                        ShouldDelete(seenDeletes'[p][x], sweepNow'[p])
                 PROVE  Superseded(x, now)'
      BY DEF DoomedCovered
    <3>1. x \in todo[p] /\ x \in Sequences /\ now \in Nat
      BY <1>1 DEF RotationInv, TypeOK
    <3>2. Superseded(x, now)
      BY <1>1, <3>1 DEF RotationInv, DoomedCovered
    <3>3. \A t \in Nat : now <= t /\ Superseded(x, t) => Superseded(x, t)'
      BY <1>1, <1>4, <3>1, RemovalFrame
    <3> QED
      BY <1>1, <3>1, <3>2, <3>3 DEF Superseded
  <2>4. SomeStarted'
    BY <1>1, <1>4, RemovalFrame
  <2>5. TodoBounded'
    <3> SUFFICES ASSUME NEW p \in Replicas, NEW x \in todo'[p]
                 PROVE  /\ \E j \in present' : x <= j
                        /\ pc'[p] = "rotate" => x < next'[p]
      BY DEF TodoBounded
    <3>1. x \in todo[p] /\ x \in Sequences
      BY <1>1 DEF RotationInv, TypeOK
    <3>2. (\E j \in present : x <= j) /\ (pc[p] = "rotate" => x < next[p])
      BY <3>1 DEF RotationInv, TodoBounded
    <3> QED
      BY <1>1, <1>4, <3>1, <3>2, RemovalFrame
  <2> QED
    BY <1>2, <2>1, <2>2, <2>3, <2>4, <2>5 DEF RotationInv
<1> QED
  BY <1>3, <1>4 DEF DeleteKey

LEMMA RotationNext == RotationInv /\ [Next]_vars => RotationInv'
<1> SUFFICES ASSUME RotationInv, [Next]_vars PROVE RotationInv'
  OBVIOUS
<1>1. ASSUME NEW r \in Replicas, Sweep(r) PROVE RotationInv'
  BY <1>1, BeginKeeps, ListKeeps, ListFailsKeeps, EndLoopKeeps, InsertNewKeyKeeps, ReleaseKeeps,
     DeleteKeyKeeps, BeginRotateKeeps, RotateKeeps, RotateFailsKeeps, KeepKeyKeeps DEF Sweep
<1>2. CASE UNCHANGED vars
  <2>1. UNCHANGED <<now, keyVars>> /\ UNCHANGED sweepVars /\ UNCHANGED <<lock, request, losses>>
    BY <1>2 DEF vars
  <2>2. TypeOK' /\ DoomedCovered' /\ TodoBounded' /\ SweepsBehind'
    BY <2>1, TableFrame
    DEF RotationInv, TypeOK, DoomedCovered, TodoBounded, SweepsBehind, keyVars, sweepVars
  <2> QED
    BY <2>1, <2>2, TableFrame DEF RotationInv
<1> QED
  BY <1>1, <1>2, CrashKeeps, RequestFindsNoneKeeps, RequestInsertsKeeps, LoseLockKeeps,
     PooledLockEndsKeeps, TickKeeps DEF Next

LEMMA RotationInvariant == Spec => []RotationInv
  BY RotationInit, RotationNext, PTL DEF Spec

\* Once a feature has a key it has an active one at every moment: the last
\* key that has started is not expired, because an expired key has been
\* superseded by a later one that started before.
THEOREM NoGap == Spec => []AlwaysActive
<1>1. RotationInv => AlwaysActive
  <2> SUFFICES ASSUME RotationInv, present # {} PROVE \E k \in Sequences : Active(k)
    BY DEF AlwaysActive
  <2> DEFINE S == {k \in present : starts_at[k] <= now}
  <2>1. S # {} /\ S \subseteq 1 .. MaxSequence /\ MaxSequence \in Nat
    BY RotatorAssumption DEF RotationInv, SomeStarted, TypeOK, Sequences
  <2>2. PICK m \in S : \A j \in S : j <= m
    <3> HIDE DEF S
    <3> QED
      BY <2>1, LargestExists
  <2>3. ASSUME deletes_at[m] # Null, deletes_at[m] <= now PROVE FALSE
    <3>1. Later(deletes_at[m], now) = now
      BY <2>3, LaterNat DEF Later, RotationInv, TypeOK
    <3>2. PICK j \in present : j > m /\ starts_at[j] + Hour + TokenDuration <= now
      BY <2>3, <3>1 DEF RotationInv, RetiredCovered, Superseded
    <3>3. starts_at[j] <= now
      BY <3>2, RotatorAssumption DEF RotationInv, TypeOK
    <3>4. j \in S
      BY <3>3
    <3> QED
      BY <2>2, <3>2, <3>4 DEF RotationInv, TypeOK, Sequences
  <2>4. deletes_at[m] = Null \/ deletes_at[m] > now
    BY <2>3, LaterNat DEF RotationInv, TypeOK
  <2> QED
    BY <2>2, <2>4 DEF Active, RotationInv, TypeOK
<1> QED
  BY <1>1, RotationInvariant, PTL

\* A key is removed only after a later key has been active for the hour of
\* grace and for the life of a token, even when sweeps work on stale lists,
\* rotate the same key twice or lose the lock.
THEOREM NoEarlyRemoval == Spec => RemovedOnceSuperseded
<1> DEFINE Removal ==
      \A k \in present \ present' :
          \E j \in present' : j > k /\ starts_at[j] + Hour + TokenDuration <= now
<1>1. RotationInv /\ [Next]_vars => [Removal]_vars
  <2> SUFFICES ASSUME RotationInv, Next, NEW k \in present \ present'
               PROVE  \E j \in present' : j > k /\ starts_at[j] + Hour + TokenDuration <= now
    OBVIOUS
  <2>1. PICK r \in Replicas, x \in Sequences : DeleteKey(r, x)
    BY DEF Next, Sweep, Begin, List, ListFails, EndLoop, InsertNewKey, Release, BeginRotate, Rotate,
           RotateFails, KeepKey, Crash, RequestFindsNone, RequestInserts, LoseLock, PooledLockEnds, Tick,
           Insert, keyVars
  <2>2. /\ present' = present \ {x} /\ starts_at' = [starts_at EXCEPT ![x] = 0] /\ now' = now
        /\ x \in todo[r] /\ ShouldDelete(seenDeletes[r][x], sweepNow[r])
    BY <2>1 DEF DeleteKey, Takes, keyVars
  <2>3. PICK j \in present' : j > x /\ starts_at'[j] + Hour + TokenDuration <= now
    BY <2>2, RemovalFrame
  <2>4. k = x /\ j # x /\ j \in Sequences
    BY <2>2 DEF RotationInv, TypeOK
  <2>5. starts_at'[j] = starts_at[j]
    BY <2>2, <2>4 DEF RotationInv, TypeOK
  <2> QED
    BY <2>3, <2>4, <2>5
<1> QED
  BY <1>1, RotationInvariant, PTL DEF Spec, RemovedOnceSuperseded

(* While no lock is lost, one sweep runs at a time.                        *)

HolderSweeps == \A r \in Replicas : pc[r] # "idle" => lock = r

\* What the sweep has seen of a key is still so, unless the key was removed
\* and a request has put a first key in its place.
ListIsFresh ==
    \A r \in Replicas : \A k \in todo[r] \cap present : deletes_at[k] \in {seenDeletes[r][k], Null}

RotatesUnretired ==
    \A r \in Replicas : pc[r] = "rotate" =>
        \A k \in todo[r] : (\A j \in todo[r] : k <= j) => seenDeletes[r][k] = Null

LockInv == losses = 0 => HolderSweeps /\ ListIsFresh /\ RotatesUnretired

LEMMA LockInit == Init => LockInv
  BY DEF Init, LockInv, HolderSweeps, ListIsFresh, RotatesUnretired

\* A sweep keeps the lock and its list, and the table is left alone.
LEMMA LockSweepStep ==
  ASSUME RotationInv, LockInv, NEW r \in Replicas, UNCHANGED <<keyVars, losses>>,
         Begin(r) \/ List(r) \/ ListFails(r) \/ EndLoop(r) \/ Release(r)
  PROVE  LockInv'
<1> SUFFICES ASSUME losses = 0 PROVE HolderSweeps' /\ ListIsFresh' /\ RotatesUnretired'
  BY DEF LockInv
<1> USE DEF RotationInv, TypeOK, SweepsBehind, LockInv
<1>1. CASE Begin(r)
  <2>1. \A p \in Replicas : pc[p] = "idle"
    BY <1>1, RotatorAssumption DEF Begin, HolderSweeps
  <2> QED
    BY <1>1, <2>1 DEF Begin, HolderSweeps, ListIsFresh, RotatesUnretired, keyVars
<1>2. CASE List(r)
  BY <1>2 DEF List, HolderSweeps, ListIsFresh, RotatesUnretired, keyVars
<1>3. CASE ListFails(r)
  BY <1>3 DEF ListFails, HolderSweeps, ListIsFresh, RotatesUnretired, keyVars
<1>4. CASE EndLoop(r)
  BY <1>4 DEF EndLoop, HolderSweeps, ListIsFresh, RotatesUnretired, keyVars
<1>5. CASE Release(r)
  <2>1. \A p \in Replicas : p # r => pc[p] = "idle"
    BY <1>5 DEF Release, HolderSweeps
  <2> QED
    BY <1>5, <2>1 DEF Release, Leave, Unlock, HolderSweeps, ListIsFresh, RotatesUnretired, keyVars
<1> QED
  BY <1>1, <1>2, <1>3, <1>4, <1>5

LEMMA LockKeyStep ==
  ASSUME RotationInv, LockInv, NEW r \in Replicas, NEW k \in Sequences, UNCHANGED <<keyVars, losses>>,
         BeginRotate(r, k) \/ RotateFails(r, k) \/ KeepKey(r, k) \/ DeleteKey(r, k)
  PROVE  LockInv'
<1> SUFFICES ASSUME losses = 0 PROVE HolderSweeps' /\ ListIsFresh' /\ RotatesUnretired'
  BY DEF LockInv
<1> USE DEF RotationInv, TypeOK, LockInv
<1>1. CASE BeginRotate(r, k)
  <2>1. seenDeletes[r][k] = Null /\ k \in todo[r] /\ \A j \in todo[r] : k <= j
    BY <1>1 DEF BeginRotate, ShouldRotate, Takes
  <2>2. \A x \in todo[r] : (\A j \in todo[r] : x <= j) => x = k
    BY <2>1 DEF Sequences
  <2>3. RotatesUnretired'
    BY <1>1, <2>1, <2>2 DEF BeginRotate, RotatesUnretired
  <2> QED
    BY <1>1, <2>3 DEF BeginRotate, HolderSweeps, ListIsFresh, keyVars, Takes
<1>2. CASE RotateFails(r, k)
  BY <1>2 DEF RotateFails, Drop, HolderSweeps, ListIsFresh, RotatesUnretired, keyVars
<1>3. CASE KeepKey(r, k)
  BY <1>3 DEF KeepKey, Takes, Drop, HolderSweeps, ListIsFresh, RotatesUnretired, keyVars
<1>4. CASE DeleteKey(r, k)
  BY <1>4 DEF DeleteKey, Takes, Drop, HolderSweeps, ListIsFresh, RotatesUnretired, keyVars
<1> QED
  BY <1>1, <1>2, <1>3, <1>4

LEMMA LockDelete ==
  ASSUME RotationInv, LockInv, NEW r \in Replicas, NEW k \in Sequences, DeleteKey(r, k)
  PROVE  LockInv'
<1>1. CASE UNCHANGED keyVars
  <2>1. UNCHANGED <<keyVars, losses>>
    BY <1>1 DEF DeleteKey
  <2> QED
    BY <2>1, LockKeyStep
<1>2. CASE present' = present \ {k} /\ deletes_at' = [deletes_at EXCEPT ![k] = Null]
  BY <1>2 DEF DeleteKey, Takes, Drop, RotationInv, TypeOK, LockInv, HolderSweeps, ListIsFresh,
              RotatesUnretired
<1> QED
  BY <1>1, <1>2 DEF DeleteKey

\* A row that was not there starts without a date of deletion.
LEMMA LockInsert ==
  ASSUME RotationInv, ListIsFresh, NEW w, w \in Sequences \ present, present' = present \cup {w},
         deletes_at' = [deletes_at EXCEPT ![w] = Null], UNCHANGED <<todo, seenDeletes>>
  PROVE  ListIsFresh'
  BY DEF ListIsFresh, RotationInv, TypeOK

LEMMA LockNewKey ==
  ASSUME RotationInv, LockInv, NEW r \in Replicas, InsertNewKey(r)
  PROVE  LockInv'
<1> SUFFICES ASSUME losses = 0 PROVE HolderSweeps' /\ ListIsFresh' /\ RotatesUnretired'
  BY DEF LockInv, InsertNewKey
<1>1. HolderSweeps' /\ RotatesUnretired'
  BY DEF InsertNewKey, RotationInv, TypeOK, LockInv, HolderSweeps, RotatesUnretired
<1>2. ListIsFresh'
  <2>1. CASE UNCHANGED keyVars
    BY <2>1 DEF InsertNewKey, LockInv, ListIsFresh, keyVars
  <2>2. CASE ~ UNCHANGED keyVars
    BY <2>2, LockInsert DEF InsertNewKey, Insert, LockInv
  <2> QED
    BY <2>1, <2>2
<1> QED
  BY <1>1, <1>2

LEMMA LockRequest ==
  ASSUME RotationInv, LockInv, NEW q \in Requests, RequestInserts(q)
  PROVE  LockInv'
<1> SUFFICES ASSUME losses = 0 PROVE HolderSweeps' /\ ListIsFresh' /\ RotatesUnretired'
  BY DEF LockInv, RequestInserts
<1>1. HolderSweeps' /\ RotatesUnretired'
  BY DEF RequestInserts, LockInv, HolderSweeps, RotatesUnretired, sweepVars
<1>2. ListIsFresh'
  <2>1. CASE UNCHANGED keyVars
    BY <2>1 DEF RequestInserts, LockInv, ListIsFresh, keyVars, sweepVars
  <2>2. CASE ~ UNCHANGED keyVars
    BY <2>2, LockInsert DEF RequestInserts, Insert, LockInv, sweepVars
  <2> QED
    BY <2>1, <2>2
<1> QED
  BY <1>1, <1>2

\* Rotation retires a key that is not retired, and inserts its successor.
LEMMA RotateRetires ==
  ASSUME RotationInv, LockInv, losses = 0, NEW r \in Replicas, NEW k \in Sequences, Rotate(r, k)
  PROVE  /\ deletes_at[k] = Null
         /\ \A x \in present : x # k => deletes_at'[x] = deletes_at[x]
         /\ deletes_at'[next[r]] = Null /\ present' = present \cup {next[r]}
         /\ next[r] \in Sequences \ present
<1>1. seenDeletes[r][k] = Null
  BY DEF Rotate, LockInv, RotatesUnretired
<1>2. deletes_at[k] = Null
  BY <1>1 DEF Rotate, LockInv, ListIsFresh
<1>3. next[r] \in Sequences \ present /\ present' = present \cup {next[r]}
  BY DEF Rotate, Insert
<1> QED
  BY <1>2, <1>3 DEF Rotate, RotationInv, TypeOK

LEMMA LockRotate ==
  ASSUME RotationInv, LockInv, NEW r \in Replicas, NEW k \in Sequences, Rotate(r, k)
  PROVE  LockInv'
<1> SUFFICES ASSUME losses = 0 PROVE HolderSweeps' /\ ListIsFresh' /\ RotatesUnretired'
  BY DEF LockInv, Rotate
<1>1. HolderSweeps' /\ RotatesUnretired'
  BY DEF Rotate, Drop, RotationInv, TypeOK, LockInv, HolderSweeps, RotatesUnretired
<1>2. \A p \in Replicas : p # r => todo'[p] = {}
  <2>1. \A p \in Replicas : p # r => pc[p] = "idle"
    BY DEF Rotate, LockInv, HolderSweeps
  <2> QED
    BY <2>1 DEF Rotate, Drop, RotationInv, TypeOK, SweepsBehind
<1>3. todo'[r] = todo[r] \ {k} /\ UNCHANGED seenDeletes
  BY DEF Rotate, Drop, RotationInv, TypeOK
<1>4. ASSUME NEW x \in todo'[r] \cap present' PROVE deletes_at'[x] \in {seenDeletes'[r][x], Null}
  <2>1. CASE x = next[r]
    BY <2>1, RotateRetires
  <2>2. CASE x # next[r]
    <3>1. x \in present /\ x # k /\ x \in todo[r]
      BY <1>3, <1>4, <2>2, RotateRetires
    <3>2. deletes_at'[x] = deletes_at[x]
      BY <3>1, RotateRetires
    <3> QED
      BY <1>3, <3>1, <3>2 DEF LockInv, ListIsFresh
  <2> QED
    BY <2>1, <2>2
<1> QED
  BY <1>1, <1>2, <1>4 DEF ListIsFresh

LEMMA LockNext == RotationInv /\ LockInv /\ [Next]_vars => LockInv'
<1> SUFFICES ASSUME RotationInv, LockInv, [Next]_vars PROVE LockInv'
  OBVIOUS
<1>1. ASSUME NEW r \in Replicas, Sweep(r) PROVE LockInv'
  <2>1. CASE Begin(r) \/ List(r) \/ ListFails(r) \/ EndLoop(r) \/ Release(r)
    <3>1. UNCHANGED <<keyVars, losses>>
      BY <2>1 DEF Begin, List, ListFails, EndLoop, Release
    <3> QED
      BY <2>1, <3>1, LockSweepStep
  <2>2. ASSUME NEW k \in Sequences, BeginRotate(r, k) \/ RotateFails(r, k) \/ KeepKey(r, k)
        PROVE  LockInv'
    <3>1. UNCHANGED <<keyVars, losses>>
      BY <2>2 DEF BeginRotate, RotateFails, KeepKey
    <3> QED
      BY <2>2, <3>1, LockKeyStep
  <2> QED
    BY <1>1, <2>1, <2>2, LockNewKey, LockDelete, LockRotate DEF Sweep
<1>2. ASSUME NEW r \in Replicas, Crash(r) PROVE LockInv'
  BY <1>2 DEF Crash, LockInv, RotationInv, TypeOK
<1>3. CASE LoseLock
  BY <1>3 DEF LoseLock, LockInv, RotationInv, TypeOK
<1>5. CASE PooledLockEnds
  BY <1>5 DEF PooledLockEnds, LockInv, HolderSweeps, ListIsFresh, RotatesUnretired, keyVars, sweepVars
<1>4. CASE Tick \/ UNCHANGED vars \/ \E q \in Requests : RequestFindsNone(q)
  BY <1>4 DEF Tick, vars, RequestFindsNone, LockInv, HolderSweeps, ListIsFresh, RotatesUnretired,
              keyVars, sweepVars
<1> QED
  BY <1>1, <1>2, <1>3, <1>4, <1>5, LockRequest DEF Next

LEMMA LockInvariant == Spec => [](RotationInv /\ LockInv)
<1>1. Init => RotationInv /\ LockInv
  BY RotationInit, LockInit
<1>2. RotationInv /\ LockInv /\ [Next]_vars => (RotationInv /\ LockInv)'
  BY RotationNext, LockNext
<1> QED
  BY <1>1, <1>2, PTL DEF Spec

\* As long as no lock connection breaks, a retired key keeps its date of
\* deletion: the lock keeps out a second sweep, so the list a sweep works on
\* is as the table was, except for a first key that a request has inserted.
THEOREM RetiredKeysStay == Spec => RetiredOnce
<1> DEFINE Stay ==
      losses' = 0 =>
          \A k \in present \cap present' :
              deletes_at[k] # Null => deletes_at'[k] = deletes_at[k]
<1>1. RotationInv /\ LockInv /\ [Next]_vars => [Stay]_vars
  <2> SUFFICES ASSUME RotationInv, LockInv, Next, losses' = 0, NEW k \in present \cap present',
                      deletes_at[k] # Null
               PROVE  deletes_at'[k] = deletes_at[k]
    OBVIOUS
  <2>1. losses = 0
    BY DEF Next, Sweep, Begin, List, ListFails, EndLoop, InsertNewKey, Release, BeginRotate, Rotate,
           RotateFails, KeepKey, DeleteKey, Crash, RequestFindsNone, RequestInserts, LoseLock, PooledLockEnds, Tick,
           RotationInv, TypeOK
  <2>2. ASSUME NEW r \in Replicas, Sweep(r) \/ Crash(r) PROVE deletes_at'[k] = deletes_at[k]
    <3>1. ASSUME NEW x \in Sequences, Rotate(r, x) PROVE deletes_at'[k] = deletes_at[k]
      BY <2>1, <3>1, RotateRetires
    <3>2. ASSUME NEW x \in Sequences, DeleteKey(r, x) PROVE deletes_at'[k] = deletes_at[k]
      BY <3>2 DEF DeleteKey, keyVars, RotationInv, TypeOK
    <3>3. CASE InsertNewKey(r)
      BY <3>3 DEF InsertNewKey, Insert, keyVars, RotationInv, TypeOK
    <3> QED
      BY <2>2, <3>1, <3>2, <3>3
      DEF Sweep, Begin, List, ListFails, EndLoop, Release, BeginRotate, RotateFails, KeepKey, Crash,
          keyVars
  <2>3. ASSUME NEW q \in Requests, RequestInserts(q) PROVE deletes_at'[k] = deletes_at[k]
    BY <2>3 DEF RequestInserts, Insert, keyVars, RotationInv, TypeOK
  <2> QED
    BY <2>2, <2>3 DEF Next, RequestFindsNone, LoseLock, PooledLockEnds, Tick, keyVars
<1> QED
  BY <1>1, LockInvariant, PTL DEF Spec, RetiredOnce
=============================================================================
