--------------------------- MODULE Process_proofs ---------------------------
(***************************************************************************)
(* Proofs about the parts of a coderd process that share no state with     *)
(* each other: the session cache, the circuit breaker, and the shutdown    *)
(* with the buffers it flushes.  They are in one module because each is    *)
(* short; no lemma of one part uses another.                               *)
(***************************************************************************)
EXTENDS AuthSessions, CircuitBreaker, Shutdown, TLAPS

-----------------------------------------------------------------------------
(* AuthSessions: how long a revoked session can live in a cache, for any   *)
(* number of replicas, users and tokens and any TTL.                       *)


\* Only tokens that were given out are cached or being read.
OnlyIssued == \A r \in Replicas : entries[r] \subseteq issued /\ found[r] \subseteq issued

\* A read that saw the session as valid is younger than its lag, and an
\* entry made from such a read is at most one lag younger than the revocation.
AgesRelate ==
    \A r \in Replicas : \A t \in Tokens :
        ~Valid(t) => /\ t \in found[r] => revoked_for[t] <= lag[r][t]
                     /\ t \in entries[r] => revoked_for[t] <= cached_for[r][t] + MaxLag

SessionInv == TypeOK /\ OnlyIssued /\ AgesRelate

LEMMA SessionInit == Init => SessionInv
  BY SessionAssumption DEF Init, SessionInv, TypeOK, OnlyIssued, AgesRelate

\* Replacing a cache's content keeps its type.
LEMMA CacheType ==
  ASSUME TypeOK, NEW r \in Replicas, NEW kept \in SUBSET Tokens, NEW fresh \in SUBSET Tokens,
         Cache(r, kept, fresh)
  PROVE  /\ entries' \in [Replicas -> SUBSET Tokens]
         /\ cached_for' \in [Replicas -> [Tokens -> 0 .. Ttl]]
         /\ \A q \in Replicas \ {r} : entries'[q] = entries[q] /\ cached_for'[q] = cached_for[q]
         /\ entries'[r] = kept \cup fresh
         /\ \A t \in Tokens : cached_for'[r][t] = IF t \in kept THEN cached_for[r][t] ELSE 0
  BY SessionAssumption DEF TypeOK, Cache

\* A step that only removes cache entries or pending reads keeps the invariant.
LEMMA DropKeeps ==
  ASSUME SessionInv, NEW r \in Replicas, NEW kept \in SUBSET entries[r], Cache(r, kept, {}),
         UNCHANGED <<issued, sessions, deleted, revoked_for>>,
         insert_count' \in [Replicas -> 0 .. SweepInterval - 1],
         evicting' \in [Replicas -> SUBSET Tokens],
         \/ UNCHANGED <<found, lag>>
         \/ /\ found' = [found EXCEPT ![r] = {}]
            /\ lag' = [lag EXCEPT ![r] = [t \in Tokens |-> 0]]
  PROVE  SessionInv'
<1>1. kept \in SUBSET Tokens
  BY DEF SessionInv, TypeOK
<1>2. /\ entries' \in [Replicas -> SUBSET Tokens]
      /\ cached_for' \in [Replicas -> [Tokens -> 0 .. Ttl]]
      /\ \A q \in Replicas \ {r} : entries'[q] = entries[q] /\ cached_for'[q] = cached_for[q]
      /\ entries'[r] = kept \cup {}
      /\ \A t \in Tokens : cached_for'[r][t] = IF t \in kept THEN cached_for[r][t] ELSE 0
  <2>1. {} \in SUBSET Tokens
    OBVIOUS
  <2> QED
    BY <1>1, <2>1, CacheType DEF SessionInv
<1>3. /\ found' \in [Replicas -> SUBSET Tokens]
      /\ lag' \in [Replicas -> [Tokens -> 0 .. MaxLag]]
      /\ \A q \in Replicas : \A t \in found'[q] : t \in found[q] /\ lag'[q][t] = lag[q][t]
  <2>1. CASE UNCHANGED <<found, lag>>
    BY <2>1 DEF SessionInv, TypeOK
  <2>2. CASE /\ found' = [found EXCEPT ![r] = {}]
             /\ lag' = [lag EXCEPT ![r] = [t \in Tokens |-> 0]]
    <3>1. [t \in Tokens |-> 0] \in [Tokens -> 0 .. MaxLag]
      BY SessionAssumption
    <3> QED
      BY <2>2, <3>1 DEF SessionInv, TypeOK
  <2> QED
    BY <2>1, <2>2
<1>4. TypeOK'
  BY <1>2, <1>3 DEF SessionInv, TypeOK
<1>5. OnlyIssued'
  BY <1>2, <1>3 DEF SessionInv, OnlyIssued
<1>6. AgesRelate'
  <2>1. \A t : Valid(t)' <=> Valid(t)
    BY DEF Valid
  <2>2. \A q \in Replicas : \A t \in entries'[q] : t \in entries[q] /\ cached_for'[q][t] = cached_for[q][t]
    BY <1>1, <1>2
  <2> QED
    BY <1>3, <2>1, <2>2 DEF SessionInv, AgesRelate
<1> QED
  BY <1>4, <1>5, <1>6 DEF SessionInv

\* A revocation stamps exactly the tokens that were valid until now.
LEMMA RevokeKeeps ==
  ASSUME SessionInv, NEW S \in SUBSET Tokens, Revoke(S),
         UNCHANGED <<issued, cacheVars, found, lag>>,
         sessions' \subseteq sessions, deleted' \subseteq Users,
         evicting' \in [Replicas -> SUBSET Tokens],
         \A t \in Tokens : ~Valid(t)' => ~Valid(t) \/ t \in S
  PROVE  SessionInv'
<1>1. /\ revoked_for' \in [Tokens -> 0 .. Ttl + MaxLag]
      /\ \A t \in Tokens : revoked_for'[t] = IF t \in S THEN 0 ELSE revoked_for[t]
  BY SessionAssumption DEF Revoke, SessionInv, TypeOK
<1>2. TypeOK'
  BY <1>1 DEF SessionInv, TypeOK, cacheVars
<1>3. OnlyIssued'
  BY DEF SessionInv, OnlyIssued, cacheVars
<1>4. AgesRelate'
  <2> SUFFICES ASSUME NEW r \in Replicas, NEW t \in Tokens, ~Valid(t)'
               PROVE  /\ t \in found[r] => revoked_for'[t] <= lag[r][t]
                      /\ t \in entries[r] => revoked_for'[t] <= cached_for[r][t] + MaxLag
    BY DEF AgesRelate, cacheVars
  <2>1. lag[r][t] \in Nat /\ cached_for[r][t] \in Nat
    BY SessionAssumption DEF SessionInv, TypeOK
  <2>2. CASE t \in S
    BY <1>1, <2>1, <2>2, SessionAssumption
  <2>3. CASE t \notin S
    BY <1>1, <2>3 DEF SessionInv, AgesRelate
  <2> QED
    BY <2>2, <2>3
<1> QED
  BY <1>2, <1>3, <1>4 DEF SessionInv

LEMMA ReadKeeps ==
  ASSUME SessionInv, NEW r \in Replicas, NEW t \in Tokens, RequestReads(r, t)
  PROVE  SessionInv'
<1>1. TypeOK'
  BY SessionAssumption DEF RequestReads, SessionInv, TypeOK, cacheVars
<1>2. OnlyIssued'
  BY DEF RequestReads, Valid, SessionInv, TypeOK, OnlyIssued, cacheVars
<1>3. AgesRelate'
  BY DEF RequestReads, Valid, SessionInv, TypeOK, AgesRelate, cacheVars
<1> QED
  BY <1>1, <1>2, <1>3 DEF SessionInv

LEMMA InsertKeeps ==
  ASSUME SessionInv, NEW r \in Replicas, NEW t \in Tokens, RequestInserts(r, t)
  PROVE  SessionInv'
<1>1. PICK kept \in SUBSET entries[r] : t \notin kept /\ Cache(r, kept, {t})
  BY DEF RequestInserts, Fresh
<1>2. kept \in SUBSET Tokens
  BY DEF SessionInv, TypeOK
<1>3. /\ entries' \in [Replicas -> SUBSET Tokens]
      /\ cached_for' \in [Replicas -> [Tokens -> 0 .. Ttl]]
      /\ \A q \in Replicas \ {r} : entries'[q] = entries[q] /\ cached_for'[q] = cached_for[q]
      /\ entries'[r] = kept \cup {t}
      /\ \A x \in Tokens : cached_for'[r][x] = IF x \in kept THEN cached_for[r][x] ELSE 0
  <2>1. {t} \in SUBSET Tokens
    OBVIOUS
  <2> QED
    BY <1>1, <1>2, <2>1, CacheType DEF SessionInv
<1>4. /\ found' = [found EXCEPT ![r] = @ \ {t}] /\ lag' = [lag EXCEPT ![r][t] = 0]
      /\ t \in found[r]
      /\ UNCHANGED <<issued, sessions, deleted, revoked_for, evicting>>
  BY DEF RequestInserts
<1>5. insert_count' \in [Replicas -> 0 .. SweepInterval - 1]
  BY SessionAssumption DEF RequestInserts, SessionInv, TypeOK
<1>6. TypeOK'
  <2>1. found' \in [Replicas -> SUBSET Tokens]
    BY <1>4 DEF SessionInv, TypeOK
  <2>2. lag' \in [Replicas -> [Tokens -> 0 .. MaxLag]]
    BY <1>4, SessionAssumption DEF SessionInv, TypeOK
  <2> QED
    BY <1>3, <1>4, <1>5, <2>1, <2>2 DEF SessionInv, TypeOK
<1>7. OnlyIssued'
  BY <1>3, <1>4 DEF SessionInv, TypeOK, OnlyIssued
<1>8. AgesRelate'
  <2> SUFFICES ASSUME NEW q \in Replicas, NEW x \in Tokens, ~Valid(x)
               PROVE  /\ x \in found'[q] => revoked_for[x] <= lag'[q][x]
                      /\ x \in entries'[q] => revoked_for[x] <= cached_for'[q][x] + MaxLag
    BY <1>4 DEF AgesRelate, Valid
  <2>1. x \in found'[q] => revoked_for[x] <= lag'[q][x]
    BY <1>4 DEF SessionInv, TypeOK, AgesRelate
  <2>2. CASE q = r /\ x = t
    <3>1. revoked_for[t] <= lag[r][t]
      BY <1>4, <2>2 DEF SessionInv, AgesRelate
    <3>2. lag[r][t] <= MaxLag /\ lag[r][t] \in Nat /\ revoked_for[t] \in Nat
      BY SessionAssumption DEF SessionInv, TypeOK
    <3>3. cached_for'[r][t] = 0
      BY <1>1, <1>3
    <3> QED
      BY <2>1, <2>2, <3>1, <3>2, <3>3, SessionAssumption
  <2>3. CASE ~(q = r /\ x = t)
    BY <1>3, <2>1, <2>3 DEF SessionInv, AgesRelate
  <2> QED
    BY <2>2, <2>3
<1> QED
  BY <1>6, <1>7, <1>8 DEF SessionInv

LEMMA TickKeeps ==
  ASSUME SessionInv, Tick
  PROVE  SessionInv'
<1>1. /\ \A a \in 0 .. Ttl : Older(a, Ttl) \in 0 .. Ttl
      /\ \A a \in 0 .. Ttl + MaxLag : Older(a, Ttl + MaxLag) \in 0 .. Ttl + MaxLag
  BY SessionAssumption DEF Older
<1>2. revoked_for' \in [Tokens -> 0 .. Ttl + MaxLag]
  BY <1>1, SessionAssumption DEF SessionInv, TypeOK, Tick
<1>3. cached_for' \in [Replicas -> [Tokens -> 0 .. Ttl]]
  BY <1>1, SessionAssumption DEF SessionInv, TypeOK, Tick
<1>4. lag' \in [Replicas -> [Tokens -> 0 .. MaxLag]]
  <2>1. ASSUME NEW r \in Replicas, NEW t \in Tokens
        PROVE  (IF t \in found[r] THEN lag[r][t] + 1 ELSE 0) \in 0 .. MaxLag
    BY SessionAssumption DEF SessionInv, TypeOK, Tick
  <2> QED
    BY <2>1 DEF Tick
<1>5. TypeOK'
  BY <1>2, <1>3, <1>4 DEF SessionInv, TypeOK, Tick
<1>6. OnlyIssued'
  BY DEF SessionInv, OnlyIssued, Tick
<1>7. AgesRelate'
  <2> SUFFICES ASSUME NEW r \in Replicas, NEW t \in Tokens, ~Valid(t)
               PROVE  /\ t \in found[r] => revoked_for'[t] <= lag'[r][t]
                      /\ t \in entries[r] => revoked_for'[t] <= cached_for'[r][t] + MaxLag
    BY DEF AgesRelate, Valid, Tick
  <2>1. /\ lag[r][t] \in Nat /\ cached_for[r][t] \in 0 .. Ttl /\ revoked_for[t] \in 0 .. Ttl + MaxLag
        /\ lag'[r][t] = IF t \in found[r] THEN lag[r][t] + 1 ELSE 0
        /\ cached_for'[r][t] = IF t \in entries[r] THEN Older(cached_for[r][t], Ttl) ELSE 0
        /\ revoked_for'[t] = IF t \in issued THEN Older(revoked_for[t], Ttl + MaxLag) ELSE 0
    BY SessionAssumption DEF SessionInv, TypeOK, Tick
  <2>2. /\ t \in found[r] => revoked_for[t] <= lag[r][t]
        /\ t \in entries[r] => revoked_for[t] <= cached_for[r][t] + MaxLag
    BY DEF SessionInv, AgesRelate
  <2> QED
    BY <2>1, <2>2, SessionAssumption DEF Older
<1> QED
  BY <1>5, <1>6, <1>7 DEF SessionInv

LEMMA LoginKeeps ==
  ASSUME SessionInv, NEW t \in Tokens, Login(t)
  PROVE  SessionInv'
<1>1. TypeOK' /\ OnlyIssued'
  BY DEF Login, SessionInv, TypeOK, OnlyIssued, cacheVars
<1>2. AgesRelate'
  BY DEF Login, SessionInv, OnlyIssued, AgesRelate, Valid, cacheVars
<1> QED
  BY <1>1, <1>2 DEF SessionInv

LEMMA SessionNext == SessionInv /\ [Next]_vars => SessionInv'
<1> SUFFICES ASSUME SessionInv, [Next]_vars PROVE SessionInv'
  OBVIOUS
<1>0. \A u \in Users : TokensOf(u) \in SUBSET Tokens
  BY DEF TokensOf
<1>1. ASSUME NEW t \in Tokens, Login(t) PROVE SessionInv'
  BY <1>1, LoginKeeps
<1>2. ASSUME NEW r \in Replicas, Restart(r) PROVE SessionInv'
  <2>1. {} \in SUBSET entries[r] /\ 0 \in 0 .. SweepInterval - 1
    BY SessionAssumption
  <2>2. insert_count' \in [Replicas -> 0 .. SweepInterval - 1] /\ evicting' \in [Replicas -> SUBSET Tokens]
    BY <1>2, <2>1 DEF Restart, SessionInv, TypeOK
  <2> QED
    BY <1>2, <2>1, <2>2, DropKeeps DEF Restart
<1>3. ASSUME NEW r \in Replicas, NEW t \in Tokens, RequestReads(r, t) PROVE SessionInv'
  BY <1>3, ReadKeeps
<1>4. ASSUME NEW r \in Replicas, NEW t \in Tokens, RequestInserts(r, t) PROVE SessionInv'
  BY <1>4, InsertKeeps
<1>5. ASSUME NEW r \in Replicas, NEW t \in Tokens, LogoutDeletes(r, t) PROVE SessionInv'
  <2> DEFINE S == {t} \cap {x \in sessions : Valid(x)}
  <2>1. S \in SUBSET Tokens
    OBVIOUS
  <2>2. \A x \in Tokens : ~Valid(x)' => ~Valid(x) \/ x \in S
    BY <1>5 DEF LogoutDeletes, Valid
  <2>3. evicting' \in [Replicas -> SUBSET Tokens]
    BY <1>5 DEF LogoutDeletes, SessionInv, TypeOK
  <2> QED
    BY <1>5, <2>1, <2>2, <2>3, RevokeKeeps DEF LogoutDeletes, SessionInv, TypeOK
<1>6. ASSUME NEW r \in Replicas, NEW t \in Tokens, LogoutEvicts(r, t) PROVE SessionInv'
  BY <1>6, DropKeeps DEF LogoutEvicts, SessionInv, TypeOK
<1>7. ASSUME NEW r \in Replicas, NEW u \in Users, PasswordChanges(r, u) PROVE SessionInv'
  <2>1. TokensOf(u) \cap sessions \in SUBSET Tokens
    BY <1>0
  <2>2. \A x \in Tokens : ~Valid(x)' => ~Valid(x) \/ x \in TokensOf(u) \cap sessions
    BY <1>7 DEF PasswordChanges, Valid
  <2>3. evicting' \in [Replicas -> SUBSET Tokens]
    BY <1>0, <1>7 DEF PasswordChanges, SessionInv, TypeOK
  <2> QED
    BY <1>7, <2>1, <2>2, <2>3, RevokeKeeps DEF PasswordChanges, SessionInv, TypeOK
<1>8. ASSUME NEW r \in Replicas, NEW u \in Users, PasswordEvicts(r, u) PROVE SessionInv'
  BY <1>8, DropKeeps DEF PasswordEvicts, SessionInv, TypeOK
<1>9. ASSUME NEW u \in Users, UserDeleted(u) PROVE SessionInv'
  <2>1. TokensOf(u) \cap sessions \in SUBSET Tokens
    BY <1>0
  <2>2. \A x \in Tokens : ~Valid(x)' => ~Valid(x) \/ x \in TokensOf(u) \cap sessions
    BY <1>9 DEF UserDeleted, Valid, TokensOf
  <2> QED
    BY <1>9, <2>1, <2>2, RevokeKeeps DEF UserDeleted, SessionInv, TypeOK
<1>10. CASE Tick
  BY <1>10, TickKeeps
<1>11. CASE UNCHANGED vars
  BY <1>11 DEF vars, cacheVars, SessionInv, TypeOK, OnlyIssued, AgesRelate, Valid
<1> QED
  BY <1>1, <1>2, <1>3, <1>4, <1>5, <1>6, <1>7, <1>8, <1>9, <1>10, <1>11 DEF Next

\* Ages, caches and reads in flight keep their types.
THEOREM SessionTypes == Spec => []TypeOK
<1>1. SessionInv => TypeOK
  BY DEF SessionInv
<1> QED
  BY SessionInit, SessionNext, <1>1, PTL DEF Spec

\* A cache never accepts a session later than the TTL and one request's lag
\* after it was revoked (SessionCache::get, AuthService::authenticate).
THEOREM RevokedSessionsExpire == Spec => []StaleBounded
<1>1. SessionInv => StaleBounded
  <2> SUFFICES ASSUME SessionInv, NEW r \in Replicas, NEW t \in Tokens, Hit(r, t), ~Valid(t)
               PROVE  revoked_for[t] < Ttl + MaxLag
    BY DEF StaleBounded
  <2>1. revoked_for[t] <= cached_for[r][t] + MaxLag /\ cached_for[r][t] < Ttl
    BY DEF SessionInv, AgesRelate, Hit
  <2>2. revoked_for[t] \in Nat /\ cached_for[r][t] \in Nat
    BY SessionAssumption DEF SessionInv, TypeOK
  <2> QED
    BY <2>1, <2>2, SessionAssumption
<1> QED
  BY SessionInit, SessionNext, <1>1, PTL DEF Spec

-----------------------------------------------------------------------------
(* CircuitBreaker: the counters and the state agree, for any number of     *)
(* callers and any configuration with positive thresholds.                 *)


BreakerInv == BreakerTypeOK /\ CountersMatchState

LEMMA BreakerInitially == BreakerInit => BreakerInv
  BY BreakerAssumption DEF BreakerInit, BreakerInv, BreakerTypeOK, CountersMatchState, Never

\* What every bookkeeping step keeps: it only touches the four fields.
LEMMA OutcomeKeeps ==
  ASSUME BreakerInv, NEW ok \in BOOLEAN, Outcome(ok),
         in_flight' \subseteq Callers, healthy' \in BOOLEAN
  PROVE  BreakerInv'
<1>1. CASE ok
  <2>1. RecordSuccess
    BY <1>1 DEF Outcome
  <2>2. ASSUME NEW n \in 1 .. MaxProbes, CountProbe(n), state # "closed"
        PROVE  BreakerInv'
    BY <2>2, BreakerAssumption DEF BreakerInv, BreakerTypeOK, CountersMatchState, CountProbe, Never
  <2>3. CASE state = "closed"
    BY <2>1, <2>3, BreakerAssumption DEF RecordSuccess, BreakerInv, BreakerTypeOK, CountersMatchState, Never
  <2>4. CASE state = "half_open"
    <3>1. half_open_successes + 1 \in 1 .. MaxProbes
      BY BreakerAssumption DEF BreakerInv, BreakerTypeOK, CountersMatchState
    <3> QED
      BY <2>1, <2>2, <2>4, <3>1 DEF RecordSuccess
  <2>5. CASE state = "open"
    <3>1. 1 \in 1 .. MaxProbes
      BY BreakerAssumption
    <3> QED
      BY <2>1, <2>2, <2>5, <3>1 DEF RecordSuccess
  <2> QED
    BY <2>3, <2>4, <2>5 DEF BreakerInv, BreakerTypeOK
<1>2. CASE ~ok
  <2>1. RecordFailure
    BY <1>2 DEF Outcome
  <2>2. SaturatingAdd(consecutive_failures) \in 0 .. MaxCount
    BY BreakerAssumption DEF SaturatingAdd, BreakerInv, BreakerTypeOK
  <2>3. CASE state \in {"closed", "half_open"}
    BY <2>1, <2>2, <2>3, BreakerAssumption DEF RecordFailure, BreakerInv, BreakerTypeOK, CountersMatchState, Never
  <2>4. CASE state = "open"
    BY <2>1, <2>4, BreakerAssumption DEF RecordFailure, BreakerInv, BreakerTypeOK, CountersMatchState, Never, inner
  <2> QED
    BY <2>3, <2>4 DEF BreakerInv, BreakerTypeOK
<1> QED
  BY <1>1, <1>2

LEMMA TransitionKeeps ==
  ASSUME BreakerInv, MaybeTransitionToHalfOpen,
         in_flight' \subseteq Callers, healthy' \in BOOLEAN
  PROVE  BreakerInv'
  BY BreakerAssumption
  DEF MaybeTransitionToHalfOpen, EffectiveState, ResetDue, BreakerInv, BreakerTypeOK, CountersMatchState, Never

LEMMA BreakerStep == BreakerInv /\ [BreakerNext]_breakerVars => BreakerInv'
<1> SUFFICES ASSUME BreakerInv, [BreakerNext]_breakerVars PROVE BreakerInv'
  OBVIOUS
<1>1. ASSUME NEW c \in Callers, CallStart(c) PROVE BreakerInv'
  BY <1>1, TransitionKeeps DEF CallStart, BreakerInv, BreakerTypeOK
<1>2. ASSUME NEW c \in Callers, CallEnd(c) PROVE BreakerInv'
  BY <1>2, OutcomeKeeps DEF CallEnd, BreakerInv, BreakerTypeOK
<1>3. CASE Report
  BY <1>3, OutcomeKeeps DEF Report, BreakerInv, BreakerTypeOK
<1>4. CASE ReadStatus
  BY <1>4, TransitionKeeps DEF ReadStatus, BreakerInv, BreakerTypeOK
<1>5. CASE DependencyFlips
  BY <1>5 DEF DependencyFlips, inner, BreakerInv, BreakerTypeOK, CountersMatchState
<1>6. CASE BreakerTick
  BY <1>6, BreakerAssumption DEF BreakerTick, BreakerInv, BreakerTypeOK, CountersMatchState, Never
<1>7. CASE UNCHANGED breakerVars
  BY <1>7 DEF breakerVars, inner, BreakerInv, BreakerTypeOK, CountersMatchState
<1> QED
  BY <1>1, <1>2, <1>3, <1>4, <1>5, <1>6, <1>7 DEF BreakerNext

\* An open breaker can always find out that its timeout has passed, a closed
\* one is below its threshold, and the probe count never sticks at its limit
\* (record_success, record_failure, maybe_transition_to_half_open).
THEOREM CountersAgree == BreakerSpec => [](BreakerTypeOK /\ CountersMatchState)
  BY BreakerInitially, BreakerStep, PTL DEF BreakerSpec, BreakerInv

\* The counters stay in their width: the failure counter saturates.
THEOREM CountersInRange == BreakerSpec => []BreakerTypeOK
  BY CountersAgree, PTL

\* A breaker that needs more than one probe never closes from open in one
\* step, whatever success arrives late (record_success in Open).
THEOREM ClosesOnlyProbed == BreakerSpec => NeverClosesUnprobed
<1>1. ASSUME BreakerInv, [BreakerNext]_breakerVars
      PROVE  [MaxProbes > 1 /\ state = "open" => state' # "closed"]_breakerVars
  <2> SUFFICES ASSUME MaxProbes > 1, state = "open" PROVE state' # "closed"
    OBVIOUS
  <2>1. MaybeTransitionToHalfOpen => state' # "closed"
    BY DEF MaybeTransitionToHalfOpen, EffectiveState
  <2>2. ASSUME NEW ok \in BOOLEAN, Outcome(ok) PROVE state' # "closed"
    BY <2>2, BreakerAssumption DEF Outcome, RecordSuccess, RecordFailure, CountProbe, inner
  <2> QED
    BY <1>1, <2>1, <2>2
    DEF BreakerNext, CallStart, CallEnd, Report, ReadStatus, DependencyFlips, BreakerTick, inner, breakerVars, BreakerInv, BreakerTypeOK
<1> QED
  BY CountersAgree, <1>1, PTL DEF BreakerSpec, NeverClosesUnprobed, BreakerInv

-----------------------------------------------------------------------------
(* Shutdown: the order of the audit trail and the closing of the pool, for *)
(* any number of events, any batch size and any grace period.              *)

\* Events a sequence holds.
Held(s, e) == \E i \in 1 .. Len(s) : s[i] = e
Increasing(s) == \A i, j \in 1 .. Len(s) : i < j => s[i] < s[j]

\* Every number in use is that of a recorded event.
OnlyRecorded ==
    \A e \in Events : Held(channel, e) \/ Held(batch, e) \/ Settled(e) => e <= recorded

\* No event is forgotten.
AllAccounted ==
    \A e \in 1 .. recorded : e \in refused \/ Settled(e) \/ Held(batch, e) \/ Held(channel, e)

\* The task has the older events, the channel the younger ones.
QueuesInOrder ==
    /\ Increasing(channel) /\ Increasing(batch)
    /\ \A d, e \in Events : Held(batch, d) /\ Held(channel, e) => d < e
    /\ \A d, e \in Events : Settled(d) /\ Held(channel, e) => d < e

\* What the task holds is younger than what is settled, unless the bulk insert
\* took effect and its answer was lost: then all of it is in the trail.
BatchIsNext == \A d, e \in Events : Settled(d) /\ Held(batch, e) => d < e
BatchIsWritten == \A e \in Events : Held(batch, e) => InTrail(e)

\* Where the flush task is and what it holds.
FlusherConsistent ==
    /\ batch = <<>> <=> flusher \in {"recv", "done"}
    /\ flusher = "window" => Len(batch) < MaxBatchSize
    /\ flusher \in {"write_last", "single_last", "done"} => ~open /\ channel = <<>>
    /\ IF flusher \in {"single", "single_last"} THEN BatchIsNext \/ BatchIsWritten ELSE BatchIsNext

AuditInv == AuditTypeOK /\ OnlyRecorded /\ AllAccounted /\ QueuesInOrder /\ FlusherConsistent

\* While there is budget left no task was cut off or passed over.
CoordinatorInv ==
    /\ running => task <= Len(Tasks)
    /\ task > 1 /\ budget > 0 => flusher = "done"
    /\ task > 2 /\ budget > 0 => tracker = "done"
    /\ task > 3 /\ budget > 0 => worker
    /\ ~pool => flusher = "done" /\ tracker = "done" /\ worker

ShutdownInv == ShutdownTypeOK /\ AuditInv /\ CoordinatorInv

LEMMA HeldAppend ==
  ASSUME NEW s \in Seq(Events), NEW x \in Events
  PROVE  \A e : Held(Append(s, x), e) <=> Held(s, e) \/ e = x
  BY DEF Held

LEMMA HeldTail ==
  ASSUME NEW s \in Seq(Events), s # <<>>
  PROVE  /\ Head(s) \in Events /\ Tail(s) \in Seq(Events) /\ Len(Tail(s)) = Len(s) - 1
         /\ \A e : Held(s, e) <=> e = Head(s) \/ Held(Tail(s), e)
<1>1. Head(s) \in Events /\ Tail(s) \in Seq(Events) /\ Len(Tail(s)) = Len(s) - 1
  OBVIOUS
<1>2. Len(s) \in Nat /\ Len(s) >= 1 /\ Head(s) = s[1]
  OBVIOUS
<1>3. \A i \in 1 .. Len(s) - 1 : Tail(s)[i] = s[i + 1]
  OBVIOUS
<1>4. ASSUME NEW e, Held(s, e) PROVE e = Head(s) \/ Held(Tail(s), e)
  <2>1. PICK i \in 1 .. Len(s) : s[i] = e
    BY <1>4 DEF Held
  <2>2. CASE i = 1
    BY <2>1, <2>2, <1>2
  <2>3. CASE i # 1
    <3>1. i - 1 \in 1 .. Len(Tail(s)) /\ Tail(s)[i - 1] = e
      BY <2>1, <2>3, <1>1, <1>2, <1>3
    <3> QED
      BY <3>1 DEF Held
  <2> QED
    BY <2>2, <2>3
<1>5. ASSUME NEW e, e = Head(s) \/ Held(Tail(s), e) PROVE Held(s, e)
  <2>1. CASE e = Head(s)
    BY <2>1, <1>2 DEF Held
  <2>2. CASE Held(Tail(s), e)
    <3>1. PICK i \in 1 .. Len(Tail(s)) : Tail(s)[i] = e
      BY <2>2 DEF Held
    <3>2. i + 1 \in 1 .. Len(s) /\ s[i + 1] = e
      BY <3>1, <1>1, <1>2, <1>3
    <3> QED
      BY <3>2 DEF Held
  <2> QED
    BY <1>5, <2>1, <2>2
<1> QED
  BY <1>1, <1>4, <1>5

LEMMA HeldConcat ==
  ASSUME NEW s \in Seq(Events), NEW t \in Seq(Events)
  PROVE  \A e : Held(s \o t, e) <=> Held(s, e) \/ Held(t, e)
<1>1. /\ Len(s \o t) = Len(s) + Len(t) /\ Len(s) \in Nat /\ Len(t) \in Nat
      /\ \A i \in 1 .. Len(s) + Len(t) :
            (s \o t)[i] = IF i <= Len(s) THEN s[i] ELSE t[i - Len(s)]
  OBVIOUS
<1>2. ASSUME NEW e, Held(s \o t, e) PROVE Held(s, e) \/ Held(t, e)
  <2>1. PICK i \in 1 .. Len(s \o t) : (s \o t)[i] = e
    BY <1>2 DEF Held
  <2>2. \/ i \in 1 .. Len(s) /\ s[i] = e
        \/ i - Len(s) \in 1 .. Len(t) /\ t[i - Len(s)] = e
    BY <1>1, <2>1
  <2> QED
    BY <2>2 DEF Held
<1>3. ASSUME NEW e, Held(s, e) PROVE Held(s \o t, e)
  BY <1>1, <1>3 DEF Held
<1>4. ASSUME NEW e, Held(t, e) PROVE Held(s \o t, e)
  <2>1. PICK i \in 1 .. Len(t) : t[i] = e
    BY <1>4 DEF Held
  <2>2. i + Len(s) \in 1 .. Len(s \o t) /\ (s \o t)[i + Len(s)] = e
    BY <1>1, <2>1
  <2> QED
    BY <2>2 DEF Held
<1> QED
  BY <1>2, <1>3, <1>4

LEMMA IncreasingAppend ==
  ASSUME NEW s \in Seq(Events), NEW x \in Events, Increasing(s),
         \A e \in Events : Held(s, e) => e < x
  PROVE  Increasing(Append(s, x))
<1>1. \A i \in 1 .. Len(s) : s[i] \in Events /\ s[i] < x
  BY DEF Held
<1> QED
  BY <1>1 DEF Increasing

LEMMA IncreasingTail ==
  ASSUME NEW s \in Seq(Events), s # <<>>, Increasing(s)
  PROVE  /\ Increasing(Tail(s))
         /\ \A e \in Events : Held(Tail(s), e) => Head(s) < e
<1>1. /\ Len(s) \in Nat /\ Len(s) >= 1 /\ Head(s) = s[1] /\ Len(Tail(s)) = Len(s) - 1
      /\ \A i \in 1 .. Len(s) - 1 : Tail(s)[i] = s[i + 1]
  OBVIOUS
<1>2. Increasing(Tail(s))
  BY <1>1 DEF Increasing
<1>3. ASSUME NEW e \in Events, Held(Tail(s), e) PROVE Head(s) < e
  <2>1. PICK i \in 1 .. Len(Tail(s)) : Tail(s)[i] = e
    BY <1>3 DEF Held
  <2> QED
    BY <1>1, <2>1 DEF Increasing
<1> QED
  BY <1>2, <1>3

LEMMA EmptyIffNoLen == ASSUME NEW s \in Seq(Events) PROVE s = <<>> <=> Len(s) = 0
  OBVIOUS

LEMMA HeldEmpty == \A e : ~Held(<<>>, e)
  BY DEF Held


LEMMA SettledHeld == \A e : Settled(e) <=> Held(trail, e) \/ e \in lost
  BY DEF Settled, InTrail, Held

LEMMA AuditInitially == AuditInit => AuditInv
<1> SUFFICES ASSUME AuditInit PROVE AuditInv
  OBVIOUS
<1>1. AuditTypeOK
  BY AuditAssumption DEF AuditInit, AuditTypeOK, FlusherSteps
<1>2. \A e : ~Settled(e) /\ ~Held(batch, e) /\ ~Held(channel, e)
  BY SettledHeld, HeldEmpty DEF AuditInit
<1>3. OnlyRecorded /\ AllAccounted /\ QueuesInOrder
  BY <1>2 DEF AuditInit, OnlyRecorded, AllAccounted, QueuesInOrder, Increasing
<1>4. BatchIsNext
  BY <1>2 DEF BatchIsNext
<1> QED
  BY <1>1, <1>3, <1>4 DEF AuditInv, AuditInit, FlusherConsistent

LEMMA RecordKeeps ==
  ASSUME AuditInv, Record
  PROVE  AuditInv'
<1> USE AuditAssumption DEF AuditInv, Events
<1>1. recorded + 1 \in Events /\ recorded' = recorded + 1 /\ recorded \in Nat
  BY DEF Record, AuditTypeOK
<1>2. \A e : Settled(e)' <=> Settled(e)
  BY DEF Record, Settled, InTrail
<1>3. \A e : Held(batch, e)' <=> Held(batch, e)
  BY DEF Record
<1>4. CASE open
  <2>1. channel' = Append(channel, recorded + 1) /\ refused' = refused
    BY <1>1, <1>4 DEF Record
  <2>2. \A e : Held(channel, e)' <=> Held(channel, e) \/ e = recorded + 1
    BY <1>1, <2>1, HeldAppend DEF AuditTypeOK
  <2>3. AuditTypeOK'
    BY <1>1, <2>1 DEF Record, AuditTypeOK
  <2>4. Increasing(channel)'
    BY <1>1, <2>1, IncreasingAppend DEF AuditTypeOK, OnlyRecorded, QueuesInOrder
  <2>5. OnlyRecorded'
    BY <1>1, <1>2, <1>3, <2>2 DEF OnlyRecorded
  <2>6. AllAccounted'
    BY <1>1, <1>2, <1>3, <2>1, <2>2 DEF AllAccounted
  <2>7. QueuesInOrder'
    BY <1>1, <1>2, <1>3, <2>2, <2>4 DEF QueuesInOrder, OnlyRecorded, Record
  <2>8. FlusherConsistent'
    BY <1>2, <1>3, <1>4 DEF FlusherConsistent, BatchIsNext, BatchIsWritten, Record, InTrail
  <2> QED
    BY <2>3, <2>5, <2>6, <2>7, <2>8
<1>5. CASE ~open
  <2>1. channel' = channel /\ refused' = refused \cup {recorded + 1}
    BY <1>1, <1>5 DEF Record
  <2>2. \A e : Held(channel, e)' <=> Held(channel, e)
    BY <2>1
  <2>3. AuditTypeOK'
    BY <1>1, <2>1 DEF Record, AuditTypeOK
  <2>5. OnlyRecorded'
    BY <1>1, <1>2, <1>3, <2>2 DEF OnlyRecorded
  <2>6. AllAccounted'
    BY <1>1, <1>2, <1>3, <2>1, <2>2 DEF AllAccounted
  <2>7. QueuesInOrder'
    BY <1>2, <1>3, <2>1 DEF QueuesInOrder, Record
  <2>8. FlusherConsistent'
    BY <1>2, <1>3, <2>1 DEF FlusherConsistent, BatchIsNext, BatchIsWritten, Record, InTrail
  <2> QED
    BY <2>3, <2>5, <2>6, <2>7, <2>8
<1> QED
  BY <1>4, <1>5 DEF AuditTypeOK

\* Taking the oldest event out of the channel, wherever the task goes then.
LEMMA TakeKeeps ==
  ASSUME AuditInv, TakeEvent, UNCHANGED <<recorded, refused, open, trail, lost>>,
         flusher \in {"recv", "drain", "window"}, Len(batch) < MaxBatchSize,
         flusher' \in {"drain", "window", "write"},
         flusher' = "window" => Len(batch') < MaxBatchSize
  PROVE  AuditInv'
<1> USE DEF AuditInv
<1>1. /\ channel \in Seq(Events) /\ channel # <<>> /\ batch \in Seq(Events)
      /\ channel' = Tail(channel) /\ batch' = Append(batch, Head(channel))
  BY DEF TakeEvent, AuditTypeOK
<1>2. /\ Head(channel) \in Events /\ channel' \in Seq(Events)
      /\ \A e : Held(channel, e) <=> e = Head(channel) \/ Held(channel, e)'
  BY <1>1, HeldTail
<1>3. \A e : Held(batch, e)' <=> Held(batch, e) \/ e = Head(channel)
  BY <1>1, <1>2, HeldAppend
<1>4. \A e : Settled(e)' <=> Settled(e)
  BY DEF Settled, InTrail
<1>5. /\ Increasing(channel)'
      /\ \A e \in Events : Held(channel, e)' => Head(channel) < e
  BY <1>1, IncreasingTail DEF QueuesInOrder
<1>6. Increasing(batch)'
  BY <1>1, <1>2, IncreasingAppend DEF QueuesInOrder
<1>7. AuditTypeOK'
  BY <1>1, <1>2, AuditAssumption DEF AuditTypeOK, FlusherSteps
<1>8. OnlyRecorded' /\ AllAccounted'
  BY <1>2, <1>3, <1>4 DEF OnlyRecorded, AllAccounted
<1>9. QueuesInOrder'
  BY <1>2, <1>3, <1>4, <1>5, <1>6 DEF QueuesInOrder
<1>10. BatchIsNext'
  BY <1>2, <1>3, <1>4 DEF BatchIsNext, QueuesInOrder, FlusherConsistent
<1>11. batch' # <<>>
  BY <1>1, <1>2
<1> QED
  BY <1>7, <1>8, <1>9, <1>10, <1>11 DEF FlusherConsistent

\* The task moves on and touches nothing else.
LEMMA MoveKeeps ==
  ASSUME AuditInv, UNCHANGED <<recorded, refused, open, channel, batch, trail, lost>>,
         flusher \in {"recv", "drain", "window"}, flusher' \in FlusherSteps \ {"single", "single_last"},
         batch = <<>> <=> flusher' \in {"recv", "done"},
         flusher' = "window" => Len(batch) < MaxBatchSize,
         flusher' \in {"write_last", "done"} => ~open /\ channel = <<>>
  PROVE  AuditInv'
<1>1. \A e : Settled(e)' <=> Settled(e)
  BY DEF Settled, InTrail
<1>2. AuditTypeOK'
  BY DEF AuditInv, AuditTypeOK
<1>3. OnlyRecorded' /\ AllAccounted' /\ QueuesInOrder'
  BY <1>1 DEF AuditInv, OnlyRecorded, AllAccounted, QueuesInOrder
<1>4. BatchIsNext'
  BY <1>1 DEF AuditInv, FlusherConsistent, BatchIsNext
<1> QED
  BY <1>2, <1>3, <1>4 DEF AuditInv, FlusherConsistent, FlusherSteps

LEMMA CloseSinkKeeps ==
  ASSUME AuditInv, CloseSink
  PROVE  AuditInv'
<1>1. \A e : Settled(e)' <=> Settled(e)
  BY DEF CloseSink, Settled, InTrail
<1>2. AuditTypeOK'
  BY DEF CloseSink, AuditInv, AuditTypeOK
<1>3. OnlyRecorded' /\ AllAccounted' /\ QueuesInOrder'
  BY <1>1 DEF CloseSink, AuditInv, OnlyRecorded, AllAccounted, QueuesInOrder
<1>4. FlusherConsistent'
  BY <1>1 DEF CloseSink, AuditInv, FlusherConsistent, BatchIsNext, BatchIsWritten, InTrail
<1> QED
  BY <1>2, <1>3, <1>4 DEF AuditInv

LEMMA WriteBatchKeeps ==
  ASSUME AuditInv, WriteBatch
  PROVE  AuditInv'
<1> USE DEF AuditInv
<1>1. /\ trail \in Seq(Events) /\ batch \in Seq(Events) /\ trail' = trail \o batch
      /\ batch' = <<>> /\ UNCHANGED <<recorded, refused, open, channel, lost>>
  BY DEF WriteBatch, AuditTypeOK
<1>2. trail' \in Seq(Events)
  BY <1>1
<1>3. \A e : Settled(e)' <=> Settled(e) \/ Held(batch, e)
  <2>1. \A e : Held(trail', e) <=> Held(trail, e) \/ Held(batch, e)
    BY <1>1, HeldConcat
  <2>2. \A e : Settled(e)' <=> Held(trail', e) \/ e \in lost
    BY <1>1 DEF Settled, InTrail, Held
  <2> QED
    BY <2>1, <2>2, SettledHeld
<1>4. \A e : ~Held(batch, e)'
  BY <1>1, HeldEmpty
<1>5. AuditTypeOK'
  BY <1>1, <1>2, AuditAssumption DEF AuditTypeOK, WriteBatch, AfterWrite, FlusherSteps
<1>6. OnlyRecorded' /\ AllAccounted'
  BY <1>1, <1>3, <1>4 DEF OnlyRecorded, AllAccounted
<1>7. QueuesInOrder'
  BY <1>1, <1>3, <1>4 DEF QueuesInOrder, Increasing
<1>8. BatchIsNext'
  BY <1>4 DEF BatchIsNext
<1> QED
  BY <1>1, <1>5, <1>6, <1>7, <1>8 DEF FlusherConsistent, WriteBatch, AfterWrite

LEMMA WriteBatchFailsKeeps ==
  ASSUME AuditInv, NEW applied \in BOOLEAN, WriteBatchFails(applied)
  PROVE  AuditInv'
<1> USE DEF AuditInv
<1>1. /\ trail \in Seq(Events) /\ batch \in Seq(Events)
      /\ trail' = IF applied THEN trail \o batch ELSE trail
      /\ UNCHANGED <<recorded, refused, open, channel, batch, lost>>
  BY DEF WriteBatchFails, AuditTypeOK
<1>2. trail' \in Seq(Events)
  BY <1>1
<1>3. \A e : Settled(e)' <=> Settled(e) \/ (applied /\ Held(batch, e))
  <2>1. \A e : Held(trail, e)' <=> Held(trail, e) \/ (applied /\ Held(batch, e))
    BY <1>1, HeldConcat
  <2> QED
    BY <1>1, <2>1 DEF Settled, InTrail, Held
<1>4. AuditTypeOK'
  BY <1>1, <1>2 DEF AuditTypeOK, WriteBatchFails, FallBack, FlusherSteps
<1>5. OnlyRecorded' /\ AllAccounted'
  BY <1>1, <1>3 DEF OnlyRecorded, AllAccounted
<1>6. QueuesInOrder'
  BY <1>1, <1>3 DEF QueuesInOrder
<1>7. (BatchIsNext \/ BatchIsWritten)'
  <2>1. CASE applied
    <3>1. \A e : Held(trail, e)' <=> Held(trail, e) \/ Held(batch, e)
      BY <1>1, <2>1, HeldConcat
    <3> QED
      BY <1>1, <3>1 DEF BatchIsWritten, InTrail, Held
  <2>2. CASE ~applied
    BY <1>1, <1>3, <2>2 DEF BatchIsNext, FlusherConsistent, WriteBatchFails
  <2> QED
    BY <2>1, <2>2
<1> QED
  BY <1>1, <1>4, <1>5, <1>6, <1>7 DEF FlusherConsistent, WriteBatchFails, FallBack

LEMMA WriteOneKeeps ==
  ASSUME AuditInv, NEW stored \in BOOLEAN, WriteOne(stored)
  PROVE  AuditInv'
<1> USE DEF AuditInv
<1> DEFINE x == Head(batch)
<1>1. /\ trail \in Seq(Events) /\ batch \in Seq(Events) /\ batch # <<>> /\ batch' = Tail(batch)
      /\ trail' = IF stored THEN Append(trail, x) ELSE trail
      /\ lost' = IF stored THEN lost ELSE lost \cup {x}
      /\ UNCHANGED <<recorded, refused, open, channel>>
  BY DEF WriteOne, AuditTypeOK, FlusherConsistent
<1>2. /\ x \in Events /\ batch' \in Seq(Events) /\ Len(batch') = Len(batch) - 1
      /\ \A e : Held(batch, e) <=> e = x \/ Held(batch, e)'
  BY <1>1, HeldTail
<1>3. trail' \in Seq(Events)
  BY <1>1, <1>2
<1>4. \A e : Settled(e)' <=> Settled(e) \/ e = x
  BY <1>1, <1>2, HeldAppend, SettledHeld DEF Settled, InTrail, Held
<1>5. Increasing(batch)' /\ \A e \in Events : Held(batch, e)' => x < e
  BY <1>1, IncreasingTail DEF QueuesInOrder
<1>6. AuditTypeOK'
  BY <1>1, <1>2, <1>3, AuditAssumption DEF AuditTypeOK, WriteOne, AfterWrite, FlusherSteps
<1>7. OnlyRecorded' /\ AllAccounted'
  BY <1>1, <1>2, <1>4 DEF OnlyRecorded, AllAccounted
<1>8. QueuesInOrder'
  BY <1>1, <1>2, <1>4, <1>5 DEF QueuesInOrder
<1>9. ASSUME BatchIsNext PROVE BatchIsNext'
  BY <1>2, <1>4, <1>5, <1>9 DEF BatchIsNext
<1>10. ASSUME BatchIsWritten PROVE BatchIsWritten'
  <2>1. \A e : InTrail(e) => InTrail(e)'
    BY <1>1, <1>2, HeldAppend DEF InTrail, Held
  <2> QED
    BY <1>2, <1>10, <2>1 DEF BatchIsWritten
<1>11. batch' = <<>> <=> Len(batch) = 1
  <2>1. Len(batch) \in Nat
    BY <1>1
  <2> QED
    BY <1>2, <2>1, EmptyIffNoLen
<1>12. batch' = <<>> => BatchIsNext'
  BY HeldEmpty DEF BatchIsNext
<1> QED
  BY <1>1, <1>6, <1>7, <1>8, <1>9, <1>10, <1>11, <1>12 DEF FlusherConsistent, WriteOne, AfterWrite

LEMMA AuditTaskKeeps ==
  ASSUME AuditInv, AuditTask
  PROVE  AuditInv'
<1>. USE AuditAssumption
<1>1. CASE Receive
  <2>1. Len(batch) < MaxBatchSize
    BY <1>1 DEF Receive, AuditInv, FlusherConsistent
  <2> QED
    BY <1>1, <2>1, TakeKeeps DEF Receive
<1>2. CASE ReceiveClosed
  BY <1>2, MoveKeeps DEF ReceiveClosed, AuditInv, FlusherConsistent, FlusherSteps
<1>3. CASE Drain
  <2>1. Len(batch) < MaxBatchSize
    BY <1>3 DEF Drain, Full, AuditInv, AuditTypeOK
  <2> QED
    BY <1>3, <2>1, TakeKeeps DEF Drain
<1>4. CASE DrainEnds
  <2>1. ~Full => Len(batch) < MaxBatchSize
    BY DEF Full, AuditInv, AuditTypeOK
  <2> QED
    BY <1>4, <2>1, MoveKeeps DEF DrainEnds, AuditInv, FlusherConsistent, FlusherSteps
<1>5. CASE WindowReceive
  <2>1. Len(batch) < MaxBatchSize
    BY <1>5 DEF WindowReceive, AuditInv, FlusherConsistent
  <2>2. batch' \in Seq(Events)
    BY <1>5 DEF WindowReceive, TakeEvent, AuditInv, AuditTypeOK
  <2>3. flusher' = "window" => Len(batch') < MaxBatchSize
    BY <1>5, <2>2 DEF WindowReceive
  <2> QED
    BY <1>5, <2>1, <2>3, TakeKeeps DEF WindowReceive
<1>6. CASE WindowOver \/ WindowClosed
  BY <1>6, MoveKeeps DEF WindowOver, WindowClosed, AuditInv, FlusherConsistent, FlusherSteps
<1> QED
  BY <1>1, <1>2, <1>3, <1>4, <1>5, <1>6 DEF AuditTask

LEMMA AuditWritesKeeps ==
  ASSUME AuditInv, AuditWrites, pool \in BOOLEAN
  PROVE  AuditInv'
<1>1. WriteBatch \/ \E b \in BOOLEAN : WriteBatchFails(b) \/ WriteOne(b)
  BY DEF AuditWrites
<1> QED
  BY <1>1, WriteBatchKeeps, WriteBatchFailsKeeps, WriteOneKeeps

LEMMA AuditUnchanged == AuditInv /\ UNCHANGED auditVars => AuditInv'
<1> SUFFICES ASSUME AuditInv, UNCHANGED auditVars PROVE AuditInv'
  OBVIOUS
<1>1. \A e : Settled(e)' <=> Settled(e)
  BY DEF auditVars, Settled, InTrail
<1>2. AuditTypeOK' /\ OnlyRecorded' /\ AllAccounted' /\ QueuesInOrder'
  BY <1>1 DEF auditVars, AuditInv, AuditTypeOK, OnlyRecorded, AllAccounted, QueuesInOrder
<1>3. FlusherConsistent'
  BY <1>1 DEF auditVars, AuditInv, FlusherConsistent, BatchIsNext, BatchIsWritten, InTrail
<1> QED
  BY <1>2, <1>3 DEF AuditInv

\* A task that has ended stays so: nothing is left for it to do.
LEMMA FlusherStaysDone ==
  ASSUME AuditInv, flusher = "done", AuditTask \/ AuditWrites \/ Record \/ CloseSink
  PROVE  flusher' = "done"
  BY DEF AuditTask, AuditWrites, Record, CloseSink, Receive, ReceiveClosed, Drain, DrainEnds,
         WindowReceive, WindowOver, WindowClosed, WriteBatch, WriteBatchFails, WriteOne

LEMMA UsageKeeps ==
  ASSUME UsageTypeOK, pool \in BOOLEAN,
         \/ UsageTask \/ UsageWrites \/ CancelTracker
         \/ \E w \in Workspaces : AddPing(w)
  PROVE  UsageTypeOK' /\ (tracker = "done" => tracker' = "done")
<1>. USE UsageAssumption DEF UsageTypeOK
<1>1. CASE SeeCancel
  BY <1>1 DEF SeeCancel, StartFlush
<1>2. CASE ReceivePing
  BY <1>2 DEF ReceivePing, StartFlush
<1>3. CASE FlushTimer
  BY <1>3 DEF FlushTimer, StartFlush
<1>4. CASE UsageWrites
  BY <1>4 DEF UsageWrites, FlushReturns
<1>5. CASE CancelTracker
  BY <1>5 DEF CancelTracker
<1>6. CASE \E w \in Workspaces : AddPing(w)
  BY <1>6 DEF AddPing
<1> QED
  BY <1>1, <1>2, <1>3, <1>4, <1>5, <1>6 DEF UsageTask

\* What the coordinator's task waited for, when it is over.
LEMMA FinishedMeans ==
  ASSUME task \in 1 .. 4, Finished
  PROVE  /\ task = 1 => flusher = "done"
         /\ task = 2 => tracker = "done"
         /\ task = 3 => worker
<1>1. Tasks[1] = "audit" /\ Tasks[2] = "usage_tracker" /\ Tasks[3] = "workers"
  BY DEF Tasks
<1>2. CASE task = 1
  BY <1>1, <1>2, Zenon DEF Finished
<1>3. CASE task = 2
  BY <1>1, <1>3, Zenon DEF Finished
<1>4. CASE task = 3
  BY <1>1, <1>4, Zenon DEF Finished
<1> QED
  BY <1>2, <1>3, <1>4

LEMMA ShutdownInitially == ShutdownInit => ShutdownInv
<1> SUFFICES ASSUME ShutdownInit PROVE ShutdownInv
  OBVIOUS
<1>1. AuditInv
  BY AuditInitially DEF ShutdownInit
<1>2. UsageTypeOK
  <2>1. UsageInit
    BY DEF ShutdownInit
  <2>2. pings \in 0 .. MaxPings /\ mailbox \in Seq(Workspaces)
    BY <2>1, UsageAssumption DEF UsageInit
  <2> QED
    BY <2>1, <2>2 DEF UsageInit, UsageTypeOK
<1>3. CoordinatorInv
  BY DEF ShutdownInit, CoordinatorInv, Tasks
<1>4. budget \in 0 .. GracePeriod /\ task \in 1 .. Len(Tasks) + 1
  BY ShutdownAssumption DEF ShutdownInit, Tasks
<1>5. running \in BOOLEAN /\ pool \in BOOLEAN /\ worker \in BOOLEAN
  BY DEF ShutdownInit
<1>6. phase \in {"serving", "tasks", "exited"}
  BY DEF ShutdownInit
<1> QED
  BY <1>1, <1>2, <1>3, <1>4, <1>5, <1>6 DEF ShutdownInv, ShutdownTypeOK, AuditInv

LEMMA ShutdownStep == ShutdownInv /\ [ShutdownNext]_processVars => ShutdownInv'
<1> SUFFICES ASSUME ShutdownInv, [ShutdownNext]_processVars PROVE ShutdownInv'
  OBVIOUS
<1> USE ShutdownAssumption
<1>0. /\ AuditInv /\ UsageTypeOK /\ CoordinatorInv /\ Len(Tasks) = 4
      /\ phase \in {"serving", "tasks", "exited"} /\ task \in 1 .. 5
      /\ running \in BOOLEAN /\ pool \in BOOLEAN /\ worker \in BOOLEAN
      /\ budget \in 0 .. GracePeriod
  BY DEF ShutdownInv, ShutdownTypeOK, Tasks
<1>a. ASSUME AuditInv', UsageTypeOK', UNCHANGED shutdownVars,
             flusher = "done" => flusher' = "done", tracker = "done" => tracker' = "done"
      PROVE  ShutdownInv'
  <2>1. CoordinatorInv'
    BY <1>0, <1>a DEF shutdownVars, CoordinatorInv
  <2> QED
    BY <1>0, <1>a, <2>1 DEF shutdownVars, ShutdownInv, ShutdownTypeOK, AuditInv
<1>b. UNCHANGED usageVars => UsageTypeOK' /\ tracker' = tracker
  BY <1>0 DEF usageVars, UsageTypeOK
<1>c. UNCHANGED auditVars => AuditInv' /\ flusher' = flusher
  BY <1>0, AuditUnchanged DEF auditVars
<1>1. CASE HandlerRecords
  BY <1>0, <1>1, <1>a, <1>b, RecordKeeps, FlusherStaysDone DEF HandlerRecords
<1>2. CASE \E w \in Workspaces : HandlerPings(w)
  BY <1>0, <1>2, <1>a, <1>c, UsageKeeps DEF HandlerPings
<1>3. CASE AuditTask
  BY <1>0, <1>3, <1>a, <1>b, AuditTaskKeeps, FlusherStaysDone DEF AuditTask
<1>4. CASE AuditWrites
  BY <1>0, <1>4, <1>a, <1>b, AuditWritesKeeps, FlusherStaysDone DEF AuditWrites
<1>5. CASE UsageTask
  BY <1>0, <1>5, <1>a, <1>c, UsageKeeps DEF UsageTask
<1>6. CASE UsageWrites
  BY <1>0, <1>6, <1>a, <1>c, UsageKeeps DEF UsageWrites
<1>7. CASE StartTask
  <2>1. Tasks[1] = "audit" /\ Tasks[2] = "usage_tracker" /\ Tasks[3] = "workers" /\ Tasks[4] = "database"
    BY DEF Tasks
  <2>2. /\ task \in 1 .. 4 /\ budget > 0 /\ running' = TRUE
        /\ UNCHANGED <<phase, task, budget, worker>>
    BY <1>0, <1>7 DEF StartTask
  <2>3. AuditInv' /\ (flusher = "done" => flusher' = "done")
    BY <1>0, <1>7, <1>c, CloseSinkKeeps, FlusherStaysDone DEF StartTask
  <2>4. UsageTypeOK' /\ (tracker = "done" => tracker' = "done")
    BY <1>0, <1>7, <1>b, UsageKeeps DEF StartTask
  <2>5. pool' = pool \/ (pool' = FALSE /\ task = 4)
    <3>1. task \in {1, 2, 3, 4}
      BY <2>2
    <3>2. Tasks[task] = "database" => task = 4
      BY <2>1, <3>1
    <3> QED
      BY <1>7, <3>2 DEF StartTask
  <2>6. CoordinatorInv'
    BY <1>0, <2>2, <2>3, <2>4, <2>5 DEF CoordinatorInv
  <2> QED
    BY <1>0, <2>2, <2>3, <2>4, <2>5, <2>6 DEF ShutdownInv, ShutdownTypeOK, AuditInv
<1>8. CASE TaskEnds \/ TaskTimesOut \/ SkipTask
  <2>1. /\ task \in 1 .. 4 /\ task' = task + 1 /\ running' = FALSE
        /\ UNCHANGED <<auditVars, usageVars, phase, budget, pool, worker>>
        /\ Finished \/ budget = 0
    BY <1>0, <1>8 DEF TaskEnds, TaskTimesOut, SkipTask, NextTask, CoordinatorInv
  <2>2. CoordinatorInv'
    BY <1>0, <1>b, <1>c, <2>1, FinishedMeans DEF CoordinatorInv
  <2>3. AuditInv' /\ UsageTypeOK'
    BY <1>b, <1>c, <2>1
  <2>4. task' \in 1 .. Len(Tasks)' + 1 /\ budget' \in 0 .. GracePeriod
    <3>1. Len(Tasks)' = 4
      BY DEF Tasks
    <3> QED
      BY <1>0, <2>1, <3>1
  <2>5. /\ phase' \in {"serving", "tasks", "exited"}
        /\ running' \in BOOLEAN /\ pool' \in BOOLEAN /\ worker' \in BOOLEAN
    BY <1>0, <2>1
  <2>6. AuditTypeOK'
    BY <2>3 DEF AuditInv
  <2>7. ShutdownTypeOK'
    BY <2>3, <2>4, <2>5, <2>6 DEF ShutdownTypeOK
  <2> QED
    BY <2>2, <2>3, <2>7 DEF ShutdownInv
<1>9. CASE ServerStops \/ Exit \/ WorkersEnd \/ ShutdownTick
  <2>1. /\ UNCHANGED <<auditVars, usageVars, task, running, pool>>
        /\ phase' \in {phase, "tasks", "exited"} /\ worker' \in {worker, TRUE}
        /\ budget' = budget \/ (budget > 0 /\ budget' = budget - 1)
    BY <1>9 DEF ServerStops, Exit, WorkersEnd, ShutdownTick
  <2>3. budget' \in 0 .. GracePeriod /\ budget' <= budget
    BY <1>0, <2>1
  <2>4. /\ AuditInv' /\ UsageTypeOK' /\ flusher' = flusher /\ tracker' = tracker
        /\ worker => worker'
    <3>1. AuditInv' /\ UsageTypeOK' /\ flusher' = flusher /\ tracker' = tracker
      BY <1>b, <1>c, <2>1
    <3>2. worker => worker'
      BY <2>1, Zenon
    <3> QED
      BY <3>1, <3>2
  <2>5. budget' > 0 => budget > 0
    BY <1>0, <2>3
  <2>2. CoordinatorInv'
    <3>1. (running => task <= Len(Tasks))'
      BY <1>0, <2>1 DEF CoordinatorInv, Tasks
    <3>2. /\ task' > 1 /\ budget' > 0 => flusher' = "done"
          /\ task' > 2 /\ budget' > 0 => tracker' = "done"
          /\ task' > 3 /\ budget' > 0 => worker'
      BY <1>0, <2>1, <2>4, <2>5 DEF CoordinatorInv
    <3>3. (~pool => flusher = "done" /\ tracker = "done" /\ worker)'
      BY <1>0, <2>1, <2>4 DEF CoordinatorInv
    <3> QED
      BY <3>1, <3>2, <3>3 DEF CoordinatorInv
  <2>6. /\ phase' \in {"serving", "tasks", "exited"} /\ task' \in 1 .. Len(Tasks)' + 1
        /\ running' \in BOOLEAN /\ pool' \in BOOLEAN /\ worker' \in BOOLEAN
    <3>1. task' \in 1 .. Len(Tasks)' + 1
      BY <1>0, <2>1 DEF Tasks
    <3>2. phase' \in {"serving", "tasks", "exited"}
      BY <1>0, <2>1
    <3>3. running' \in BOOLEAN /\ pool' \in BOOLEAN /\ worker' \in BOOLEAN
      BY <1>0, <2>1, Zenon
    <3> QED
      BY <3>1, <3>2, <3>3
  <2>7. AuditTypeOK'
    BY <2>4 DEF AuditInv
  <2>8. ShutdownTypeOK'
    BY <2>3, <2>4, <2>6, <2>7 DEF ShutdownTypeOK
  <2> QED
    BY <2>2, <2>4, <2>8 DEF ShutdownInv
<1>10. CASE UNCHANGED processVars
  BY <1>a, <1>b, <1>c, <1>10 DEF processVars
<1> QED
  BY <1>1, <1>2, <1>3, <1>4, <1>5, <1>6, <1>7, <1>8, <1>9, <1>10 DEF ShutdownNext, Coordinate

LEMMA ShutdownInvariant == ShutdownSpec => []ShutdownInv
  BY ShutdownInitially, ShutdownStep, PTL DEF ShutdownSpec

\* The buffers keep their types, and a batch is never larger than
\* max_batch_size (flush_loop counts before and after each receive).
THEOREM ShutdownTypes == ShutdownSpec => []ShutdownTypeOK
<1>1. ShutdownInv => ShutdownTypeOK
  BY DEF ShutdownInv
<1> QED
  BY ShutdownInvariant, <1>1, PTL

\* The audit trail follows the order of recording, although batches fail, are
\* written twice or one by one, and events arrive meanwhile (flush_loop,
\* record_batch).
THEOREM TrailInOrder == ShutdownSpec => []SettledInOrder
<1>1. ShutdownInv => SettledInOrder
  <2> SUFFICES ASSUME ShutdownInv,
                      NEW d \in Events, NEW e \in Events, d < e, Settled(e), d \notin refused
               PROVE  Settled(d)
    BY DEF SettledInOrder
  <2> USE DEF ShutdownInv, AuditInv
  <2>1. d \in 1 .. recorded
    BY DEF OnlyRecorded, AuditTypeOK, Events
  <2>2. ~Held(channel, d)
    BY DEF QueuesInOrder, Events
  <2>3. Held(batch, d) => Settled(d)
    BY DEF FlusherConsistent, BatchIsNext, BatchIsWritten, Settled, Events
  <2> QED
    BY <2>1, <2>2, <2>3 DEF AllAccounted
<1> QED
  BY ShutdownInvariant, <1>1, PTL

\* The pool is closed last: by then every recorded event was written, given up
\* or refused, and no task is left that could write (ShutdownCoordinator::run).
THEOREM PoolIsLast == ShutdownSpec => []PoolClosesLast
<1>1. ShutdownInv => PoolClosesLast
  <2> SUFFICES ASSUME ShutdownInv, ~pool PROVE PoolClosesLast
    BY DEF PoolClosesLast
  <2>1. flusher = "done" /\ tracker = "done" /\ worker
    BY DEF ShutdownInv, CoordinatorInv
  <2>2. batch = <<>> /\ channel = <<>>
    BY <2>1 DEF ShutdownInv, AuditInv, FlusherConsistent
  <2>3. \A e \in 1 .. recorded : Settled(e) \/ e \in refused
    BY <2>2, HeldEmpty DEF ShutdownInv, AuditInv, AllAccounted
  <2> QED
    BY <2>1, <2>3 DEF PoolClosesLast
<1> QED
  BY ShutdownInvariant, <1>1, PTL
=============================================================================
