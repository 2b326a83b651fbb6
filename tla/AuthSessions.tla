---------------------------- MODULE AuthSessions ----------------------------
(***************************************************************************)
(* Sessions of AuthService (crates/coder-auth): the table auth_sessions,   *)
(* one in-memory SessionCache per replica, and requests that are between   *)
(* their database read and their cache insert when a session is revoked.   *)
(***************************************************************************)
EXTENDS Integers, FiniteSets

CONSTANTS
    Tokens, Users,
    Owner,          \* the user each session token is issued to
    Replicas,       \* coderd replicas, each with a cache of its own
    Ttl,            \* the cache TTL, in ticks
    MaxLag,         \* longest time from a request's database read to its insert
    SweepInterval,  \* SWEEP_INTERVAL
    SweepSize       \* SWEEP_SIZE_THRESHOLD

ASSUME SessionAssumption ==
    /\ Owner \in [Tokens -> Users]
    /\ Ttl \in Nat /\ MaxLag \in Nat /\ SweepInterval \in Nat \ {0} /\ SweepSize \in Nat

VARIABLES
    issued,         \* tokens ever given out; each is random, so given out once
    sessions,       \* rows of auth_sessions
    deleted,        \* users marked deleted
    revoked_for,    \* ticks since a token stopped being valid, up to Ttl + MaxLag
    entries,        \* each cache's keys
    cached_for,     \* ticks since an entry's cached_at, up to Ttl; 0 without one
    insert_count,   \* each cache's insert counter, modulo SweepInterval
    found,          \* requests that have read a valid session and not inserted it
    lag,            \* ticks since such a read; 0 without one
    evicting        \* tokens whose rows are gone and whose eviction is still due

cacheVars == <<entries, cached_for, insert_count>>
vars == <<issued, sessions, deleted, revoked_for, cacheVars, found, lag, evicting>>

\* find_user_by_session_token_hash: the row is there and its user is not deleted.
Valid(t) == t \in sessions /\ Owner[t] \notin deleted

\* MUTANT: the age of an entry is not looked at.
HitUntimed(r, t) == t \in entries[r]

\* SessionCache::get gives an answer.
Hit(r, t) == t \in entries[r] /\ cached_for[r][t] < Ttl

TypeOK ==
    /\ issued \subseteq Tokens /\ sessions \subseteq issued /\ deleted \subseteq Users
    /\ revoked_for \in [Tokens -> 0 .. Ttl + MaxLag]
    /\ entries \in [Replicas -> SUBSET Tokens]
    /\ cached_for \in [Replicas -> [Tokens -> 0 .. Ttl]]
    /\ insert_count \in [Replicas -> 0 .. SweepInterval - 1]
    /\ found \in [Replicas -> SUBSET Tokens]
    /\ lag \in [Replicas -> [Tokens -> 0 .. MaxLag]]
    /\ evicting \in [Replicas -> SUBSET Tokens]

Init ==
    /\ issued = {} /\ sessions = {} /\ deleted = {}
    /\ revoked_for = [t \in Tokens |-> 0]
    /\ entries = [r \in Replicas |-> {}]
    /\ cached_for = [r \in Replicas |-> [t \in Tokens |-> 0]]
    /\ insert_count = [r \in Replicas |-> 0]
    /\ found = [r \in Replicas |-> {}]
    /\ lag = [r \in Replicas |-> [t \in Tokens |-> 0]]
    /\ evicting = [r \in Replicas |-> {}]

-----------------------------------------------------------------------------
\* login_with_password and create_oauth_session.
Login(t) ==
    /\ t \notin issued /\ Owner[t] \notin deleted
    /\ issued' = issued \cup {t}
    /\ sessions' = sessions \cup {t}
    /\ UNCHANGED <<deleted, revoked_for, cacheVars, found, lag, evicting>>

\* authenticate, cache miss: the session is read from the database.  (A hit,
\* or a miss without a row, changes nothing.)
RequestReads(r, t) ==
    /\ ~Hit(r, t) /\ Valid(t)
    /\ t \notin found[r]
    /\ found' = [found EXCEPT ![r] = @ \cup {t}]
    /\ lag' = [lag EXCEPT ![r][t] = 0]
    /\ UNCHANGED <<issued, sessions, deleted, revoked_for, cacheVars, evicting>>

\* Entries that a sweep keeps.
Fresh(r) == {t \in entries[r] : cached_for[r][t] < Ttl}

\* Replica r's cache keeps the entries in kept and gets new ones for fresh.
Cache(r, kept, fresh) ==
    /\ entries' = [entries EXCEPT ![r] = kept \cup fresh]
    /\ cached_for' = [cached_for EXCEPT ![r] = [t \in Tokens |-> IF t \in kept THEN @[t] ELSE 0]]

\* SessionCache::insert, with its lazy sweep.
RequestInserts(r, t) ==
    /\ t \in found[r]
    /\ LET sweep == insert_count[r] = 0 \/ Cardinality(entries[r]) >= SweepSize
       IN  Cache(r, (IF sweep THEN Fresh(r) ELSE entries[r]) \ {t}, {t})
    /\ insert_count' = [insert_count EXCEPT ![r] = (@ + 1) % SweepInterval]
    /\ found' = [found EXCEPT ![r] = @ \ {t}]
    /\ lag' = [lag EXCEPT ![r][t] = 0]
    /\ UNCHANGED <<issued, sessions, deleted, revoked_for, evicting>>

\* The tokens in S stop being valid now.
Revoke(S) == revoked_for' = [t \in Tokens |-> IF t \in S THEN 0 ELSE revoked_for[t]]

\* logout deletes the row ...
LogoutDeletes(r, t) ==
    /\ t \in issued
    /\ sessions' = sessions \ {t}
    /\ Revoke({t} \cap {x \in sessions : Valid(x)})
    /\ evicting' = [evicting EXCEPT ![r] = @ \cup {t}]
    /\ UNCHANGED <<issued, deleted, cacheVars, found, lag>>

\* ... then evicts the token from this replica's cache and returns.
LogoutEvicts(r, t) ==
    /\ t \in evicting[r]
    /\ Cache(r, entries[r] \ {t}, {})
    /\ evicting' = [evicting EXCEPT ![r] = @ \ {t}]
    /\ UNCHANGED <<issued, sessions, deleted, revoked_for, insert_count, found, lag>>

TokensOf(u) == {t \in Tokens : Owner[t] = u}

\* A password change deletes every session of the user in one transaction ...
PasswordChanges(r, u) ==
    /\ u \notin deleted
    /\ sessions' = sessions \ TokensOf(u)
    /\ Revoke(TokensOf(u) \cap sessions)
    /\ evicting' = [evicting EXCEPT ![r] = @ \cup (TokensOf(u) \cap issued)]
    /\ UNCHANGED <<issued, deleted, cacheVars, found, lag>>

\* ... then evict_user drops them from this replica's cache.
PasswordEvicts(r, u) ==
    /\ evicting[r] \cap TokensOf(u) # {}
    /\ Cache(r, entries[r] \ TokensOf(u), {})
    /\ evicting' = [evicting EXCEPT ![r] = @ \ TokensOf(u)]
    /\ UNCHANGED <<issued, sessions, deleted, revoked_for, insert_count, found, lag>>

\* soft_delete_user marks the user and deletes the sessions in one transaction;
\* it evicts nothing from any cache.
UserDeleted(u) ==
    /\ u \notin deleted
    /\ deleted' = deleted \cup {u}
    /\ sessions' = sessions \ TokensOf(u)
    /\ Revoke(TokensOf(u) \cap sessions)
    /\ UNCHANGED <<issued, cacheVars, found, lag, evicting>>

\* A replica restarts with an empty cache; its requests and calls are gone.
Restart(r) ==
    /\ Cache(r, {}, {})
    /\ insert_count' = [insert_count EXCEPT ![r] = 0]
    /\ found' = [found EXCEPT ![r] = {}]
    /\ lag' = [lag EXCEPT ![r] = [t \in Tokens |-> 0]]
    /\ evicting' = [evicting EXCEPT ![r] = {}]
    /\ UNCHANGED <<issued, sessions, deleted, revoked_for>>

Older(age, top) == IF age < top THEN age + 1 ELSE top

Tick ==
    /\ \A r \in Replicas : \A t \in found[r] : lag[r][t] < MaxLag
    /\ revoked_for' = [t \in Tokens |->
           IF t \in issued /\ ~Valid(t) THEN Older(revoked_for[t], Ttl + MaxLag) ELSE 0]
    /\ cached_for' = [r \in Replicas |-> [t \in Tokens |->
           IF t \in entries[r] THEN Older(cached_for[r][t], Ttl) ELSE 0]]
    /\ lag' = [r \in Replicas |-> [t \in Tokens |->
           IF t \in found[r] THEN lag[r][t] + 1 ELSE 0]]
    /\ UNCHANGED <<issued, sessions, deleted, entries, insert_count, found, evicting>>

Next ==
    \/ \E t \in Tokens : Login(t)
    \/ \E r \in Replicas : \/ Restart(r)
                           \/ \E t \in Tokens : \/ RequestReads(r, t) \/ RequestInserts(r, t)
                                                \/ LogoutDeletes(r, t) \/ LogoutEvicts(r, t)
                           \/ \E u \in Users : PasswordChanges(r, u) \/ PasswordEvicts(r, u)
    \/ \E u \in Users : UserDeleted(u)
    \/ Tick

Spec == Init /\ [][Next]_vars

-----------------------------------------------------------------------------
\* A revoked session is accepted by no replica's cache later than the TTL
\* and one request's lag after the revocation: by logout, by a password
\* change or by deleting the user, whatever reads were in flight.
StaleBounded ==
    \A r \in Replicas, t \in Tokens :
        Hit(r, t) /\ ~Valid(t) => revoked_for[t] < Ttl + MaxLag
=============================================================================
