-------------------------- MODULE CryptoKeyRotator --------------------------
(***************************************************************************)
(* The signing keys of one feature (table crypto_keys), the rotation sweep *)
(* that every coderd replica runs over them under an advisory lock, and    *)
(* the /crypto-keys handler that creates a first key when it finds none    *)
(* (crates/coder-server/src/crypto_key_rotator.rs and                      *)
(* handlers/workspaceproxies.rs).  Features do not share rows; a sweep     *)
(* treats them one after the other.                                        *)
(***************************************************************************)
EXTENDS Integers, FiniteSets

CONSTANTS
    Replicas,      \* one rotator per coderd process
    Requests,      \* /crypto-keys requests that may be in progress
    Nobody,        \* the advisory lock is free
    Interval,      \* RotatorOptions.interval
    KeyDuration,   \* RotatorOptions.key_duration
    Hour,          \* the hour that is granted to pick up a new key
    TokenDuration, \* token_duration(feature)
    MaxSequence,   \* bound: the largest sequence (an i32 column)
    MaxTime,       \* bound: the clock
    MaxLosses      \* bound: lost lock connections and crashed processes

ASSUME RotatorAssumption ==
    /\ Nobody \notin Replicas
    /\ Interval \in Nat /\ KeyDuration \in Nat
    /\ Hour \in Nat \ {0} /\ TokenDuration \in Nat
    /\ MaxSequence \in Nat /\ MaxTime \in Nat /\ MaxLosses \in Nat

Null == -1
Sequences == 1 .. MaxSequence

VARIABLES
    now,        \* the clock
    present,    \* the sequences of the rows of crypto_keys
    starts_at,  \* column starts_at
    deletes_at, \* column deletes_at, or Null
    lock,       \* whose connection holds the advisory lock
    pc,         \* where each replica's sweep is
    sweepNow,   \* the time the sweep was given when it began
    todo,       \* the keys that the sweep still has to look at
    seenStarts, \* starts_at, as list_all returned it
    seenDeletes,\* deletes_at, as list_all returned it
    valid,      \* valid_keys > 0
    next,       \* the sequence computed from max_sequence_for_feature
    request,    \* time at which the request found no active key, or Null
    losses      \* history: lost locks and crashes

keyVars == <<present, starts_at, deletes_at>>
sweepVars == <<pc, sweepNow, todo, seenStarts, seenDeletes, valid, next>>
vars == <<now, keyVars, lock, sweepVars, request, losses>>

Steps == {"idle", "locked", "loop", "rotate", "insert", "release"}
Times == Nat \cup {Null}

TypeOK ==
    /\ now \in Nat
    /\ present \subseteq Sequences
    /\ starts_at \in [Sequences -> Nat]
    /\ deletes_at \in [Sequences -> Times]
    /\ lock \in Replicas \cup {Nobody}
    /\ pc \in [Replicas -> Steps]
    /\ sweepNow \in [Replicas -> Nat]
    /\ todo \in [Replicas -> SUBSET Sequences]
    /\ seenStarts \in [Replicas -> [Sequences -> Nat]]
    /\ seenDeletes \in [Replicas -> [Sequences -> Times]]
    /\ valid \in [Replicas -> BOOLEAN]
    /\ next \in [Replicas -> Nat]
    /\ request \in [Requests -> Times]
    /\ losses \in 0 .. MaxLosses

NoStarts == [k \in Sequences |-> 0]
NoDeletes == [k \in Sequences |-> Null]

Init ==
    /\ now = 0
    /\ present = {}
    /\ starts_at = NoStarts
    /\ deletes_at = NoDeletes
    /\ lock = Nobody
    /\ pc = [r \in Replicas |-> "idle"]
    /\ sweepNow = [r \in Replicas |-> 0]
    /\ todo = [r \in Replicas |-> {}]
    /\ seenStarts = [r \in Replicas |-> NoStarts]
    /\ seenDeletes = [r \in Replicas |-> NoDeletes]
    /\ valid = [r \in Replicas |-> FALSE]
    /\ next = [r \in Replicas |-> 0]
    /\ request = [q \in Requests |-> Null]
    /\ losses = 0

-----------------------------------------------------------------------------
(* The rules of the rotation.                                              *)

ShouldDelete(deletes, at) == deletes # Null /\ at >= deletes
ShouldRotate(starts, deletes, at) == deletes = Null /\ at + Hour >= starts + KeyDuration

MinStartsAt(starts, at) ==
    LET expires == starts + KeyDuration
        floor   == at + 3 * Interval
    IN  IF expires < floor THEN floor ELSE expires

\* MUTANTS: the old key goes with the sweep; the hour is left out.
RetiredAtOnce(starts, at) == at
GraceOfTokenOnly(starts, at) == MinStartsAt(starts, at) + TokenDuration

\* When the old key goes, in rotate_key.
RetiresAt(starts, at) == MinStartsAt(starts, at) + Hour + TokenDuration

\* list_crypto_keys_by_feature.
Active(k) ==
    /\ k \in present
    /\ starts_at[k] <= now
    /\ deletes_at[k] = Null \/ deletes_at[k] > now

\* max_sequence_for_feature, plus one.
NextSequence == 1 + (IF present = {} THEN 0
                     ELSE CHOOSE k \in present : \A j \in present : j <= k)

-----------------------------------------------------------------------------
(* The sweep of replica r.                                                 *)

\* MUTANT: the lock is not tried.
BeginUnlocked(r) ==
    /\ pc[r] = "idle"
    /\ lock' = r
    /\ pc' = [pc EXCEPT ![r] = "locked"]
    /\ sweepNow' = [sweepNow EXCEPT ![r] = now]
    /\ UNCHANGED <<now, keyVars, todo, seenStarts, seenDeletes, valid, next, request, losses>>

\* rotate_once takes the time, then tries the lock; if another replica has
\* it, the sweep is skipped.  A connection of its own pool that kept the lock
\* gets it again: PostgreSQL counts the locks of a session.
Begin(r) ==
    /\ pc[r] = "idle"
    /\ lock \in {Nobody, r}
    /\ lock' = r
    /\ pc' = [pc EXCEPT ![r] = "locked"]
    /\ sweepNow' = [sweepNow EXCEPT ![r] = now]
    /\ UNCHANGED <<now, keyVars, todo, seenStarts, seenDeletes, valid, next, request, losses>>

\* list_all: from here on the sweep works on what it has seen.
List(r) ==
    /\ pc[r] = "locked"
    /\ pc' = [pc EXCEPT ![r] = "loop"]
    /\ todo' = [todo EXCEPT ![r] = present]
    /\ seenStarts' = [seenStarts EXCEPT ![r] = starts_at]
    /\ seenDeletes' = [seenDeletes EXCEPT ![r] = deletes_at]
    /\ valid' = [valid EXCEPT ![r] = FALSE]
    /\ UNCHANGED <<now, keyVars, lock, sweepNow, next, request, losses>>

ListFails(r) ==
    /\ pc[r] = "locked"
    /\ pc' = [pc EXCEPT ![r] = "release"]
    /\ UNCHANGED <<now, keyVars, lock, sweepNow, todo, seenStarts, seenDeletes, valid, next,
                   request, losses>>

\* The loop takes the keys in the order of their sequences.
Takes(r, k) == pc[r] = "loop" /\ k \in todo[r] /\ \A j \in todo[r] : k <= j
Drop(r, k) == todo' = [todo EXCEPT ![r] = @ \ {k}]

\* delete, or an error that is only logged.
DeleteKey(r, k) ==
    /\ Takes(r, k)
    /\ ShouldDelete(seenDeletes[r][k], sweepNow[r])
    /\ \/ /\ present' = present \ {k}
          /\ starts_at' = [starts_at EXCEPT ![k] = 0]
          /\ deletes_at' = [deletes_at EXCEPT ![k] = Null]
       \/ UNCHANGED keyVars
    /\ Drop(r, k)
    /\ UNCHANGED <<now, lock, pc, sweepNow, seenStarts, seenDeletes,
                   valid, next, request, losses>>

\* rotate_key reads the largest sequence ...
BeginRotate(r, k) ==
    /\ Takes(r, k)
    /\ ~ShouldDelete(seenDeletes[r][k], sweepNow[r])
    /\ ShouldRotate(seenStarts[r][k], seenDeletes[r][k], sweepNow[r])
    /\ next' = [next EXCEPT ![r] = NextSequence]
    /\ pc' = [pc EXCEPT ![r] = "rotate"]
    /\ UNCHANGED <<now, keyVars, lock, sweepNow, todo, seenStarts, seenDeletes, valid,
                   request, losses>>

Insert(k, starts) ==
    /\ k \in Sequences \ present
    /\ present' = present \cup {k}
    /\ starts_at' = [starts_at EXCEPT ![k] = starts]

\* ... and retires the key and inserts its successor in one transaction,
Rotate(r, k) ==
    /\ pc[r] = "rotate" /\ k \in todo[r] /\ \A j \in todo[r] : k <= j
    /\ k \in present
    /\ Insert(next[r], MinStartsAt(seenStarts[r][k], sweepNow[r]))
    /\ deletes_at' = [deletes_at EXCEPT ![k] = RetiresAt(seenStarts[r][k], sweepNow[r]),
                                        ![next[r]] = Null]
    /\ Drop(r, k)
    /\ pc' = [pc EXCEPT ![r] = "loop"]
    /\ valid' = [valid EXCEPT ![r] = TRUE]
    /\ UNCHANGED <<now, lock, sweepNow, seenStarts, seenDeletes, next, request, losses>>

\* which leaves both alone when the key has vanished, when the sequence is
\* taken or when the database fails; the error is logged.
RotateFails(r, k) ==
    /\ pc[r] = "rotate" /\ k \in todo[r] /\ \A j \in todo[r] : k <= j
    /\ Drop(r, k)
    /\ pc' = [pc EXCEPT ![r] = "loop"]
    /\ UNCHANGED <<now, keyVars, lock, sweepNow, seenStarts, seenDeletes, valid, next,
                   request, losses>>

\* Neither due for deletion nor for rotation: counted when not retired.
KeepKey(r, k) ==
    /\ Takes(r, k)
    /\ ~ShouldDelete(seenDeletes[r][k], sweepNow[r])
    /\ ~ShouldRotate(seenStarts[r][k], seenDeletes[r][k], sweepNow[r])
    /\ valid' = [valid EXCEPT ![r] = @ \/ seenDeletes[r][k] = Null]
    /\ Drop(r, k)
    /\ UNCHANGED <<now, keyVars, lock, pc, sweepNow, seenStarts, seenDeletes, next,
                   request, losses>>

\* The end of the loop: without a valid key insert_new_key is called.
EndLoop(r) ==
    /\ pc[r] = "loop" /\ todo[r] = {}
    /\ pc' = [pc EXCEPT ![r] = IF valid[r] THEN "release" ELSE "insert"]
    /\ next' = [next EXCEPT ![r] = IF valid[r] THEN @ ELSE NextSequence]
    /\ UNCHANGED <<now, keyVars, lock, sweepNow, todo, seenStarts, seenDeletes, valid,
                   request, losses>>

\* The first key starts at the sweep's time; an error is logged.
InsertNewKey(r) ==
    /\ pc[r] = "insert"
    /\ \/ /\ Insert(next[r], sweepNow[r])
          /\ deletes_at' = [deletes_at EXCEPT ![next[r]] = Null]
       \/ UNCHANGED keyVars
    /\ pc' = [pc EXCEPT ![r] = "release"]
    /\ UNCHANGED <<now, lock, sweepNow, todo, seenStarts, seenDeletes, valid, next,
                   request, losses>>

\* The sweep is over and its locals are gone.
Leave(r) ==
    /\ pc' = [pc EXCEPT ![r] = "idle"]
    /\ sweepNow' = [sweepNow EXCEPT ![r] = 0]
    /\ todo' = [todo EXCEPT ![r] = {}]
    /\ seenStarts' = [seenStarts EXCEPT ![r] = NoStarts]
    /\ seenDeletes' = [seenDeletes EXCEPT ![r] = NoDeletes]
    /\ valid' = [valid EXCEPT ![r] = FALSE]
    /\ next' = [next EXCEPT ![r] = 0]

Unlock(r) == lock' = IF lock = r THEN Nobody ELSE lock

\* The guard unlocks, if its connection still holds the lock.  When that
\* statement fails, or the connection held the lock twice, the lock goes
\* back to the pool with the connection.
Release(r) ==
    /\ pc[r] = "release"
    /\ Leave(r)
    /\ Unlock(r) \/ UNCHANGED lock
    /\ UNCHANGED <<now, keyVars, request, losses>>

-----------------------------------------------------------------------------
(* The handler, failures and time.                                         *)

\* A workspace proxy asks for the keys and there is no active one.
RequestFindsNone(q) ==
    /\ request[q] = Null
    /\ \A k \in Sequences : ~Active(k)
    /\ request' = [request EXCEPT ![q] = now]
    /\ UNCHANGED <<now, keyVars, lock, sweepVars, losses>>

\* It inserts sequence 1, without the lock; if the row is there it fails.
RequestInserts(q) ==
    /\ request[q] # Null
    /\ \/ /\ \E t \in request[q] .. now : Insert(1, t)
          /\ deletes_at' = [deletes_at EXCEPT ![1] = Null]
       \/ UNCHANGED keyVars
    /\ request' = [request EXCEPT ![q] = Null]
    /\ UNCHANGED <<now, lock, sweepVars, losses>>

\* The connection that holds the session lock is closed; the sweep, which
\* uses other connections of the pool, goes on.
LoseLock ==
    /\ lock # Nobody
    /\ losses < MaxLosses
    /\ losses' = losses + 1
    /\ lock' = Nobody
    /\ UNCHANGED <<now, keyVars, sweepVars, request>>

\* A connection that has kept the lock after the sweep is closed by its pool.
PooledLockEnds ==
    /\ \E r \in Replicas : lock = r /\ pc[r] = "idle"
    /\ lock' = Nobody
    /\ UNCHANGED <<now, keyVars, sweepVars, request, losses>>

\* A process dies in its sweep; its connections close.
Crash(r) ==
    /\ pc[r] # "idle"
    /\ losses < MaxLosses
    /\ losses' = losses + 1
    /\ Leave(r)
    /\ Unlock(r)
    /\ UNCHANGED <<now, keyVars, request>>

Tick ==
    /\ now < MaxTime
    /\ now' = now + 1
    /\ UNCHANGED <<keyVars, lock, sweepVars, request, losses>>

Sweep(r) ==
    \/ Begin(r) \/ List(r) \/ ListFails(r) \/ EndLoop(r) \/ InsertNewKey(r) \/ Release(r)
    \/ \E k \in Sequences :
          DeleteKey(r, k) \/ BeginRotate(r, k) \/ Rotate(r, k) \/ RotateFails(r, k) \/ KeepKey(r, k)

Next ==
    \/ \E r \in Replicas : Sweep(r) \/ Crash(r)
    \/ \E q \in Requests : RequestFindsNone(q) \/ RequestInserts(q)
    \/ LoseLock \/ PooledLockEnds
    \/ Tick

Spec == Init /\ [][Next]_vars

-----------------------------------------------------------------------------
\* "Ensures each known feature always has at least one valid key": once there
\* is a key there is an active one at every moment, however late, slow, failed
\* or doubled the sweeps are.
AlwaysActive == present # {} => \E k \in Sequences : Active(k)

\* "Give downstream services time to pick up the new key": a key is removed
\* only when a later key has been active for an hour and the tokens signed
\* with the old one have run out.
RemovedOnceSuperseded ==
    [][\A k \in present \ present' :
          \E j \in present' : j > k /\ starts_at[j] + Hour + TokenDuration <= now]_vars

\* "Concurrent rotators skip rather than double-rotate": unless a lock was
\* lost, a retired key is not rotated again.
RetiredOnce ==
    [][losses' = 0 =>
          \A k \in present \cap present' :
              deletes_at[k] # Null => deletes_at'[k] = deletes_at[k]]_vars
=============================================================================
