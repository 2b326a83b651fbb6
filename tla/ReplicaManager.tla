--------------------------- MODULE ReplicaManager ---------------------------
(***************************************************************************)
(* The replicas table and the heartbeat loop that every coderd process     *)
(* runs over it: a process inserts its row when it starts, refreshes       *)
(* updated_at once per interval, deletes every row older than three        *)
(* intervals, and deletes its own row when it is shut down                 *)
(* (crates/coder-server/src/replica_manager.rs, handlers/replicas.rs).     *)
(* The id of a row is fresh for every process, so an element of Replicas   *)
(* is one run of one process.                                              *)
(*                                                                         *)
(* Stamps are taken from the clock of the process that writes them, not    *)
(* from the database: Skew is how far that clock runs ahead.  The guard of *)
(* Tick states what the environment grants: a step that is due is taken    *)
(* within MaxLag, and no more than MaxFailures cycles fail in a row.       *)
(***************************************************************************)
EXTENDS Integers

CONSTANTS
    Replicas,    \* runs of coderd processes
    Skew,        \* how far a process's clock is ahead
    Spread,      \* the largest skew
    Interval,    \* ReplicaManagerOptions.update_interval
    MaxLag,      \* how late a due step may be
    MaxFailures, \* failed cycles in a row
    MaxTime      \* bound: the clock

Stale == 3 * Interval                                         \* stale_cutoff

\* How far n cycles in a row may reach.
Late(n) == n * (Interval + MaxLag)

\* The longest time between taking a stamp that reaches the row and the
\* landing of the next one that does: failed cycles, each late, then the
\* insert before them and the update after them.
Silence == Late(MaxFailures + 1) + 2 * MaxLag

ASSUME ReplicaAssumption ==
    /\ Spread \in Nat /\ Skew \in [Replicas -> 0 .. Spread]
    /\ Interval \in Nat \ {0} /\ MaxLag \in Nat /\ MaxFailures \in Nat
    /\ MaxTime \in Nat

\* What the deployment has to grant for three intervals to be enough.
ASSUME MarginAssumption == Silence + Spread < Stale

Null == -1

VARIABLES
    now,        \* real time
    pc,         \* where a process is
    stopping,   \* its cancellation token
    at,         \* real time at which it read its clock last
    failures,   \* cycles that failed since one succeeded
    created_at, \* column created_at
    updated_at  \* column updated_at, or Null when there is no row

vars == <<now, pc, stopping, at, failures, created_at, updated_at>>

Steps == {"new", "insert", "idle", "refresh", "prune", "delete", "gone"}

TypeOK ==
    /\ now \in Nat
    /\ pc \in [Replicas -> Steps]
    /\ stopping \in [Replicas -> BOOLEAN]
    /\ at \in [Replicas -> Nat]
    /\ failures \in [Replicas -> 0 .. MaxFailures]
    /\ created_at \in [Replicas -> Nat]
    /\ updated_at \in [Replicas -> Nat \cup {Null}]

Init ==
    /\ now = 0
    /\ pc = [r \in Replicas |-> "new"]
    /\ stopping = [r \in Replicas |-> FALSE]
    /\ at = [r \in Replicas |-> 0]
    /\ failures = [r \in Replicas |-> 0]
    /\ created_at = [r \in Replicas |-> 0]
    /\ updated_at = [r \in Replicas |-> Null]

Clock(r) == now + Skew[r]          \* what r reads now
Stamp(r) == at[r] + Skew[r]        \* what r read when it began its step

\* The loop runs, and the insert is done.
Registered(r) == pc[r] \in {"idle", "refresh", "prune"}

\* list_coderd_replicas, asked for by a handler of o.
Listed(o) == {r \in Replicas : updated_at[r] # Null /\ updated_at[r] > Clock(o) - Stale}

GoTo(r, step) == pc' = [pc EXCEPT ![r] = step]

\* The process ends; its memory goes with it.
Exit(r) ==
    /\ GoTo(r, "gone")
    /\ stopping' = [stopping EXCEPT ![r] = FALSE]
    /\ at' = [at EXCEPT ![r] = 0]
    /\ failures' = [failures EXCEPT ![r] = 0]

-----------------------------------------------------------------------------
(* ReplicaManager::start: the stamp is taken before the ping and the       *)
(* insert.                                                                 *)

Begin(r) ==
    /\ pc[r] = "new"
    /\ at' = [at EXCEPT ![r] = now]
    /\ GoTo(r, "insert")
    /\ UNCHANGED <<now, stopping, failures, created_at, updated_at>>

Insert(r) ==
    /\ pc[r] = "insert"
    /\ created_at' = [created_at EXCEPT ![r] = Stamp(r)]
    /\ updated_at' = [updated_at EXCEPT ![r] = Stamp(r)]
    /\ at' = [at EXCEPT ![r] = now]              \* the interval starts here
    /\ GoTo(r, "idle")
    /\ UNCHANGED <<now, stopping, failures>>

\* A failed insert ends the process.
InsertFails(r) ==
    /\ pc[r] = "insert"
    /\ Exit(r)
    /\ UNCHANGED <<now, created_at, updated_at>>

-----------------------------------------------------------------------------
(* run_heartbeat_loop.  The select is not biased: a tick that is due may   *)
(* be served before the cancellation.  A missed tick delays the next one.  *)

BeginCycle(r) ==
    /\ pc[r] = "idle" /\ now >= at[r] + Interval
    /\ at' = [at EXCEPT ![r] = now]
    /\ GoTo(r, "refresh")
    /\ UNCHANGED <<now, stopping, failures, created_at, updated_at>>

\* refresh_coderd_replica: an update, which does not bring a row back.
Refresh(r) ==
    /\ pc[r] = "refresh"
    /\ updated_at' = [updated_at EXCEPT ![r] = IF @ = Null THEN Null ELSE Stamp(r)]
    /\ GoTo(r, "prune")
    /\ UNCHANGED <<now, stopping, at, failures, created_at>>

\* MUTANTS: the threshold is one interval; nothing is deleted.
StaleRows1(threshold) == {r \in Replicas : updated_at[r] < threshold + 2 * Interval}
NoStaleRows(threshold) == {}

\* The rows that prune_stale_coderd_replicas deletes.
StaleRows(threshold) == {r \in Replicas : updated_at[r] < threshold}

Prune(r) ==
    /\ pc[r] = "prune"
    /\ updated_at' = [q \in Replicas |->
                        IF q \in StaleRows(Stamp(r) - Stale) THEN Null ELSE updated_at[q]]
    /\ failures' = [failures EXCEPT ![r] = 0]
    /\ GoTo(r, "idle")
    /\ UNCHANGED <<now, stopping, at, created_at>>

\* Either statement fails: the cycle ends there and is only logged.
CycleFails(r) ==
    /\ pc[r] \in {"refresh", "prune"} /\ failures[r] < MaxFailures
    /\ failures' = [failures EXCEPT ![r] = @ + 1]
    /\ GoTo(r, "idle")
    /\ UNCHANGED <<now, stopping, at, created_at, updated_at>>

-----------------------------------------------------------------------------
(* ReplicaManager::shutdown: cancel, join the loop, delete the row.        *)

Shutdown(r) ==
    /\ Registered(r) /\ ~stopping[r]
    /\ stopping' = [stopping EXCEPT ![r] = TRUE]
    /\ UNCHANGED <<now, pc, at, failures, created_at, updated_at>>

LoopEnds(r) ==
    /\ pc[r] = "idle" /\ stopping[r]
    /\ GoTo(r, "delete")
    /\ UNCHANGED <<now, stopping, at, failures, created_at, updated_at>>

Delete(r) ==
    /\ pc[r] = "delete"
    /\ updated_at' = [updated_at EXCEPT ![r] = Null]
    /\ Exit(r)
    /\ UNCHANGED <<now, created_at>>

\* The process dies, or the delete fails.
Crash(r) ==
    /\ pc[r] \notin {"new", "gone"}
    /\ Exit(r)
    /\ UNCHANGED <<now, created_at, updated_at>>

-----------------------------------------------------------------------------
(* A step that is due is taken within MaxLag.                              *)
Deadline(r) == IF pc[r] = "idle" THEN at[r] + Interval + MaxLag ELSE at[r] + MaxLag

Tick ==
    /\ now < MaxTime
    /\ \A r \in Replicas : Registered(r) \/ pc[r] = "insert" => now < Deadline(r)
    /\ now' = now + 1
    /\ UNCHANGED <<pc, stopping, at, failures, created_at, updated_at>>

Next ==
    \/ \E r \in Replicas :
         \/ Begin(r) \/ Insert(r) \/ InsertFails(r)
         \/ BeginCycle(r) \/ Refresh(r) \/ Prune(r) \/ CycleFails(r)
         \/ Shutdown(r) \/ LoopEnds(r) \/ Delete(r) \/ Crash(r)
    \/ Tick

Spec == Init /\ [][Next]_vars

-----------------------------------------------------------------------------
(* Properties.                                                             *)

\* A process that runs is listed by every process: neither a peer whose
\* clock runs ahead, nor a failed or late cycle of its own, loses its row.
\* A lost row would not come back, the loop only warns that it is missing.
LiveIsListed ==
    \A r, o \in Replicas : Registered(r) => r \in Listed(o)

\* A process that has run for long enough has pruned every row that nobody
\* refreshes, its own failed cycles included: rows of crashed processes,
\* and of those whose delete failed, do not stay.
DeadIsPruned ==
    \A p, r \in Replicas :
        /\ Registered(p)
        /\ Clock(p) > created_at[p] + Silence
        /\ updated_at[r] # Null
        => Clock(p) <= updated_at[r] + Stale + Silence
=============================================================================
