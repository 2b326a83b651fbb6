---------------------------- MODULE ProvisionerJobTable ----------------------------
(* The provisioner_jobs table and the SQL statements that write it                 *)
(* (crates/coder-db/src/store/provisioner.rs, and the job insert and the user's     *)
(* cancel of store/app_store.rs).  Every statement is one atomic step, as it is     *)
(* under PostgreSQL's READ COMMITTED with row locks.                                *)
(*                                                                                  *)
(* A timestamp column is kept as far as the code reads it: started_at, canceled_at  *)
(* and completed_at only by "IS NULL" (the sets of the jobs where they are set),    *)
(* error only by "= ''" (the set errored), and updated_at only through its          *)
(* distance from now, which is compared with two thresholds.  That distance is      *)
(* age, and it saturates one above the larger threshold.  A completed row's         *)
(* updated_at is never read: its age is 0 and stays so.                             *)
EXTENDS Integers, FiniteSets

CONSTANTS
    Jobs,           \* the ids of the jobs that are ever inserted
    Workers,        \* the daemons: an organization, a name, hence a row id (worker_id)
    NoWorker,       \* worker_id IS NULL
    NoJob,          \* no job: what a session or a call has when it is idle
    CreatedAt,      \* job -> created_at, what acquisition orders by
    JobOrg, JobType, JobTags,           \* job -> organization, provisioner, tags
    WorkerOrg, WorkerTypes, WorkerTags, \* daemon -> organization, types, tags
    UntaggedScope,  \* the tag set {"scope": "organization", "owner": ""}
    HungAfter,      \* DEFAULT_HEARTBEAT_TIMEOUT_SECS
    PendingAfter,   \* DEFAULT_MAX_PENDING_AGE_SECS
    MaxLogs         \* bound on the log batches kept of all jobs

ASSUME WorkerAssumption == NoWorker \notin Workers
ASSUME JobAssumption == NoJob \notin Jobs
ASSUME ThresholdAssumption == HungAfter \in Nat /\ PendingAfter \in Nat /\ MaxLogs \in Nat
ASSUME AttributeAssumption ==
    /\ CreatedAt \in [Jobs -> Int]
    /\ DOMAIN JobOrg = Jobs /\ DOMAIN JobType = Jobs /\ DOMAIN JobTags = Jobs
    /\ DOMAIN WorkerOrg = Workers /\ DOMAIN WorkerTags = Workers
    /\ DOMAIN WorkerTypes = Workers

VARIABLES
    rows,       \* the inserted jobs
    started,    \* started_at IS NOT NULL
    canceled,   \* canceled_at IS NOT NULL
    completed,  \* completed_at IS NOT NULL
    errored,    \* error <> ''
    worker_id,  \* job -> the daemon that acquired it, or NoWorker
    age,        \* job -> now - updated_at, saturating
    logs        \* log batches inserted, of all jobs (nothing reads them back)

tableVars == <<rows, started, canceled, completed, errored, worker_id, age, logs>>

MaxAge == IF HungAfter > PendingAfter THEN HungAfter + 1 ELSE PendingAfter + 1

TableTypeOK ==
    /\ rows \subseteq Jobs /\ started \subseteq Jobs /\ canceled \subseteq Jobs
    /\ completed \subseteq Jobs /\ errored \subseteq Jobs
    /\ worker_id \in [Jobs -> Workers \cup {NoWorker}]
    /\ age \in [Jobs -> 0..MaxAge]
    /\ logs \in 0..MaxLogs

TableInit ==
    /\ rows = {} /\ started = {} /\ canceled = {} /\ completed = {} /\ errored = {}
    /\ worker_id = [j \in Jobs |-> NoWorker]
    /\ age = [j \in Jobs |-> 0]
    /\ logs = 0

(* The generated column job_status, and the same CASE in find_provisioner_job.      *)
JobStatus(j) ==
    CASE j \notin rows                                  -> "absent"
      [] j \in completed \cap canceled                  -> "canceled"
      [] j \in (completed \cap errored) \ canceled      -> "failed"
      [] j \in completed \ (errored \cup canceled)      -> "succeeded"
      [] j \in canceled \ completed                     -> "canceling"
      [] j \in started \ (completed \cup canceled)      -> "running"
      [] j \in rows \ (started \cup completed \cup canceled) -> "pending"

(* insert_provisioner_job and create_provisioner_job: every nullable column NULL.   *)
InsertJob(j) ==
    /\ j \notin rows
    /\ rows' = rows \cup {j}
    /\ age' = [age EXCEPT ![j] = 0]
    /\ UNCHANGED <<started, canceled, completed, errored, worker_id, logs>>

(* The tag rule of the acquire statement: an untagged organization-scoped job asks  *)
(* for equal tags, any other job for a superset.                                    *)
TagsMatch(j, w) ==
    IF JobTags[j] = UntaggedScope THEN JobTags[j] = WorkerTags[w]
                                  ELSE JobTags[j] \subseteq WorkerTags[w]

(* Mutations: the subselect without started_at IS NULL, and with only that.          *)
AcquirableTwice(w) ==
    {j \in rows \ (completed \cup canceled) :
        JobOrg[j] = WorkerOrg[w] /\ JobType[j] \in WorkerTypes[w] /\ TagsMatch(j, w)}
AcquirableWhenOver(w) ==
    {j \in rows \ started :
        JobOrg[j] = WorkerOrg[w] /\ JobType[j] \in WorkerTypes[w] /\ TagsMatch(j, w)}

Acquirable(w) ==
    {j \in rows \ (started \cup completed \cup canceled) :
        JobOrg[j] = WorkerOrg[w] /\ JobType[j] \in WorkerTypes[w] /\ TagsMatch(j, w)}

(* ORDER BY created_at ASC LIMIT 1: rows with equal created_at in either order.     *)
Oldest(S) == {j \in S : \A k \in S : CreatedAt[j] <= CreatedAt[k]}

(* acquire_provisioner_job: one UPDATE over a locked subselect.                     *)
AcquireJob(w, j) ==
    /\ j \in Oldest(Acquirable(w))
    /\ started' = started \cup {j}
    /\ worker_id' = [worker_id EXCEPT ![j] = w]
    /\ age' = [age EXCEPT ![j] = 0]
    /\ UNCHANGED <<rows, canceled, completed, errored, logs>>

(* update_provisioner_job_by_id: the heartbeat, whatever the row's state.           *)
TouchJob(j) ==
    /\ age' = [age EXCEPT ![j] = 0]
    /\ UNCHANGED <<rows, started, canceled, completed, errored, worker_id, logs>>

(* update_provisioner_job_with_complete_by_id: WHERE id = $5 and nothing else.      *)
CompleteJob(j, failed) ==
    /\ completed' = completed \cup {j}
    /\ errored' = IF failed THEN errored \cup {j} ELSE errored \ {j}
    /\ age' = [age EXCEPT ![j] = 0]
    /\ UNCHANGED <<rows, started, canceled, worker_id, logs>>

(* update_provisioner_job_with_cancel_by_id with completed_at = Some(now).          *)
CancelAndComplete(j) ==
    /\ canceled' = canceled \cup {j}
    /\ completed' = completed \cup {j}
    /\ age' = [age EXCEPT ![j] = 0]
    /\ UNCHANGED <<rows, started, errored, worker_id, logs>>

(* Mutation: the user's cancel without its CASE WHEN worker_id IS NULL.              *)
UserCancelLeavesOpen(j) ==
    /\ j \in rows \ (canceled \cup completed)
    /\ canceled' = canceled \cup {j}
    /\ age' = [age EXCEPT ![j] = 0]
    /\ UNCHANGED <<rows, started, completed, errored, worker_id, logs>>

(* cancel_template_provisioner_job, behind every cancel route of the API: a job     *)
(* nobody has acquired is completed on the spot, an acquired one is left to its     *)
(* daemon.                                                                          *)
UserCancel(j) ==
    /\ j \in rows \ (canceled \cup completed)
    /\ canceled' = canceled \cup {j}
    /\ completed' = IF worker_id[j] = NoWorker THEN completed \cup {j} ELSE completed
    /\ age' = [age EXCEPT ![j] = 0]
    /\ UNCHANGED <<rows, started, errored, worker_id, logs>>

(* insert_provisioner_job_logs: the rows and logs_length in one transaction.        *)
InsertJobLogs(j) ==
    /\ j \in rows
    /\ logs < MaxLogs
    /\ logs' = logs + 1
    /\ UNCHANGED <<rows, started, canceled, completed, errored, worker_id, age>>

(* Mutations: the reaper's query without its pending branch, and with a hung branch *)
(* that passes over canceled jobs.                                                  *)
NoStalePending == {}
StaleUncanceled == {j \in started \ (completed \cup canceled) : age[j] > HungAfter}

(* get_provisioner_jobs_to_be_reaped, before its LIMIT.                             *)
StalePending == {j \in rows \ (started \cup completed) : age[j] > PendingAfter}
StaleRunning == {j \in started \ completed : age[j] > HungAfter}

(* One tick of the clock: every open row gets older.                                *)
AgeRows ==
    age' = [j \in Jobs |-> IF j \in rows \ completed /\ age[j] < MaxAge
                           THEN age[j] + 1 ELSE age[j]]
====================================================================================
