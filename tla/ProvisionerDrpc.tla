------------------------------- MODULE ProvisionerDrpc ------------------------------
(* The DRPC face of the job table (crates/coder-provisioner/src/drpc_service.rs).   *)
(* UpdateJob, FailJob and CompleteJob read the row, check it and write it by        *)
(* separate store calls, so that the calls of several connections interleave        *)
(* between the check and the write.                                                 *)
EXTENDS ProvisionerJobTable

CONSTANTS
    Calls,     \* the RPCs that may be in flight at once
    NilWorker  \* Uuid::nil(), the worker AcquireJob writes for every daemon

ASSUME CallAssumption == NilWorker \in Workers

VARIABLES
    method,   \* call -> the method in flight after its checks passed, or "none"
    target,   \* call -> its job
    seen,     \* the calls whose read of the row found canceled_at set
    beaten,   \* the UpdateJob calls that have written their heartbeat
    answered  \* the jobs that some UpdateJob answered "canceled"

callVars == <<method, target, seen, beaten, answered>>
rpcVars == <<rows, started, canceled, completed, errored, worker_id, age, logs,
             method, target, seen, beaten, answered>>

RpcTypeOK ==
    /\ TableTypeOK
    /\ method \in [Calls -> {"none", "UpdateJob", "FailJob", "CompleteJob"}]
    /\ target \in [Calls -> Jobs \cup {NoJob}]
    /\ seen \subseteq Calls /\ beaten \subseteq Calls /\ answered \subseteq Jobs

RpcInit ==
    /\ TableInit
    /\ method = [c \in Calls |-> "none"]
    /\ target = [c \in Calls |-> NoJob]
    /\ seen = {} /\ beaten = {} /\ answered = {}

UserSubmits(j) == InsertJob(j) /\ UNCHANGED callVars
UserCancels(j) == UserCancel(j) /\ UNCHANGED callVars

(* AcquireJob: one statement, with the nil worker, the nil organization and no tags. *)
RpcAcquire(j) == AcquireJob(NilWorker, j) /\ UNCHANGED callVars

(* Mutations: the "already completed" check left out, and completed_at read in the  *)
(* place of canceled_at.                                                            *)
RpcCheckOpen(c, m, j) ==
    /\ method[c] = "none"
    /\ j \in rows
    /\ worker_id[j] # NoWorker
    /\ method' = [method EXCEPT ![c] = m]
    /\ target' = [target EXCEPT ![c] = j]
    /\ seen' = IF j \in canceled THEN seen \cup {c} ELSE seen \ {c}
    /\ UNCHANGED <<beaten, answered, tableVars>>
RpcCheckWrongColumn(c, m, j) ==
    /\ method[c] = "none"
    /\ j \in rows
    /\ worker_id[j] # NoWorker
    /\ m \in {"FailJob", "CompleteJob"} => j \notin completed
    /\ method' = [method EXCEPT ![c] = m]
    /\ target' = [target EXCEPT ![c] = j]
    /\ seen' = IF j \in completed THEN seen \cup {c} ELSE seen \ {c}
    /\ UNCHANGED <<beaten, answered, tableVars>>

(* get_provisioner_job_by_id and the early returns: a rejected call changes nothing. *)
RpcCheck(c, m, j) ==
    /\ method[c] = "none"
    /\ j \in rows
    /\ worker_id[j] # NoWorker
    /\ m \in {"FailJob", "CompleteJob"} => j \notin completed
    /\ method' = [method EXCEPT ![c] = m]
    /\ target' = [target EXCEPT ![c] = j]
    /\ seen' = IF j \in canceled THEN seen \cup {c} ELSE seen \ {c}
    /\ UNCHANGED <<beaten, answered, tableVars>>

Return(c) ==
    /\ method' = [method EXCEPT ![c] = "none"]
    /\ target' = [target EXCEPT ![c] = NoJob]
    /\ seen' = seen \ {c}
    /\ beaten' = beaten \ {c}

(* fail_job and complete_job after their checks: the unconditional completion.      *)
RpcFinish(c) ==
    /\ method[c] \in {"FailJob", "CompleteJob"}
    /\ CompleteJob(target[c], method[c] = "FailJob")
    /\ Return(c)
    /\ UNCHANGED answered

(* update_job after its checks: the heartbeat, ...                                  *)
RpcHeartbeat(c) ==
    /\ method[c] = "UpdateJob" /\ c \notin beaten
    /\ TouchJob(target[c])
    /\ beaten' = beaten \cup {c}
    /\ UNCHANGED <<method, target, seen, answered>>

(* ... the logs of the request, if any, and the answer, from the row as it was read. *)
RpcUpdateReturn(c) ==
    /\ method[c] = "UpdateJob" /\ c \in beaten
    /\ InsertJobLogs(target[c]) \/ UNCHANGED tableVars
    /\ answered' = IF c \in seen THEN answered \cup {target[c]} ELSE answered
    /\ Return(c)

(* A store call failed, or the connection went: the handler returns the error.      *)
RpcAbort(c) ==
    /\ method[c] # "none"
    /\ Return(c)
    /\ UNCHANGED <<answered, tableVars>>

RpcNext ==
    \/ \E j \in Jobs : UserSubmits(j) \/ UserCancels(j) \/ RpcAcquire(j)
    \/ \E c \in Calls :
        \/ \E m \in {"UpdateJob", "FailJob", "CompleteJob"}, j \in Jobs : RpcCheck(c, m, j)
        \/ RpcFinish(c)
        \/ RpcHeartbeat(c)
        \/ RpcUpdateReturn(c)
        \/ RpcAbort(c)

RpcSpec == RpcInit /\ [][RpcNext]_rpcVars

(* The calls that are past their checks and about to write the outcome of j.        *)
Writers(j) == {c \in Calls : method[c] \in {"FailJob", "CompleteJob"} /\ target[c] = j}

(* The outcome of a completed job settles: FailJob and CompleteJob of a completed   *)
(* job are rejected, so no call joins those that had passed their checks before it  *)
(* was completed, and each change of the outcome uses one of them up.  Two calls in *)
(* flight do overwrite each other's outcome; once they have returned it is final.   *)
OutcomeSettles ==
    [][\A j \in completed :
          /\ Writers(j)' \subseteq Writers(j)
          /\ (j \in errored' <=> j \in errored) \/ Writers(j)' # Writers(j)]_rpcVars

(* An UpdateJob never reports a cancellation that the row does not carry, and a     *)
(* reported one is never taken back: the job can only end as canceled.              *)
ReportedCancelHolds ==
    \A j \in answered : JobStatus(j) \in {"canceling", "canceled"}
====================================================================================
