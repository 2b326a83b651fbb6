----------------------------- MODULE ProvisionerDaemons ----------------------------
(* Daemon sessions (crates/coder-provisioner/src/server.rs), the stale-job reaper   *)
(* (crates/coder-provisioner/src/lib.rs) and the users who submit and cancel jobs,  *)
(* all working on the job table of ProvisionerJobTable.                             *)
(*                                                                                  *)
(* A session serves one message or one timer at a time, so each handler is one step *)
(* of its session; its single UPDATE is the table's step.  A store call may fail    *)
(* before it takes effect (the handler then changes nothing: a stuttering step) or  *)
(* after (the Unacked and Lost actions).                                            *)
EXTENDS ProvisionerJobTable

CONSTANTS
    Sessions,    \* WebSocket connections of daemons
    HeartbeatInterval, \* DEFAULT_HEARTBEAT_INTERVAL of a session
    MaxLateness, \* how late a heartbeat may reach the table (queueing, latency, a lost write)
    ReapBatch    \* DEFAULT_REAP_BATCH_SIZE

ASSUME TimingAssumption ==
    HeartbeatInterval \in Nat \ {0} /\ MaxLateness \in Nat /\ ReapBatch \in Nat \ {0}

(* The longest time a session that has a job goes without a heartbeat on it.        *)
MaxSilence == HeartbeatInterval + MaxLateness

VARIABLES
    session,      \* session -> the daemon it registered as, NoWorker when not connected
    current_job,  \* session -> the local current_job of run_daemon_session
    silence,      \* session -> time since its last heartbeat on its current job, 0 without one
    told,         \* the sessions that sent JobCanceled for their current job
    reap          \* job -> how it stands in the list of the reaper's current pass

sessionVars == <<session, current_job, silence, told>>
vars == <<rows, started, canceled, completed, errored, worker_id, age, logs,
          session, current_job, silence, told, reap>>

Connected(s) == session[s] # NoWorker
Holds(s, j) == current_job[s] = j

TypeOK ==
    /\ TableTypeOK
    /\ session \in [Sessions -> Workers \cup {NoWorker}]
    /\ current_job \in [Sessions -> Jobs \cup {NoJob}]
    /\ silence \in [Sessions -> 0..MaxSilence]
    /\ told \subseteq Sessions
    /\ reap \in [Jobs -> {"no", "pending", "hung"}]

Init ==
    /\ TableInit
    /\ session = [s \in Sessions |-> NoWorker]
    /\ current_job = [s \in Sessions |-> NoJob]
    /\ silence = [s \in Sessions |-> 0]
    /\ told = {}
    /\ reap = [j \in Jobs |-> "no"]

------------------------------------------------------------------------------------
(* Users.                                                                           *)
SubmitJob(j) == InsertJob(j) /\ UNCHANGED <<sessionVars, reap>>
CancelJob(j) == UserCancel(j) /\ UNCHANGED <<sessionVars, reap>>

------------------------------------------------------------------------------------
(* Daemon sessions.                                                                 *)

(* run_daemon_session up to its loop: register, with no current job.                *)
Connect(s, w) ==
    /\ ~Connected(s)
    /\ session' = [session EXCEPT ![s] = w]
    /\ current_job' = [current_job EXCEPT ![s] = NoJob]
    /\ silence' = [silence EXCEPT ![s] = 0]
    /\ UNCHANGED <<told, tableVars, reap>>

(* The loop's break: the job, if any, is left as it is in the table.                *)
Disconnect(s) ==
    /\ Connected(s)
    /\ session' = [session EXCEPT ![s] = NoWorker]
    /\ current_job' = [current_job EXCEPT ![s] = NoJob]
    /\ silence' = [silence EXCEPT ![s] = 0]
    /\ told' = told \ {s}
    /\ UNCHANGED <<tableVars, reap>>

SessionAcquire(s, j) ==
    /\ Connected(s) /\ current_job[s] = NoJob
    /\ AcquireJob(session[s], j)
    /\ current_job' = [current_job EXCEPT ![s] = j]
    /\ UNCHANGED <<session, silence, told, reap>>

(* The statement took effect but its answer was lost: the handler returns the       *)
(* error and the session has no current job.                                        *)
SessionAcquireLost(s, j) ==
    /\ Connected(s) /\ current_job[s] = NoJob
    /\ AcquireJob(session[s], j)
    /\ UNCHANGED <<sessionVars, reap>>

(* Mutation: a heartbeat that only touches the daemon's row.                         *)
HeartbeatOfDaemonOnly(s) ==
    /\ Connected(s)
    /\ silence' = [silence EXCEPT ![s] = 0]
    /\ UNCHANGED <<session, current_job, told, tableVars, reap>>

(* The heartbeat timer, or a Heartbeat message.                                     *)
SessionHeartbeat(s) ==
    /\ Connected(s)
    /\ silence' = [silence EXCEPT ![s] = 0]
    /\ IF current_job[s] # NoJob THEN TouchJob(current_job[s]) ELSE UNCHANGED tableVars
    /\ UNCHANGED <<session, current_job, told, reap>>

SessionLogs(s) ==
    /\ Connected(s) /\ current_job[s] # NoJob
    /\ InsertJobLogs(current_job[s])
    /\ UNCHANGED <<sessionVars, reap>>

(* Mutation: the check waits for a status that only the daemon's answer brings.      *)
CancelCheckTooLate(s) ==
    /\ Connected(s) /\ current_job[s] # NoJob
    /\ JobStatus(current_job[s]) = "canceled"
    /\ told' = told \cup {s}
    /\ UNCHANGED <<session, current_job, silence, tableVars, reap>>

(* The cancel-check timer.  JobCanceled is sent on every tick that finds the job    *)
(* canceling; once is enough to tell.  The Ok(None) branch cannot be taken: no      *)
(* statement of the program deletes a row of provisioner_jobs.                      *)
SessionCancelCheck(s) ==
    /\ Connected(s) /\ current_job[s] # NoJob
    /\ JobStatus(current_job[s]) = "canceling"
    /\ told' = told \cup {s}
    /\ UNCHANGED <<session, current_job, silence, tableVars, reap>>

ReleaseJob(s) ==
    /\ current_job' = [current_job EXCEPT ![s] = NoJob]
    /\ silence' = [silence EXCEPT ![s] = 0]
    /\ told' = told \ {s}
    /\ UNCHANGED session

SessionComplete(s, failed) ==
    /\ Connected(s) /\ current_job[s] # NoJob
    /\ CompleteJob(current_job[s], failed)
    /\ ReleaseJob(s)
    /\ UNCHANGED reap

(* The write took effect, the handler saw an error: current_job stays.              *)
SessionCompleteUnacked(s, failed) ==
    /\ Connected(s) /\ current_job[s] # NoJob
    /\ CompleteJob(current_job[s], failed)
    /\ UNCHANGED <<sessionVars, reap>>

SessionCancelComplete(s) ==
    /\ Connected(s) /\ current_job[s] # NoJob
    /\ CancelAndComplete(current_job[s])
    /\ ReleaseJob(s)
    /\ UNCHANGED reap

SessionCancelCompleteUnacked(s) ==
    /\ Connected(s) /\ current_job[s] # NoJob
    /\ CancelAndComplete(current_job[s])
    /\ UNCHANGED <<sessionVars, reap>>

------------------------------------------------------------------------------------
(* The reaper: reap_stale_jobs_once selects, then writes one job after the other    *)
(* with no second look at the row.                                                  *)
ReaperIdle == \A j \in Jobs : reap[j] = "no"

ReapSelect(batch) ==
    /\ ReaperIdle
    /\ batch \subseteq StalePending \cup StaleRunning /\ batch # {}
    /\ \/ Cardinality(batch) = ReapBatch
       \/ Cardinality(batch) < ReapBatch /\ batch = StalePending \cup StaleRunning
    /\ reap' = [j \in Jobs |-> IF j \notin batch THEN "no"
                               ELSE IF j \in StalePending THEN "pending" ELSE "hung"]
    /\ UNCHANGED <<tableVars, sessionVars>>

ReapWrite(j) ==
    /\ reap[j] # "no"
    /\ CompleteJob(j, TRUE)
    /\ reap' = [reap EXCEPT ![j] = "no"]
    /\ UNCHANGED sessionVars

(* The update failed: warn and go on with the next job.                             *)
ReapWriteFailed(j) ==
    /\ reap[j] # "no"
    /\ reap' = [reap EXCEPT ![j] = "no"]
    /\ UNCHANGED <<tableVars, sessionVars>>

------------------------------------------------------------------------------------
(* The server process dies: its sessions and the reaper's pass are gone, the table  *)
(* is not.                                                                          *)
ServerCrash ==
    /\ session' = [s \in Sessions |-> NoWorker]
    /\ current_job' = [s \in Sessions |-> NoJob]
    /\ silence' = [s \in Sessions |-> 0]
    /\ told' = {}
    /\ reap' = [j \in Jobs |-> "no"]
    /\ UNCHANGED tableVars

(* Time passes, but no session is silent on its job for longer than MaxSilence.     *)
Tick ==
    /\ \A s \in Sessions : silence[s] < MaxSilence
    /\ AgeRows
    /\ silence' = [s \in Sessions |-> IF current_job[s] # NoJob THEN silence[s] + 1 ELSE 0]
    /\ UNCHANGED <<rows, started, canceled, completed, errored, worker_id, logs,
                   session, current_job, told, reap>>

Next ==
    \/ \E j \in Jobs : SubmitJob(j) \/ CancelJob(j) \/ ReapWrite(j) \/ ReapWriteFailed(j)
    \/ \E s \in Sessions :
        \/ \E w \in Workers : Connect(s, w)
        \/ \E j \in Jobs : SessionAcquire(s, j) \/ SessionAcquireLost(s, j)
        \/ \E failed \in BOOLEAN : SessionComplete(s, failed) \/ SessionCompleteUnacked(s, failed)
        \/ Disconnect(s)
        \/ SessionHeartbeat(s)
        \/ SessionLogs(s)
        \/ SessionCancelCheck(s)
        \/ SessionCancelComplete(s) \/ SessionCancelCompleteUnacked(s)
    \/ \E batch \in SUBSET Jobs : ReapSelect(batch)
    \/ ServerCrash
    \/ Tick

Spec == Init /\ [][Next]_vars

(* The runtime keeps the timers running; the reaper's select takes its batch in     *)
(* random order, and a store that answers now and then lets each write through.     *)
Fairness ==
    /\ WF_vars(Tick)
    /\ \A s \in Sessions : WF_vars(SessionHeartbeat(s)) /\ WF_vars(SessionCancelCheck(s))
    /\ \A j \in Jobs :
        /\ SF_vars(\E batch \in SUBSET Jobs : j \in batch /\ ReapSelect(batch))
        /\ SF_vars(ReapWrite(j))

FairSpec == Spec /\ Fairness

------------------------------------------------------------------------------------
(* Properties.                                                                      *)

(* The job a session works on is one the table gives to that session's daemon, and  *)
(* no two sessions work on the same job, whatever reconnects, lost answers, reaping *)
(* and crashes lie in between: acquire_provisioner_job hands a row out once.        *)
SingleHolder ==
    \A s \in Sessions : \A j \in Jobs : Holds(s, j) =>
        /\ j \in started /\ worker_id[j] = session[s] /\ Connected(s)
        /\ \A t \in Sessions \ {s} : ~Holds(t, j)

(* A cancellation is never left hanging on a job without a daemon: a canceled row   *)
(* is either over or has been acquired, so that a daemon (or, for want of its       *)
(* heartbeat, the reaper) will end it.  This is what the CASE WHEN worker_id IS     *)
(* NULL of the user's cancel is for, against a racing acquire.                      *)
CanceledIsOverOrOwned ==
    \A j \in canceled : j \in completed \/ (j \in started /\ worker_id[j] # NoWorker)

(* The reaper puts a job on its list as hung while a session works on it only if    *)
(* that session has been silent on the job for longer than the reaper's threshold:  *)
(* the row's updated_at, which acquire, heartbeat and cancel write and the reaper   *)
(* reads, never falls behind the session.  Silences longer than the threshold do    *)
(* happen, because the heartbeat interval equals it.                                *)
HungMeansSilent ==
    [][\A j \in Jobs : reap[j] = "no" /\ reap'[j] = "hung" =>
          \A s \in Sessions : Holds(s, j) => silence[s] > HungAfter]_vars

(* The table implements the job lifecycle: job_status moves only along it, a        *)
(* cancellation is never undone by a late completion or by the reaper, and the      *)
(* owner is set once.                                                               *)
Lifecycle == INSTANCE JobLifecycle
                WITH status <- [j \in Jobs |-> JobStatus(j)], owner <- worker_id
RefinesLifecycle == Lifecycle!LifecycleSpec

(* A started job that no session works on (the daemon went away, its acquire answer *)
(* was lost, the server crashed) is brought to an end by the reaper.                *)
OrphanIsReaped ==
    \A j \in Jobs : (j \in started /\ \A s \in Sessions : ~Holds(s, j)) ~> j \in completed

(* A submitted job does not stay pending forever, even if no daemon matches it.     *)
PendingIsResolved ==
    \A j \in Jobs : j \in rows ~> (j \in started \/ j \in completed)

(* The daemon of a job the user cancels is told, unless it ends the job or goes     *)
(* away first.                                                                      *)
Canceling(s) == current_job[s] # NoJob /\ JobStatus(current_job[s]) = "canceling"
CancelIsDelivered ==
    \A s \in Sessions : Canceling(s) ~> (s \in told \/ ~Canceling(s))
====================================================================================
