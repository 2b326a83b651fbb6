------------------------------ MODULE Provisioner_proofs ----------------------------
(* Proofs about the two faces of the job table, ProvisionerDaemons and              *)
(* ProvisionerDrpc, for every number of jobs, daemons, sessions and calls and every *)
(* value of the timing constants.                                                   *)
EXTENDS ProvisionerDaemons, ProvisionerDrpc, TLAPS

(* What the columns of a row say of each other.                                     *)
RowsConsistent ==
    /\ started \subseteq rows /\ canceled \subseteq rows /\ completed \subseteq rows
    /\ \A j \in Jobs : j \in started <=> worker_id[j] # NoWorker

(* A job waiting in the reaper's list has a row; one listed as hung is started.     *)
ReapListConsistent ==
    \A j \in Jobs : /\ reap[j] # "no" => j \in rows
                    /\ reap[j] = "hung" => j \in started

(* The inductive invariant behind the safety properties that need no timing.        *)
SafetyInv ==
    /\ TypeOK
    /\ RowsConsistent
    /\ SingleHolder
    /\ CanceledIsOverOrOwned
    /\ ReapListConsistent

LEMMA MaxAgeNat == MaxAge \in Nat /\ MaxAge >= HungAfter + 1 /\ MaxAge >= 1
BY ThresholdAssumption DEF MaxAge

LEMMA MaxSilenceNat == MaxSilence \in Nat /\ MaxSilence >= 1
BY TimingAssumption DEF MaxSilence

(* Every row, session and list entry keeps its type.                                *)
THEOREM TypeCorrect == Spec => []TypeOK
<1>. USE MaxAgeNat, MaxSilenceNat, ThresholdAssumption DEF TypeOK, TableTypeOK
<1>1. Init => TypeOK
  BY DEF Init, TableInit
<1>2. TypeOK /\ [Next]_vars => TypeOK'
  <2>. SUFFICES ASSUME TypeOK, [Next]_vars PROVE TypeOK'
    OBVIOUS
  <2>1. ASSUME NEW j \in Jobs, SubmitJob(j) PROVE TypeOK'
    BY <2>1 DEF SubmitJob, InsertJob, sessionVars
  <2>2. ASSUME NEW j \in Jobs, CancelJob(j) PROVE TypeOK'
    BY <2>2 DEF CancelJob, UserCancel, sessionVars
  <2>3. ASSUME NEW j \in Jobs, ReapWrite(j) PROVE TypeOK'
    BY <2>3 DEF ReapWrite, CompleteJob, sessionVars
  <2>4. ASSUME NEW j \in Jobs, ReapWriteFailed(j) PROVE TypeOK'
    BY <2>4 DEF ReapWriteFailed, tableVars, sessionVars
  <2>5. ASSUME NEW s \in Sessions, NEW w \in Workers, Connect(s, w) PROVE TypeOK'
    BY <2>5 DEF Connect, tableVars
  <2>6. ASSUME NEW s \in Sessions, NEW j \in Jobs, SessionAcquire(s, j) PROVE TypeOK'
    BY <2>6 DEF SessionAcquire, AcquireJob, Connected
  <2>7. ASSUME NEW s \in Sessions, NEW j \in Jobs, SessionAcquireLost(s, j) PROVE TypeOK'
    BY <2>7 DEF SessionAcquireLost, AcquireJob, Connected, sessionVars
  <2>8. ASSUME NEW s \in Sessions, NEW failed \in BOOLEAN, SessionComplete(s, failed)
        PROVE TypeOK'
    BY <2>8 DEF SessionComplete, CompleteJob, ReleaseJob
  <2>9. ASSUME NEW s \in Sessions, NEW failed \in BOOLEAN, SessionCompleteUnacked(s, failed)
        PROVE TypeOK'
    BY <2>9 DEF SessionCompleteUnacked, CompleteJob, sessionVars
  <2>10. ASSUME NEW s \in Sessions, Disconnect(s) PROVE TypeOK'
    BY <2>10 DEF Disconnect, tableVars
  <2>11. ASSUME NEW s \in Sessions, SessionHeartbeat(s) PROVE TypeOK'
    BY <2>11 DEF SessionHeartbeat, TouchJob, tableVars
  <2>12. ASSUME NEW s \in Sessions, SessionLogs(s) PROVE TypeOK'
    BY <2>12 DEF SessionLogs, InsertJobLogs, sessionVars
  <2>13. ASSUME NEW s \in Sessions, SessionCancelCheck(s) PROVE TypeOK'
    BY <2>13 DEF SessionCancelCheck, tableVars
  <2>14. ASSUME NEW s \in Sessions, SessionCancelComplete(s) \/ SessionCancelCompleteUnacked(s)
        PROVE TypeOK'
    BY <2>14 DEF SessionCancelComplete, SessionCancelCompleteUnacked, CancelAndComplete, ReleaseJob, sessionVars
  <2>15. ASSUME NEW batch \in SUBSET Jobs, ReapSelect(batch) PROVE TypeOK'
    BY <2>15 DEF ReapSelect, tableVars, sessionVars
  <2>16. CASE ServerCrash
    BY <2>16 DEF ServerCrash, tableVars
  <2>17. CASE Tick
    BY <2>17 DEF Tick, AgeRows
  <2>18. CASE UNCHANGED vars
    BY <2>18 DEF vars
  <2>. QED
    BY <2>1, <2>2, <2>3, <2>4, <2>5, <2>6, <2>7, <2>8, <2>9, <2>10, <2>11, <2>12,
       <2>13, <2>14, <2>15, <2>16, <2>17, <2>18 DEF Next
<1>. QED
  BY <1>1, <1>2, PTL DEF Spec

(* SingleHolder and CanceledIsOverOrOwned, with what they rest on: a row is started *)
(* exactly when it has a worker, and only rows that have one are in a session.      *)
LEMMA SafetyInvariant == Spec => []SafetyInv
<1>. USE WorkerAssumption, JobAssumption
     DEF SafetyInv, RowsConsistent, SingleHolder, CanceledIsOverOrOwned,
         ReapListConsistent, Holds, Connected
<1>1. Init /\ TypeOK => SafetyInv
  BY DEF Init, TableInit
<1>2. SafetyInv /\ TypeOK' /\ [Next]_vars => SafetyInv'
  <2>. SUFFICES ASSUME SafetyInv, TypeOK', [Next]_vars PROVE SafetyInv'
    OBVIOUS
  <2>. USE DEF TypeOK, TableTypeOK
  <2>1. ASSUME NEW j \in Jobs, SubmitJob(j)
        PROVE  SafetyInv'
    BY <2>1 DEF SubmitJob, InsertJob, sessionVars
  <2>2. ASSUME NEW j \in Jobs, CancelJob(j)
        PROVE  SafetyInv'
    BY <2>2 DEF CancelJob, UserCancel, sessionVars
  <2>3. ASSUME NEW j \in Jobs, ReapWrite(j)
        PROVE  SafetyInv'
    BY <2>3 DEF ReapWrite, CompleteJob, sessionVars
  <2>4. ASSUME NEW j \in Jobs, ReapWriteFailed(j)
        PROVE  SafetyInv'
    BY <2>4 DEF ReapWriteFailed, tableVars, sessionVars
  <2>5. ASSUME NEW s \in Sessions, NEW w \in Workers, Connect(s, w)
        PROVE  SafetyInv'
    BY <2>5 DEF Connect, tableVars
  <2>6. ASSUME NEW s \in Sessions, NEW j \in Jobs, SessionAcquire(s, j)
        PROVE  SafetyInv'
    BY <2>6 DEF SessionAcquire, AcquireJob, Oldest, Acquirable
  <2>7. ASSUME NEW s \in Sessions, NEW j \in Jobs, SessionAcquireLost(s, j)
        PROVE  SafetyInv'
    BY <2>7 DEF SessionAcquireLost, AcquireJob, Oldest, Acquirable, sessionVars
  <2>8. ASSUME NEW s \in Sessions, NEW failed \in BOOLEAN, SessionComplete(s, failed)
        PROVE  SafetyInv'
    BY <2>8 DEF SessionComplete, CompleteJob, ReleaseJob
  <2>9. ASSUME NEW s \in Sessions, NEW failed \in BOOLEAN, SessionCompleteUnacked(s, failed)
        PROVE  SafetyInv'
    BY <2>9 DEF SessionCompleteUnacked, CompleteJob, sessionVars
  <2>10. ASSUME NEW s \in Sessions, Disconnect(s)
        PROVE  SafetyInv'
    BY <2>10 DEF Disconnect, tableVars
  <2>11. ASSUME NEW s \in Sessions, SessionHeartbeat(s)
        PROVE  SafetyInv'
    BY <2>11 DEF SessionHeartbeat, TouchJob, tableVars
  <2>12. ASSUME NEW s \in Sessions, SessionLogs(s)
        PROVE  SafetyInv'
    BY <2>12 DEF SessionLogs, InsertJobLogs, sessionVars
  <2>13. ASSUME NEW s \in Sessions, SessionCancelCheck(s)
        PROVE  SafetyInv'
    BY <2>13 DEF SessionCancelCheck, tableVars
  <2>14. ASSUME NEW s \in Sessions, SessionCancelComplete(s) \/ SessionCancelCompleteUnacked(s)
        PROVE  SafetyInv'
    BY <2>14 DEF SessionCancelComplete, SessionCancelCompleteUnacked, CancelAndComplete, ReleaseJob, sessionVars
  <2>15. ASSUME NEW batch \in SUBSET Jobs, ReapSelect(batch)
        PROVE  SafetyInv'
    BY <2>15 DEF ReapSelect, StalePending, StaleRunning, tableVars, sessionVars
  <2>16. CASE ServerCrash
    BY <2>16 DEF ServerCrash, tableVars
  <2>17. CASE Tick
    BY <2>17 DEF Tick, AgeRows
  <2>18. CASE UNCHANGED vars
    BY <2>18 DEF vars
  <2>. QED
    BY <2>1, <2>2, <2>3, <2>4, <2>5, <2>6, <2>7, <2>8, <2>9, <2>10, <2>11, <2>12,
       <2>13, <2>14, <2>15, <2>16, <2>17, <2>18 DEF Next
<1>. QED
  BY <1>1, <1>2, TypeCorrect, PTL DEF Spec

(* A job is worked on by at most one session, that of its worker (acquire).         *)
THEOREM OneHolder == Spec => []SingleHolder
<1>1. SafetyInv => SingleHolder
  BY DEF SafetyInv
<1>. QED
  BY <1>1, SafetyInvariant, PTL

(* A canceled job is over or has a worker: cancel_template_provisioner_job completes *)
(* a pending one in the same statement.                                             *)
THEOREM NoCanceledOrphan == Spec => []CanceledIsOverOrOwned
<1>1. SafetyInv => CanceledIsOverOrOwned
  BY DEF SafetyInv
<1>. QED
  BY <1>1, SafetyInvariant, PTL

(* A held row is no older than its session's silence on it: whatever starts the     *)
(* session's clock anew (acquire, heartbeat) writes updated_at as well.             *)
FreshInv ==
    \A s \in Sessions : \A j \in Jobs : Holds(s, j) => age[j] <= silence[s]

(* The reaper lists a job that a session works on as hung only after the session    *)
(* was silent for longer than DEFAULT_HEARTBEAT_TIMEOUT_SECS, for all timing        *)
(* constants and any number of sessions (get_provisioner_jobs_to_be_reaped).        *)
THEOREM HungReapNeedsSilence == Spec => HungMeansSilent
<1>. USE WorkerAssumption, JobAssumption
     DEF FreshInv, Holds, Connected
<1>1. Init => FreshInv
  BY DEF Init, TableInit
<1>2. FreshInv /\ SafetyInv /\ TypeOK' /\ [Next]_vars => FreshInv'
  <2>. SUFFICES ASSUME FreshInv, SafetyInv, TypeOK', [Next]_vars PROVE FreshInv'
    OBVIOUS
  <2>. USE MaxAgeNat, MaxSilenceNat, ThresholdAssumption
       DEF TypeOK, TableTypeOK, SafetyInv, RowsConsistent, SingleHolder, ReapListConsistent
  <2>1. ASSUME NEW j \in Jobs, SubmitJob(j)
        PROVE  FreshInv'
    BY <2>1 DEF SubmitJob, InsertJob, sessionVars
  <2>2. ASSUME NEW j \in Jobs, CancelJob(j)
        PROVE  FreshInv'
    BY <2>2 DEF CancelJob, UserCancel, sessionVars
  <2>3. ASSUME NEW j \in Jobs, ReapWrite(j)
        PROVE  FreshInv'
    BY <2>3 DEF ReapWrite, CompleteJob, sessionVars
  <2>4. ASSUME NEW j \in Jobs, ReapWriteFailed(j)
        PROVE  FreshInv'
    BY <2>4 DEF ReapWriteFailed, tableVars, sessionVars
  <2>5. ASSUME NEW s \in Sessions, NEW w \in Workers, Connect(s, w)
        PROVE  FreshInv'
    BY <2>5 DEF Connect, tableVars
  <2>6. ASSUME NEW s \in Sessions, NEW j \in Jobs, SessionAcquire(s, j)
        PROVE  FreshInv'
    BY <2>6 DEF SessionAcquire, AcquireJob, Oldest, Acquirable
  <2>7. ASSUME NEW s \in Sessions, NEW j \in Jobs, SessionAcquireLost(s, j)
        PROVE  FreshInv'
    BY <2>7 DEF SessionAcquireLost, AcquireJob, Oldest, Acquirable, sessionVars
  <2>8. ASSUME NEW s \in Sessions, NEW failed \in BOOLEAN, SessionComplete(s, failed)
        PROVE  FreshInv'
    BY <2>8 DEF SessionComplete, CompleteJob, ReleaseJob
  <2>9. ASSUME NEW s \in Sessions, NEW failed \in BOOLEAN, SessionCompleteUnacked(s, failed)
        PROVE  FreshInv'
    BY <2>9 DEF SessionCompleteUnacked, CompleteJob, sessionVars
  <2>10. ASSUME NEW s \in Sessions, Disconnect(s)
        PROVE  FreshInv'
    BY <2>10 DEF Disconnect, tableVars
  <2>11. ASSUME NEW s \in Sessions, SessionHeartbeat(s)
        PROVE  FreshInv'
    BY <2>11 DEF SessionHeartbeat, TouchJob, tableVars
  <2>12. ASSUME NEW s \in Sessions, SessionLogs(s)
        PROVE  FreshInv'
    BY <2>12 DEF SessionLogs, InsertJobLogs, sessionVars
  <2>13. ASSUME NEW s \in Sessions, SessionCancelCheck(s)
        PROVE  FreshInv'
    BY <2>13 DEF SessionCancelCheck, tableVars
  <2>14. ASSUME NEW s \in Sessions, SessionCancelComplete(s) \/ SessionCancelCompleteUnacked(s)
        PROVE  FreshInv'
    BY <2>14 DEF SessionCancelComplete, SessionCancelCompleteUnacked, CancelAndComplete, ReleaseJob, sessionVars
  <2>15. ASSUME NEW batch \in SUBSET Jobs, ReapSelect(batch)
        PROVE  FreshInv'
    BY <2>15 DEF ReapSelect, StalePending, StaleRunning, tableVars, sessionVars
  <2>16. CASE ServerCrash
    BY <2>16 DEF ServerCrash, tableVars
  <2>17. CASE Tick
    BY <2>17 DEF Tick, AgeRows
  <2>18. CASE UNCHANGED vars
    BY <2>18 DEF vars
  <2>. QED
    BY <2>1, <2>2, <2>3, <2>4, <2>5, <2>6, <2>7, <2>8, <2>9, <2>10, <2>11, <2>12,
       <2>13, <2>14, <2>15, <2>16, <2>17, <2>18 DEF Next
<1>3. ASSUME FreshInv, TypeOK, [Next]_vars, NEW j \in Jobs, NEW s \in Sessions,
             reap[j] = "no", reap'[j] = "hung", Holds(s, j)
      PROVE  silence[s] > HungAfter
  <2>. USE <1>3 DEF TypeOK, TableTypeOK
  <2>1. PICK batch \in SUBSET Jobs : ReapSelect(batch)
    <3>1. \A k \in Jobs : ReapWrite(k) \/ ReapWriteFailed(k) => reap'[j] \in {reap[j], "no"}
      BY DEF ReapWrite, ReapWriteFailed
    <3>2. ServerCrash => reap'[j] = "no"
      BY DEF ServerCrash
    <3>. QED
      BY <3>1, <3>2
         DEF Next, vars, SubmitJob, CancelJob, Connect, SessionAcquire, SessionAcquireLost,
             SessionComplete, SessionCompleteUnacked, Disconnect, SessionHeartbeat, SessionLogs,
             SessionCancelCheck, SessionCancelComplete, SessionCancelCompleteUnacked, Tick
  <2>2. j \in StaleRunning
    BY <2>1 DEF ReapSelect
  <2>3. age[j] > HungAfter /\ age[j] \in Nat /\ silence[s] \in Nat /\ age[j] <= silence[s]
    BY <2>2, MaxAgeNat, MaxSilenceNat DEF StaleRunning
  <2>. QED
    BY <2>3, ThresholdAssumption
<1>4. FreshInv /\ TypeOK /\ [Next]_vars =>
        [\A j \in Jobs : reap[j] = "no" /\ reap'[j] = "hung" =>
            \A s \in Sessions : Holds(s, j) => silence[s] > HungAfter]_vars
  BY <1>3
<1>. QED
  BY <1>1, <1>2, <1>4, SafetyInvariant, TypeCorrect, PTL DEF Spec, HungMeansSilent

------------------------------------------------------------------------------------
(* The refinement of JobLifecycle.  Each statement of the table is one step of the  *)
(* lifecycle; all other steps leave status and owner alone.                         *)

(* Facts of a reachable table that the status of a row depends on.                  *)
TableInv == TableTypeOK /\ RowsConsistent

LEMMA InsertIsSubmit ==
    ASSUME TableInv, NEW j \in Jobs, InsertJob(j)
    PROVE  Lifecycle!Submit(j)
<1>1. JobStatus(j) = "absent" /\ JobStatus(j)' = "pending"
  BY DEF TableInv, RowsConsistent, InsertJob, JobStatus
<1>2. \A k \in Jobs \ {j} : JobStatus(k)' = JobStatus(k)
  BY DEF InsertJob, JobStatus
<1>. QED
  BY <1>1, <1>2 DEF Lifecycle!Submit, InsertJob

LEMMA AcquireIsStart ==
    ASSUME TableInv, NEW j \in Jobs, NEW w \in Workers, AcquireJob(w, j)
    PROVE  Lifecycle!Start(j, w)
<1>. j \in rows \ (started \cup completed \cup canceled)
  BY DEF AcquireJob, Oldest, Acquirable
<1>1. JobStatus(j) = "pending" /\ JobStatus(j)' = "running"
  BY DEF AcquireJob, JobStatus
<1>2. \A k \in Jobs \ {j} : JobStatus(k)' = JobStatus(k)
  BY DEF AcquireJob, JobStatus
<1>3. worker_id[j] = NoWorker
  BY DEF TableInv, RowsConsistent
<1>. QED
  BY <1>1, <1>2, <1>3 DEF Lifecycle!Start, AcquireJob

LEMMA UserCancelIsRequest ==
    ASSUME TableInv, NEW j \in Jobs, UserCancel(j)
    PROVE  Lifecycle!RequestCancel(j)
<1>. j \in rows \ (canceled \cup completed)
  BY DEF UserCancel
<1>1. JobStatus(j) \in {"pending", "running"}
  BY DEF JobStatus
<1>2. JobStatus(j)' = IF worker_id[j] = NoWorker THEN "canceled" ELSE "canceling"
  BY DEF UserCancel, JobStatus
<1>3. \A k \in Jobs \ {j} : JobStatus(k)' = JobStatus(k)
  BY DEF UserCancel, JobStatus
<1>. QED
  BY <1>1, <1>2, <1>3 DEF Lifecycle!RequestCancel, UserCancel

LEMMA CompleteIsConclude ==
    ASSUME TableInv, NEW j \in Jobs, j \in rows, NEW failed \in BOOLEAN, CompleteJob(j, failed)
    PROVE  Lifecycle!Conclude(j, IF failed THEN "failed" ELSE "succeeded")
<1>1. JobStatus(j) # "absent"
  BY DEF JobStatus, TableInv, RowsConsistent
<1>2. JobStatus(j) \in {"canceling", "canceled"} <=> j \in canceled
  BY DEF JobStatus, TableInv, RowsConsistent
<1>3. JobStatus(j)' = IF j \in canceled THEN "canceled"
                      ELSE IF failed THEN "failed" ELSE "succeeded"
  BY DEF CompleteJob, JobStatus
<1>4. \A k \in Jobs \ {j} : JobStatus(k)' = JobStatus(k)
  BY DEF CompleteJob, JobStatus
<1>. QED
  BY <1>1, <1>2, <1>3, <1>4 DEF Lifecycle!Conclude, CompleteJob

LEMMA CancelIsConclude ==
    ASSUME TableInv, NEW j \in Jobs, j \in rows, CancelAndComplete(j)
    PROVE  Lifecycle!Conclude(j, "canceled")
<1>1. JobStatus(j) # "absent" /\ JobStatus(j)' = "canceled"
  BY DEF CancelAndComplete, JobStatus, TableInv, RowsConsistent
<1>2. \A k \in Jobs \ {j} : JobStatus(k)' = JobStatus(k)
  BY DEF CancelAndComplete, JobStatus
<1>. QED
  BY <1>1, <1>2 DEF Lifecycle!Conclude, CancelAndComplete

LEMMA SameColumnsSameStatus ==
    ASSUME UNCHANGED <<rows, started, canceled, completed, errored, worker_id>>
    PROVE  UNCHANGED Lifecycle!lifecycleVars
BY DEF Lifecycle!lifecycleVars, JobStatus

(* The job table, driven by sessions, users, the reaper and crashes, implements the *)
(* job lifecycle: statuses only move along it, a cancellation is final, an owner is *)
(* set once.                                                                        *)
THEOREM Refinement == Spec => RefinesLifecycle
<1>1. Init => Lifecycle!LifecycleInit
  BY DEF Init, TableInit, Lifecycle!LifecycleInit, JobStatus
<1>2. SafetyInv /\ [Next]_vars => [Lifecycle!LifecycleNext]_(Lifecycle!lifecycleVars)
  <2>. SUFFICES ASSUME SafetyInv, [Next]_vars
                PROVE  Lifecycle!LifecycleNext \/ UNCHANGED Lifecycle!lifecycleVars
    OBVIOUS
  <2>. TableInv
    BY DEF SafetyInv, TypeOK, TableInv
  <2>. DEFINE Goal == Lifecycle!LifecycleNext \/ UNCHANGED Lifecycle!lifecycleVars
  <2>held. ASSUME NEW s \in Sessions, current_job[s] # NoJob
           PROVE  current_job[s] \in Jobs /\ current_job[s] \in rows
    BY <2>held DEF SafetyInv, TypeOK, SingleHolder, Holds, RowsConsistent
  <2>worker. ASSUME NEW s \in Sessions, Connected(s) PROVE session[s] \in Workers
    BY <2>worker DEF SafetyInv, TypeOK, Connected
  <2>verdict. ASSUME NEW j \in Jobs, j \in rows, NEW failed \in BOOLEAN, CompleteJob(j, failed)
              PROVE  Goal
    BY <2>verdict, CompleteIsConclude DEF Lifecycle!LifecycleNext, Lifecycle!Terminal
  <2>1. ASSUME NEW j \in Jobs, SubmitJob(j) PROVE Goal
    BY <2>1, InsertIsSubmit DEF SubmitJob, Lifecycle!LifecycleNext
  <2>2. ASSUME NEW j \in Jobs, CancelJob(j) PROVE Goal
    BY <2>2, UserCancelIsRequest DEF CancelJob, Lifecycle!LifecycleNext
  <2>3. ASSUME NEW j \in Jobs, ReapWrite(j) PROVE Goal
    BY <2>3, <2>verdict DEF ReapWrite, SafetyInv, ReapListConsistent
  <2>4. ASSUME NEW s \in Sessions, NEW j \in Jobs, SessionAcquire(s, j) \/ SessionAcquireLost(s, j)
        PROVE  Goal
    BY <2>4, <2>worker, AcquireIsStart
       DEF SessionAcquire, SessionAcquireLost, Lifecycle!LifecycleNext
  <2>5. ASSUME NEW s \in Sessions, NEW failed \in BOOLEAN,
               SessionComplete(s, failed) \/ SessionCompleteUnacked(s, failed)
        PROVE  Goal
    BY <2>5, <2>held, <2>verdict DEF SessionComplete, SessionCompleteUnacked
  <2>6. ASSUME NEW s \in Sessions, SessionCancelComplete(s) \/ SessionCancelCompleteUnacked(s)
        PROVE  Goal
    BY <2>6, <2>held, CancelIsConclude
       DEF SessionCancelComplete, SessionCancelCompleteUnacked, Lifecycle!LifecycleNext, Lifecycle!Terminal
  <2>7. ASSUME NEW j \in Jobs, ReapWriteFailed(j) PROVE Goal
    BY <2>7, SameColumnsSameStatus DEF ReapWriteFailed, tableVars
  <2>8. ASSUME NEW s \in Sessions, NEW w \in Workers, Connect(s, w) PROVE Goal
    BY <2>8, SameColumnsSameStatus DEF Connect, tableVars
  <2>9. ASSUME NEW s \in Sessions,
               Disconnect(s) \/ SessionHeartbeat(s) \/ SessionLogs(s) \/ SessionCancelCheck(s)
        PROVE  Goal
    BY <2>9, SameColumnsSameStatus
       DEF Disconnect, SessionHeartbeat, SessionLogs, SessionCancelCheck,
           TouchJob, InsertJobLogs, tableVars
  <2>10. ASSUME NEW batch \in SUBSET Jobs, ReapSelect(batch) PROVE Goal
    BY <2>10, SameColumnsSameStatus DEF ReapSelect, tableVars
  <2>11. CASE ServerCrash
    BY <2>11, SameColumnsSameStatus DEF ServerCrash, tableVars
  <2>12. CASE Tick
    BY <2>12, SameColumnsSameStatus DEF Tick
  <2>13. CASE UNCHANGED vars
    BY <2>13, SameColumnsSameStatus DEF vars
  <2>. QED
    BY <2>1, <2>2, <2>3, <2>4, <2>5, <2>6, <2>7, <2>8, <2>9, <2>10, <2>11, <2>12, <2>13
       DEF Next
<1>. QED
  BY <1>1, <1>2, SafetyInvariant, PTL DEF Spec, RefinesLifecycle, Lifecycle!LifecycleSpec

------------------------------------------------------------------------------------
(* The DRPC calls.  A call in flight knows its job: it has a row and a worker, and  *)
(* a cancellation that was read is in the row for good.                             *)
CallsConsistent ==
    /\ canceled \subseteq rows
    /\ \A c \in Calls :
         /\ method[c] # "none" => /\ target[c] \in rows
                                 /\ worker_id[target[c]] # NoWorker
         /\ c \in seen => method[c] # "none" /\ target[c] \in canceled

RpcInv == RpcTypeOK /\ CallsConsistent /\ answered \subseteq canceled

LEMMA RpcInvariant == RpcSpec => []RpcInv
<1>. USE MaxAgeNat, ThresholdAssumption, WorkerAssumption, JobAssumption, CallAssumption
     DEF RpcInv, RpcTypeOK, TableTypeOK, CallsConsistent
<1>1. RpcInit => RpcInv
  BY DEF RpcInit, TableInit
<1>2. RpcInv /\ [RpcNext]_rpcVars => RpcInv'
  <2>. SUFFICES ASSUME RpcInv, [RpcNext]_rpcVars PROVE RpcInv'
    OBVIOUS
  <2>1. ASSUME NEW j \in Jobs, UserSubmits(j) PROVE RpcInv'
    BY <2>1 DEF UserSubmits, InsertJob, callVars
  <2>2. ASSUME NEW j \in Jobs, UserCancels(j) PROVE RpcInv'
    BY <2>2 DEF UserCancels, UserCancel, callVars
  <2>3. ASSUME NEW j \in Jobs, RpcAcquire(j) PROVE RpcInv'
    BY <2>3 DEF RpcAcquire, AcquireJob, callVars
  <2>4. ASSUME NEW c \in Calls, NEW m \in {"UpdateJob", "FailJob", "CompleteJob"},
               NEW j \in Jobs, RpcCheck(c, m, j)
        PROVE  RpcInv'
    BY <2>4 DEF RpcCheck, tableVars
  <2>5. ASSUME NEW c \in Calls, RpcFinish(c) PROVE RpcInv'
    BY <2>5 DEF RpcFinish, CompleteJob, Return
  <2>6. ASSUME NEW c \in Calls, RpcHeartbeat(c) PROVE RpcInv'
    BY <2>6 DEF RpcHeartbeat, TouchJob
  <2>7. ASSUME NEW c \in Calls, RpcUpdateReturn(c) PROVE RpcInv'
    BY <2>7 DEF RpcUpdateReturn, InsertJobLogs, Return, tableVars
  <2>8. ASSUME NEW c \in Calls, RpcAbort(c) PROVE RpcInv'
    BY <2>8 DEF RpcAbort, Return, tableVars
  <2>9. CASE UNCHANGED rpcVars
    BY <2>9 DEF rpcVars
  <2>. QED
    BY <2>1, <2>2, <2>3, <2>4, <2>5, <2>6, <2>7, <2>8, <2>9 DEF RpcNext
<1>. QED
  BY <1>1, <1>2, PTL DEF RpcSpec

(* What UpdateJob answered stays true of the row, with any number of calls in       *)
(* flight (update_job answers from the row it read before its heartbeat).           *)
THEOREM ReportedCancelIsReal == RpcSpec => []ReportedCancelHolds
<1>1. RpcInv => ReportedCancelHolds
  BY DEF RpcInv, RpcTypeOK, CallsConsistent, ReportedCancelHolds, JobStatus
<1>. QED
  BY RpcInvariant, <1>1, PTL

(* A completed job's outcome is only changed by calls that had passed their checks  *)
(* before it was completed, each at most once, for any number of calls in flight    *)
(* (fail_job, complete_job and their unconditional update).                         *)
THEOREM OutcomesSettle == RpcSpec => OutcomeSettles
<1>1. ASSUME RpcInv, [RpcNext]_rpcVars, NEW j \in Jobs, j \in completed
      PROVE  /\ Writers(j)' \subseteq Writers(j)
             /\ (j \in errored' <=> j \in errored) \/ Writers(j)' # Writers(j)
  <2>. DEFINE Goal == /\ Writers(j)' \subseteq Writers(j)
                      /\ (j \in errored' <=> j \in errored) \/ Writers(j)' # Writers(j)
  <2>. SUFFICES Goal
    OBVIOUS
  <2>. USE <1>1, JobAssumption DEF RpcInv, RpcTypeOK, Writers
  <2>1. CASE \E i \in Jobs : UserSubmits(i) \/ RpcAcquire(i) \/ UserCancels(i)
    BY <2>1 DEF UserSubmits, InsertJob, RpcAcquire, AcquireJob, UserCancels, UserCancel, callVars
  <2>2. ASSUME NEW c \in Calls, NEW m \in {"UpdateJob", "FailJob", "CompleteJob"},
               NEW i \in Jobs, RpcCheck(c, m, i)
        PROVE  Goal
    BY <2>2 DEF RpcCheck, tableVars
  <2>3. ASSUME NEW c \in Calls, RpcFinish(c) PROVE Goal
    <3>1. Writers(j)' = Writers(j) \ {c}
      BY <2>3 DEF RpcFinish, Return
    <3>2. target[c] # j => (j \in errored' <=> j \in errored)
      BY <2>3 DEF RpcFinish, CompleteJob
    <3>3. target[c] = j => c \in Writers(j)
      BY <2>3 DEF RpcFinish
    <3>. QED
      BY <3>1, <3>2, <3>3
  <2>4. ASSUME NEW c \in Calls, RpcHeartbeat(c) \/ RpcUpdateReturn(c) \/ RpcAbort(c) PROVE Goal
    BY <2>4 DEF RpcHeartbeat, TouchJob, RpcUpdateReturn, InsertJobLogs, RpcAbort, Return, tableVars
  <2>5. CASE UNCHANGED rpcVars
    BY <2>5 DEF rpcVars
  <2>. QED
    BY <2>1, <2>2, <2>3, <2>4, <2>5 DEF RpcNext
<1>2. RpcInv /\ [RpcNext]_rpcVars =>
        [\A j \in completed : /\ Writers(j)' \subseteq Writers(j)
                              /\ (j \in errored' <=> j \in errored) \/ Writers(j)' # Writers(j)]_rpcVars
  BY <1>1 DEF RpcInv, RpcTypeOK, TableTypeOK
<1>. QED
  BY RpcInvariant, <1>2, PTL DEF RpcSpec, OutcomeSettles
====================================================================================
