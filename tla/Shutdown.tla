------------------------------ MODULE Shutdown ------------------------------
(***************************************************************************)
(* The end of a coderd process (apps/coderd/src/main.rs, shutdown.rs): the *)
(* server stops serving, then the ShutdownCoordinator runs the registered  *)
(* tasks one after the other within one budget of time, and the process    *)
(* exits.  Of the tasks those are modelled that flush buffers, the audit   *)
(* sink and the usage tracker, one that stands for the workers between     *)
(* them, and the last one, which closes the database pool.                 *)
(***************************************************************************)
EXTENDS BatchedAuditSink, UsageTracker

CONSTANT GracePeriod   \* shutdown_grace_period_secs, in ticks

ASSUME ShutdownAssumption == GracePeriod \in Nat

VARIABLES
    phase,    \* "serving", "tasks" or "exited"
    task,     \* index of the coordinator's task
    running,  \* the task has been started
    budget,   \* ticks until the deadline
    pool,     \* the database pool is open
    worker    \* the other background workers have ended

shutdownVars == <<phase, task, running, budget, pool, worker>>
processVars == <<auditVars, usageVars, shutdownVars>>

\* The order of registration.
Tasks == <<"audit", "usage_tracker", "workers", "database">>

\* The types of all the state; a batch never exceeds max_batch_size.
ShutdownTypeOK ==
    /\ AuditTypeOK /\ UsageTypeOK
    /\ phase \in {"serving", "tasks", "exited"}
    /\ task \in 1 .. Len(Tasks) + 1
    /\ running \in BOOLEAN /\ pool \in BOOLEAN /\ worker \in BOOLEAN
    /\ budget \in 0 .. GracePeriod

ShutdownInit ==
    /\ AuditInit /\ UsageInit
    /\ phase = "serving"
    /\ task = 1 /\ running = FALSE
    /\ budget = GracePeriod
    /\ pool = TRUE /\ worker = FALSE

-----------------------------------------------------------------------------
(* Handlers.  Upgraded connections outlive the server, so that an event may *)
(* be recorded until the process exits; pings come from plain requests.     *)

HandlerRecords ==
    /\ phase # "exited"
    /\ Record
    /\ UNCHANGED <<usageVars, shutdownVars>>

HandlerPings(w) ==
    /\ phase = "serving"
    /\ AddPing(w)
    /\ UNCHANGED <<auditVars, shutdownVars>>

-----------------------------------------------------------------------------
(* The background tasks go on until the process exits.                     *)

AuditTask ==
    /\ phase # "exited"
    /\ Receive \/ ReceiveClosed \/ Drain \/ DrainEnds \/ WindowReceive \/ WindowOver \/ WindowClosed
    /\ UNCHANGED <<usageVars, shutdownVars>>

\* Writes to a closed pool fail.
AuditWrites ==
    /\ phase # "exited"
    /\ \/ pool /\ (WriteBatch \/ WriteOne(TRUE))
       \/ \E applied \in {FALSE, pool} : WriteBatchFails(applied)
       \/ WriteOne(FALSE)
    /\ UNCHANGED <<usageVars, shutdownVars>>

UsageTask ==
    /\ phase # "exited"
    /\ SeeCancel \/ ReceivePing \/ FlushTimer
    /\ UNCHANGED <<auditVars, shutdownVars>>

UsageWrites ==
    /\ phase # "exited"
    /\ \E stored \in {FALSE, pool} : FlushReturns(stored)
    /\ UNCHANGED <<auditVars, shutdownVars>>

-----------------------------------------------------------------------------
(* The coordinator.                                                        *)

\* The signal came and the server has finished its requests.
ServerStops ==
    /\ phase = "serving"
    /\ phase' = "tasks"
    /\ UNCHANGED <<auditVars, usageVars, task, running, budget, pool, worker>>

\* There is time left: the task's future is polled for the first time.
StartTask ==
    /\ phase = "tasks" /\ task <= Len(Tasks) /\ ~running
    /\ budget > 0
    /\ running' = TRUE
    /\ \/ Tasks[task] = "audit" /\ CloseSink /\ UNCHANGED <<usageVars, pool>>
       \/ Tasks[task] = "usage_tracker" /\ CancelTracker /\ UNCHANGED <<auditVars, pool>>
       \/ Tasks[task] = "workers" /\ UNCHANGED <<auditVars, usageVars, pool>>
       \/ Tasks[task] = "database" /\ pool' = FALSE /\ UNCHANGED <<auditVars, usageVars>>
    /\ UNCHANGED <<phase, task, budget, worker>>

\* What the task's future waits for.
Finished ==
    CASE Tasks[task] = "audit" -> flusher = "done"
      [] Tasks[task] = "usage_tracker" -> tracker = "done"
      [] Tasks[task] = "workers" -> worker
      [] Tasks[task] = "database" -> TRUE

NextTask ==
    /\ task' = task + 1
    /\ running' = FALSE

TaskEnds ==
    /\ phase = "tasks" /\ running
    /\ Finished
    /\ NextTask
    /\ UNCHANGED <<auditVars, usageVars, phase, budget, pool, worker>>

\* MUTANTS: every task has a budget of its own; a task is not cut off.
TimeoutPerTask ==
    /\ phase = "tasks" /\ running
    /\ budget = 0
    /\ NextTask
    /\ budget' = GracePeriod
    /\ UNCHANGED <<auditVars, usageVars, phase, pool, worker>>
NoTimeout == FALSE /\ UNCHANGED processVars

\* The deadline cuts the task off; its future is dropped, what it waited for
\* goes on.
TaskTimesOut ==
    /\ phase = "tasks" /\ running
    /\ budget = 0
    /\ NextTask
    /\ UNCHANGED <<auditVars, usageVars, phase, budget, pool, worker>>

\* After the deadline no task is started.
SkipTask ==
    /\ phase = "tasks" /\ task <= Len(Tasks) /\ ~running
    /\ budget = 0
    /\ NextTask
    /\ UNCHANGED <<auditVars, usageVars, phase, budget, pool, worker>>

Exit ==
    /\ phase = "tasks" /\ task > Len(Tasks)
    /\ phase' = "exited"
    /\ UNCHANGED <<auditVars, usageVars, task, running, budget, pool, worker>>

WorkersEnd ==
    /\ phase = "tasks" /\ running /\ Tasks[task] = "workers" /\ ~worker
    /\ worker' = TRUE
    /\ UNCHANGED <<auditVars, usageVars, phase, task, running, budget, pool>>

ShutdownTick ==
    /\ phase = "tasks" /\ budget > 0
    /\ budget' = budget - 1
    /\ UNCHANGED <<auditVars, usageVars, phase, task, running, pool, worker>>

Coordinate == StartTask \/ TaskEnds \/ TaskTimesOut \/ SkipTask \/ Exit

ShutdownNext ==
    \/ HandlerRecords
    \/ \E w \in Workspaces : HandlerPings(w)
    \/ AuditTask \/ AuditWrites \/ UsageTask \/ UsageWrites
    \/ ServerStops \/ Coordinate \/ WorkersEnd \/ ShutdownTick

ShutdownSpec == ShutdownInit /\ [][ShutdownNext]_processVars

\* Timers fire, tasks that can run are run.  Nothing is assumed of the
\* database for the end of the process; writes return while it serves.
Fairness ==
    /\ WF_processVars(AuditTask) /\ WF_processVars(UsageTask)
    /\ WF_processVars(Coordinate) /\ WF_processVars(ShutdownTick)
WritesReturn == WF_processVars(AuditWrites) /\ WF_processVars(UsageWrites)
ShutdownFairSpec == ShutdownSpec /\ Fairness

-----------------------------------------------------------------------------
\* "Close the database connection pool last so preceding tasks can still issue
\* final queries": no buffered event or ping write ever meets a closed pool,
\* because a task that overruns takes the budget of all that follow.
PoolClosesLast ==
    ~pool => /\ flusher = "done" /\ tracker = "done" /\ worker
             /\ \A e \in 1 .. recorded : Settled(e) \/ e \in refused

\* Graceful shutdown comes to its end whatever the tasks wait for.
ShutdownEnds == (phase = "tasks") ~> (phase = "exited")

\* While the server serves and the database answers, an accepted event is
\* written (or its insert fails): a batch that never fills up is not kept.
EventIsSettled ==
    WritesReturn =>
        \A e \in Events : (recorded >= e /\ e \notin refused) ~> (Settled(e) \/ phase # "serving")
=============================================================================
