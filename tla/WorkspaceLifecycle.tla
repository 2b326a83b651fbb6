---------------------------- MODULE WorkspaceLifecycle ---------------------------
(* The life of one workspace under its user's requests (handlers/workspaces.rs) and *)
(* the background workers of every replica (coder-workspaces/src/lib.rs).  A worker *)
(* reads the eligible rows, decides on what it read, and writes later: in between   *)
(* the row belongs to everybody.  Instants are kept relative to the present: an     *)
(* instant ahead as the ticks left to it (-1 once it has passed), an instant in the *)
(* past as its age, both as far as a comparison of the code can tell them apart.    *)
EXTENDS Integers

CONSTANTS
    Workers, Kind,      \* the workers of all replicas, and what each one is
    None,               \* an instant that is not set
    TimeTilDormant, TimeTilAutodelete, FailureTtl, ActivityBump,   \* of the template
    DeleteRetry,        \* the day a failed deletion waits
    MaxDeadlines,       \* what the template's autostop requirement may come to
    Horizon,            \* bound: no instant is set further ahead
    MaxPass,            \* bound: ticks the pass of a worker may take
    MaxUserBuilds,      \* bound: builds the user asks for
    MaxFaults           \* bound: statements that fail

Kinds == {"scheduler", "executor", "bumper", "checker"}
Ahead == -1..Horizon
Instants == Ahead \cup {None}

(* Ages are told apart up to the point where no comparison changes any more.        *)
Largest(a, b) == IF a > b THEN a ELSE b
IdleCap == Largest(TimeTilDormant, ActivityBump) + 1
DormantCap == Horizon
FailedCap == Largest(FailureTtl, DeleteRetry) + 1
Older(age, cap) == IF age < cap THEN age + 1 ELSE cap

ASSUME LifecycleAssumption ==
    /\ Kind \in [Workers -> Kinds]
    /\ None \notin Int
    /\ TimeTilDormant \in Nat \ {0} /\ TimeTilAutodelete \in Nat \ {0} /\ FailureTtl \in Nat \ {0}
    /\ ActivityBump \in Nat \ {0} /\ DeleteRetry \in Nat
    /\ Horizon \in Nat /\ MaxPass \in [Workers -> 0..Horizon] /\ MaxUserBuilds \in Nat /\ MaxFaults \in Nat
    /\ TimeTilAutodelete <= Horizon /\ ActivityBump <= Horizon
    /\ MaxDeadlines \subseteq Instants

VARIABLES
    deleted,        \* workspaces.deleted
    idle,           \* age of workspaces.last_used_at
    dormant,        \* age of workspaces.dormant_at, or None
    deleting_at,    \* workspaces.deleting_at
    asleep,         \* history: age of the first dormant_at since it was last awake, or None
    build,          \* the build with the highest number, with its job
    scheduled,      \* the autostart schedule has fired since that job completed
    suspended,      \* users.status of the owner
    todo,           \* worker -> what its pass is about to write
    userBuilds, faults

workspaceVars == <<deleted, idle, dormant, deleting_at, asleep>>
buildVars == <<build, scheduled>>
boundVars == <<userBuilds, faults>>
vars == <<workspaceVars, buildVars, suspended, todo, boundVars>>

Transitions == {"start", "stop", "delete"}
Builds == [transition : Transitions, deadline : Instants, max_deadline : Instants,
           job : {"pending", "succeeded", "failed"}, failed_for : 0..FailedCap]
Nothing == [act |-> "none", age |-> 0, deadline |-> None]
Tasks == [act : {"none", "start", "stop", "dormant", "delete", "bump"},
          age : 0..Horizon, deadline : Instants]

TypeOK ==
    /\ deleted \in BOOLEAN
    /\ idle \in 0..IdleCap
    /\ dormant \in 0..DormantCap \cup {None} /\ asleep \in 0..DormantCap \cup {None}
    /\ deleting_at \in Instants
    /\ build \in Builds
    /\ scheduled \in BOOLEAN /\ suspended \in BOOLEAN
    /\ todo \in [Workers -> Tasks]
    /\ userBuilds \in 0..MaxUserBuilds /\ faults \in 0..MaxFaults

NewBuild(transition, max) ==
    [transition |-> transition, deadline |-> max, max_deadline |-> max, job |-> "pending",
     failed_for |-> 0]

(* The workspace has just been created, with its first build.                       *)
Init ==
    /\ deleted = FALSE /\ idle = 0 /\ dormant = None /\ deleting_at = None /\ asleep = None
    /\ \E max \in MaxDeadlines \cup {None} : build = NewBuild("start", max)
    /\ scheduled = FALSE /\ suspended = FALSE
    /\ todo = [w \in Workers |-> Nothing]
    /\ userBuilds = 0 /\ faults = 0

Passed(t) == t # None /\ t < 0
Later(t, ticks) == IF t = None THEN None ELSE IF t - ticks >= -1 THEN t - ticks ELSE -1
Clamp(t, max) == IF max # None /\ t > max THEN max ELSE t

---------------------------------------------------------------------------------
(* is_eligible_for_*: what a worker makes of the row it read.                       *)
ForAutostop ==
    /\ build.job # "failed"
    /\ dormant = None
    /\ build.transition = "start"
    /\ suspended \/ Passed(build.deadline)

ForAutostart ==
    /\ ~suspended
    /\ build.job # "failed"
    /\ dormant = None
    /\ build.transition = "stop"
    /\ scheduled

ForFailedStop ==
    /\ build.job = "failed"
    /\ build.transition = "start"
    /\ build.failed_for > FailureTtl

ForDormancy == dormant = None /\ idle > TimeTilDormant

ForDelete ==
    /\ dormant # None
    /\ Passed(deleting_at)
    /\ build.transition = "delete" /\ build.job = "failed" => build.failed_for > DeleteRetry

(* Mutation: the query without the suspended owners.                                *)
EligibleByDeadline ==
    /\ ~deleted
    /\ \/ ForAutostop /\ ~suspended
       \/ ForDormancy \/ ForDelete \/ ForFailedStop
       \/ ~suspended /\ build.job # "failed" /\ build.transition = "stop" /\ dormant = None

(* get_workspaces_eligible_for_transition: the rows a pass gets to see at all.      *)
Eligible ==
    /\ ~deleted
    /\ \/ ForAutostop
       \/ ForDormancy
       \/ ForDelete
       \/ ForFailedStop
       \/ ~suspended /\ build.job # "failed" /\ build.transition = "stop" /\ dormant = None

(* Mutation: the retry of a failed stop leaves dormant workspaces alone, as the two *)
(* other branches do.                                                               *)
SchedulerTaskAwake ==
    CASE ForAutostop -> {"stop"}
      [] ForAutostart /\ ~ForAutostop -> {"start", "none"}
      [] ForFailedStop /\ dormant = None /\ ~ForAutostop /\ ~ForAutostart -> {"stop"}
      [] OTHER -> {"none"}

(* lifecycle_tick_once; autostart is skipped in the quiet hours, whenever they are. *)
SchedulerTask ==
    CASE ForAutostop   -> {"stop"}
      [] ForAutostart /\ ~ForAutostop -> {"start", "none"}
      [] ForFailedStop /\ ~ForAutostop /\ ~ForAutostart -> {"stop"}
      [] OTHER -> {"none"}

(* get_next_transition and evaluate_workspace: the executor leaves starts and stops *)
(* alone, and they come first.                                                      *)
ExecutorTask ==
    IF ForAutostop \/ ForAutostart \/ ForFailedStop THEN {"none"}
    ELSE IF ForDormancy THEN {"dormant"}
    ELSE IF ForDelete THEN {"delete"}
    ELSE {"none"}

CheckerTask == IF ForDormancy THEN {"dormant"} ELSE {"none"}

(* Mutation: the bump is not clamped.                                               *)
BumpUnclamped == ActivityBump

(* activity_bump_once.                                                              *)
BumpedDeadline == Clamp(ActivityBump, build.max_deadline)
BumperTask ==
    IF /\ build.transition = "start" /\ build.job = "succeeded"
       /\ idle <= ActivityBump
       /\ build.deadline # None
       /\ BumpedDeadline > build.deadline
    THEN {"bump"} ELSE {"none"}

Tasked(w) ==
    CASE Kind[w] = "scheduler" -> SchedulerTask
      [] Kind[w] = "executor" -> ExecutorTask
      [] Kind[w] = "checker" -> CheckerTask
      [] Kind[w] = "bumper" -> BumperTask

---------------------------------------------------------------------------------
(* A worker's tick: it reads the row and decides.                                   *)
Read(w) ==
    /\ todo[w].act = "none"
    /\ Eligible
    /\ \E act \in Tasked(w) \ {"none"} :
         todo' = [todo EXCEPT ![w] = [act |-> act, age |-> 0,
                                      deadline |-> IF act = "bump" THEN BumpedDeadline ELSE None]]
    /\ UNCHANGED <<workspaceVars, buildVars, suspended, boundVars>>

Done(w) == [todo EXCEPT ![w] = Nothing]

(* A new build takes the place of the latest one: a deadline on its way to that one *)
(* will reach a row nobody reads any more.                                          *)
InsertBuild(b, todos) ==
    /\ build' = b
    /\ scheduled' = FALSE
    /\ todo' = [w \in Workers |-> IF todos[w].act = "bump" THEN Nothing ELSE todos[w]]

(* trigger_workspace_start and trigger_workspace_stop, which look only for a        *)
(* workspace that is not deleted.                                                   *)
Trigger(w) ==
    /\ todo[w].act \in {"start", "stop"}
    /\ ~deleted
    /\ InsertBuild(NewBuild(todo[w].act, None), Done(w))
    /\ UNCHANGED <<workspaceVars, suspended, boundVars>>

TriggerNotFound(w) ==
    /\ todo[w].act \in {"start", "stop"}
    /\ deleted
    /\ todo' = Done(w)
    /\ UNCHANGED <<workspaceVars, buildVars, suspended, boundVars>>

(* A workspace that is dormant already stays so, whatever dormant_at is set to.     *)
SleptSince(t) ==
    CASE t = None -> None
      [] t # None /\ asleep = None -> t
      [] t # None /\ asleep # None -> Largest(asleep, t)

(* update_workspace_dormant_deleting_at, with the instant of the pass.              *)
MarkDormant(w) ==
    /\ todo[w].act = "dormant"
    /\ todo' = Done(w)
    /\ IF deleted THEN UNCHANGED <<dormant, deleting_at, asleep>>
       ELSE /\ dormant' = todo[w].age
            /\ asleep' = SleptSince(todo[w].age)
            /\ deleting_at' = Later(TimeTilAutodelete, todo[w].age)
    /\ UNCHANGED <<deleted, idle, buildVars, suspended, boundVars>>

(* soft_delete_workspace.                                                           *)
SoftDelete(w) ==
    /\ todo[w].act = "delete"
    /\ deleted' = TRUE
    /\ todo' = Done(w)
    /\ UNCHANGED <<idle, dormant, deleting_at, asleep, buildVars, suspended, boundVars>>

(* update_workspace_build_deadline, of the build that was read.                     *)
Bump(w) ==
    /\ todo[w].act = "bump"
    /\ build' = [build EXCEPT !.deadline = Later(todo[w].deadline, todo[w].age)]
    /\ todo' = Done(w)
    /\ UNCHANGED <<workspaceVars, scheduled, suspended, boundVars>>

(* A statement of the pass fails: the worker goes on to its next tick.  A trigger   *)
(* that fails after its first statement leaves a job without a build behind.        *)
WriteFails(w) ==
    /\ todo[w].act # "none"
    /\ faults < MaxFaults
    /\ faults' = faults + 1
    /\ todo' = Done(w)
    /\ UNCHANGED <<workspaceVars, buildVars, suspended, userBuilds>>

Write(w) == Trigger(w) \/ TriggerNotFound(w) \/ MarkDormant(w) \/ SoftDelete(w) \/ Bump(w)

---------------------------------------------------------------------------------
(* post_workspace_build: nothing is asked of the latest build.                      *)
PostBuild(transition, max) ==
    /\ ~deleted
    /\ userBuilds < MaxUserBuilds
    /\ userBuilds' = userBuilds + 1
    /\ InsertBuild(NewBuild(transition, max), todo)
    /\ UNCHANGED <<workspaceVars, suspended, faults>>

(* put_workspace_extend: any instant, clamped to the maximum of the latest build.   *)
(* It reads the build and updates that row; a build keeps its maximum, and an       *)
(* update of a build replaced in between is one that nobody reads.                  *)
Extend(t) ==
    /\ ~deleted
    /\ build' = [build EXCEPT !.deadline = Clamp(t, build.max_deadline)]
    /\ UNCHANGED <<workspaceVars, scheduled, suspended, todo, boundVars>>

(* put_workspace_dormant through update_workspace_dormant_at: only dormant_at.      *)
PutDormant(t) ==
    /\ ~deleted
    /\ dormant' = t
    /\ asleep' = SleptSince(t)
    /\ UNCHANGED <<deleted, idle, deleting_at, buildVars, suspended, todo, boundVars>>

---------------------------------------------------------------------------------
(* The environment, as long as the workspace is not deleted: after that nothing     *)
(* reads what it does.  First the usage tracker's flush.                            *)
Use ==
    /\ ~deleted
    /\ idle' = 0
    /\ UNCHANGED <<deleted, dormant, deleting_at, asleep, buildVars, suspended, todo, boundVars>>

(* The owner is suspended or activated again.                                       *)
Suspend ==
    /\ ~deleted
    /\ suspended' = ~suspended
    /\ UNCHANGED <<workspaceVars, buildVars, todo, boundVars>>

(* A provisioner completes the build's job.                                         *)
CompleteJob(status) ==
    /\ ~deleted
    /\ build.job = "pending"
    /\ build' = [build EXCEPT !.job = status]
    /\ UNCHANGED <<workspaceVars, scheduled, suspended, todo, boundVars>>

(* The autostart schedule fires; only a stopped workspace heeds it.                 *)
ScheduleFires ==
    /\ ~deleted
    /\ build.job # "pending"
    /\ build.transition = "stop"
    /\ scheduled' = TRUE
    /\ UNCHANGED <<workspaceVars, build, suspended, todo, boundVars>>

Tick ==
    /\ ~deleted
    /\ \A w \in Workers : todo[w].act # "none" => todo[w].age < MaxPass[w]
    /\ idle' = Older(idle, IdleCap)
    /\ dormant' = IF dormant = None THEN None ELSE Older(dormant, DormantCap)
    /\ asleep' = IF asleep = None THEN None ELSE Older(asleep, DormantCap)
    /\ deleting_at' = Later(deleting_at, 1)
    /\ build' = [build EXCEPT !.deadline = Later(@, 1), !.max_deadline = Later(@, 1),
                              !.failed_for = IF build.job = "failed" THEN Older(@, FailedCap) ELSE 0]
    /\ todo' = [w \in Workers |-> IF todo[w].act = "none" THEN Nothing
                                  ELSE [todo[w] EXCEPT !.age = @ + 1]]
    /\ UNCHANGED <<deleted, scheduled, suspended, boundVars>>

Next ==
    \/ \E w \in Workers : Read(w) \/ Write(w) \/ WriteFails(w)
    \/ \E transition \in Transitions, max \in MaxDeadlines \cup {None} : PostBuild(transition, max)
    \/ \E t \in Ahead : Extend(t)
    \/ PutDormant(0) \/ PutDormant(None)
    \/ Use \/ Suspend \/ ScheduleFires \/ Tick
    \/ CompleteJob("succeeded") \/ CompleteJob("failed")

Spec == Init /\ [][Next]_vars

(* The workers' intervals keep firing, a pass ends, and time goes on.  Nothing is   *)
(* assumed of the user or of the provisioners.                                      *)
Fairness == WF_vars(Tick) /\ \A w \in Workers : WF_vars(Read(w)) /\ WF_vars(Write(w))

FairSpec == Spec /\ Fairness

---------------------------------------------------------------------------------
(* No deadline is ever beyond the maximum of its build, whoever wrote it last: the  *)
(* user's extension, clamped as it is written, or a bump, clamped to the row of its *)
(* pass and written later (put_workspace_extend, activity_bump_once).               *)
DeadlineWithinMax ==
    build.max_deadline # None =>
        /\ build.deadline # None
        /\ build.deadline <= build.max_deadline

(* A running workspace whose deadline has passed, or whose owner is suspended, does *)
(* not stay that way: it is stopped, or its deadline is moved, or its state changes *)
(* under the worker (lifecycle_tick_once, trigger_workspace_stop).                  *)
OverdueIsStopped == (~deleted /\ ForAutostop) ~> ~(~deleted /\ ForAutostop)

(* A dormant workspace past its deletion instant is deleted unless its user wakes   *)
(* it: the executor passes it over while its last start has failed, and relies on   *)
(* the scheduler to stop it (get_next_transition, lifecycle_tick_once).             *)
DueIsDeleted ==
    (dormant # None /\ Passed(deleting_at)) ~> (deleted \/ dormant = None \/ ~Passed(deleting_at))

(* "Workspace auto-deleted after dormancy period": a workspace is due for deletion  *)
(* only when it has been dormant, without a break, for the template's period.  A    *)
(* repeated request to put it to sleep is no break, waking it is.                   *)
DeletedAfterPeriod == ~deleted /\ ForDelete => asleep >= TimeTilAutodelete
====================================================================================
