------------------------- MODULE WorkspaceLifecycle_proofs -------------------------
(* Proofs about WorkspaceLifecycle, for any number of workers of each kind, any     *)
(* settings of the template and any length of a pass.                               *)
EXTENDS WorkspaceLifecycle, TLAPS

(* A bump on its way will not leave the deadline beyond the maximum: what was       *)
(* computed from the maximum when the row was read ages as the maximum does.        *)
BumpsWithinMax ==
    \A w \in Workers :
        todo[w].act = "bump" /\ build.max_deadline # None =>
            /\ todo[w].deadline # None
            /\ Later(todo[w].deadline, todo[w].age) <= build.max_deadline

(* DeadlineWithinMax is not inductive by itself: a bump writes what it read.        *)
DeadlineInv == TypeOK /\ DeadlineWithinMax /\ BumpsWithinMax

LEMMA Caps ==
    /\ IdleCap \in Nat /\ DormantCap \in Nat /\ FailedCap \in Nat
    /\ DormantCap = Horizon
BY LifecycleAssumption DEF IdleCap, DormantCap, FailedCap, Largest

LEMMA LaterFacts ==
    ASSUME NEW t \in Instants, NEW k \in Nat
    PROVE  /\ Later(t, k) \in Instants
           /\ t = None <=> Later(t, k) = None
           /\ t # None => Later(t, k) \in Ahead /\ Later(t, k) <= t
           /\ Later(t, 0) = t
BY LifecycleAssumption DEF Instants, Ahead, Later

LEMMA LaterAgain ==
    ASSUME NEW t \in Ahead, NEW k \in Nat, NEW max \in Ahead, Later(t, k) <= max
    PROVE  Later(t, k + 1) <= Later(max, 1)
BY LifecycleAssumption DEF Ahead, Later

LEMMA ClampFacts ==
    ASSUME NEW t \in Ahead, NEW max \in Instants
    PROVE  Clamp(t, max) \in Ahead /\ (max # None => Clamp(t, max) <= max)
BY LifecycleAssumption DEF Instants, Ahead, Clamp

LEMMA OlderFacts ==
    ASSUME NEW cap \in Nat, NEW age \in 0..cap
    PROVE  Older(age, cap) \in 0..cap
BY DEF Older

LEMMA SleptSinceFacts ==
    ASSUME NEW t \in 0..DormantCap \cup {None}, asleep \in 0..DormantCap \cup {None}
    PROVE  SleptSince(t) \in 0..DormantCap \cup {None}
BY Caps DEF SleptSince, Largest

LEMMA NoneIsNoInstant == None \notin Ahead /\ Ahead \subseteq Int
BY LifecycleAssumption DEF Ahead

LEMMA NothingIsTask == Nothing \in Tasks
BY LifecycleAssumption DEF Nothing, Tasks, Instants

LEMMA NewBuildFacts ==
    ASSUME NEW transition \in Transitions, NEW max \in MaxDeadlines \cup {None}
    PROVE  /\ NewBuild(transition, max) \in Builds
           /\ NewBuild(transition, max).deadline = NewBuild(transition, max).max_deadline
           /\ NewBuild(transition, max).max_deadline \in Instants
<1>1. max \in Instants
  BY LifecycleAssumption DEF Instants
<1>. QED
  BY <1>1, Caps DEF NewBuild, Builds

LEMMA SameDeadline ==
    ASSUME NEW t \in Instants, t # None
    PROVE  t <= t
BY NoneIsNoInstant DEF Instants

(* The first build.                                                                 *)
LEMMA DeadlineInit == Init => DeadlineInv
<1>. SUFFICES ASSUME Init PROVE DeadlineInv
  OBVIOUS
<1>1. PICK max \in MaxDeadlines \cup {None} : build = NewBuild("start", max)
  BY DEF Init
<1>2. build \in Builds /\ build.deadline = build.max_deadline /\ build.max_deadline \in Instants
  BY <1>1, NewBuildFacts DEF Transitions
<1>3. todo \in [Workers -> Tasks] /\ \A w \in Workers : todo[w].act = "none"
  BY NothingIsTask DEF Init, Nothing
<1>4. TypeOK
  <2>1. deleted \in BOOLEAN /\ scheduled \in BOOLEAN /\ suspended \in BOOLEAN
    BY Zenon DEF Init
  <2>2. idle \in 0..IdleCap /\ userBuilds \in 0..MaxUserBuilds /\ faults \in 0..MaxFaults
    BY Caps, LifecycleAssumption DEF Init
  <2>3. /\ dormant \in 0..DormantCap \cup {None} /\ asleep \in 0..DormantCap \cup {None}
        /\ deleting_at \in Instants
    BY DEF Init, Instants
  <2>. QED
    BY <2>1, <2>2, <2>3, <1>2, <1>3 DEF TypeOK
<1>5. DeadlineWithinMax
  BY <1>2, SameDeadline, Zenon DEF DeadlineWithinMax
<1>6. BumpsWithinMax
  BY <1>3 DEF BumpsWithinMax
<1>. QED
  BY <1>4, <1>5, <1>6 DEF DeadlineInv

(* A step that leaves the build's deadlines alone and adds no bump.                 *)
LEMMA DeadlinesFrame ==
    ASSUME DeadlineWithinMax, BumpsWithinMax,
           build'.deadline = build.deadline, build'.max_deadline = build.max_deadline,
           \A w \in Workers : todo'[w] = todo[w] \/ todo'[w].act # "bump"
    PROVE  DeadlineWithinMax' /\ BumpsWithinMax'
BY DEF DeadlineWithinMax, BumpsWithinMax

(* Types of what a worker writes down when it is done.                              *)
LEMMA DoneType ==
    ASSUME TypeOK, NEW w \in Workers
    PROVE  /\ Done(w) \in [Workers -> Tasks]
           /\ \A v \in Workers : Done(w)[v] = todo[v] \/ Done(w)[v].act = "none"
           /\ \A v \in Workers : Done(w)[v].act = "bump" => Done(w)[v] = todo[v]
BY NothingIsTask DEF TypeOK, Done, Nothing

(* A new build comes with a deadline at its maximum, and no bump survives it.       *)
LEMMA InsertKeeps ==
    ASSUME TypeOK, NEW transition \in Transitions, NEW max \in MaxDeadlines \cup {None},
           NEW todos \in [Workers -> Tasks], InsertBuild(NewBuild(transition, max), todos)
    PROVE  /\ build' \in Builds /\ scheduled' \in BOOLEAN /\ todo' \in [Workers -> Tasks]
           /\ DeadlineWithinMax' /\ BumpsWithinMax'
<1>1. build' \in Builds /\ build'.deadline = build'.max_deadline /\ build'.max_deadline \in Instants
  BY NewBuildFacts DEF InsertBuild
<1>2. todo' \in [Workers -> Tasks] /\ \A w \in Workers : todo'[w].act # "bump"
  BY NothingIsTask DEF InsertBuild, Nothing
<1>3. scheduled' \in BOOLEAN
  BY DEF InsertBuild
<1>4. DeadlineWithinMax'
  BY <1>1, SameDeadline, Zenon DEF DeadlineWithinMax
<1>5. BumpsWithinMax'
  BY <1>2 DEF BumpsWithinMax
<1>. QED
  BY <1>1, <1>2, <1>3, <1>4, <1>5

LEMMA BuildTypes ==
    ASSUME TypeOK
    PROVE  /\ build.deadline \in Instants /\ build.max_deadline \in Instants
           /\ build.failed_for \in 0..FailedCap /\ build.transition \in Transitions
BY DEF TypeOK, Builds

LEMMA ReadKeeps ==
    ASSUME DeadlineInv, NEW w \in Workers, Read(w)
    PROVE  DeadlineInv'
<1>. DEFINE task(act) == [act |-> act, age |-> 0,
                          deadline |-> IF act = "bump" THEN BumpedDeadline ELSE None]
<1>1. PICK act \in Tasked(w) \ {"none"} : todo' = [todo EXCEPT ![w] = task(act)]
  BY DEF Read
<1>2. act \in {"start", "stop", "dormant", "delete", "bump"}
  <2>1. /\ SchedulerTask \subseteq {"start", "stop", "none"}
        /\ ExecutorTask \subseteq {"dormant", "delete", "none"}
        /\ CheckerTask \subseteq {"dormant", "none"}
        /\ BumperTask \subseteq {"bump", "none"}
    BY DEF SchedulerTask, ExecutorTask, CheckerTask, BumperTask
  <2>2. Kind[w] \in Kinds
    BY LifecycleAssumption
  <2>. QED
    BY <2>1, <2>2 DEF Tasked, Kinds
<1>3. ActivityBump \in Ahead
  BY LifecycleAssumption DEF Ahead
<1>4. /\ BumpedDeadline \in Ahead
      /\ build.max_deadline # None => BumpedDeadline <= build.max_deadline
  BY <1>3, ClampFacts, BuildTypes DEF BumpedDeadline, DeadlineInv
<1>5. task(act) \in Tasks
  BY <1>2, <1>4, LifecycleAssumption DEF Tasks, Instants
<1>6. TypeOK'
  BY <1>1, <1>5 DEF DeadlineInv, TypeOK, Read, workspaceVars, buildVars, boundVars
<1>7. build' = build
  BY DEF Read, buildVars
<1>8. Later(BumpedDeadline, 0) = BumpedDeadline
  BY <1>4, LaterFacts DEF Instants
<1>9. BumpsWithinMax'
  <2>. SUFFICES ASSUME NEW v \in Workers, todo'[v].act = "bump", build.max_deadline # None
                PROVE  /\ todo'[v].deadline # None
                       /\ Later(todo'[v].deadline, todo'[v].age) <= build.max_deadline
    BY <1>7 DEF BumpsWithinMax
  <2>1. CASE v # w
    BY <2>1, <1>1 DEF DeadlineInv, TypeOK, BumpsWithinMax
  <2>2. CASE v = w
    <3>1. todo'[v] = task(act)
      BY <2>2, <1>1 DEF DeadlineInv, TypeOK
    <3>2. todo'[v].deadline = BumpedDeadline /\ todo'[v].age = 0
      BY <3>1
    <3>. QED
      BY <3>2, <1>4, <1>8, NoneIsNoInstant
  <2>. QED
    BY <2>1, <2>2
<1>. QED
  BY <1>6, <1>7, <1>9 DEF DeadlineInv, DeadlineWithinMax

(* A worker's writes: only the bump touches a deadline.                             *)
LEMMA WriteKeeps ==
    ASSUME DeadlineInv, NEW w \in Workers, Write(w) \/ WriteFails(w)
    PROVE  DeadlineInv'
<1>. USE DEF DeadlineInv
<1>1. /\ Done(w) \in [Workers -> Tasks]
      /\ \A v \in Workers : Done(w)[v] = todo[v] \/ Done(w)[v].act # "bump"
  BY DoneType
<1>2. todo[w] \in Tasks /\ todo[w].age \in 0..Horizon /\ todo[w].deadline \in Instants
  BY DEF TypeOK, Tasks
<1>3. CASE Trigger(w)
  <2>1. /\ todo[w].act \in Transitions
        /\ InsertBuild(NewBuild(todo[w].act, None), Done(w))
    BY <1>3 DEF Trigger, Transitions
  <2>2. /\ build' \in Builds /\ scheduled' \in BOOLEAN /\ todo' \in [Workers -> Tasks]
        /\ DeadlineWithinMax' /\ BumpsWithinMax'
    BY <2>1, <1>1, InsertKeeps
  <2>. QED
    BY <2>2, <1>3 DEF Trigger, TypeOK, workspaceVars, boundVars
<1>4. CASE TriggerNotFound(w)
  <2>1. DeadlineWithinMax' /\ BumpsWithinMax'
    BY <1>4, <1>1, DeadlinesFrame DEF TriggerNotFound, buildVars
  <2>. QED
    BY <2>1, <1>1, <1>4 DEF TriggerNotFound, TypeOK, workspaceVars, buildVars, boundVars
<1>5. CASE MarkDormant(w)
  <2>1. DeadlineWithinMax' /\ BumpsWithinMax'
    BY <1>5, <1>1, DeadlinesFrame DEF MarkDormant, buildVars
  <2>2. TimeTilAutodelete \in Instants
    BY LifecycleAssumption DEF Instants, Ahead
  <2>3. Later(TimeTilAutodelete, todo[w].age) \in Instants
    BY <2>2, <1>2, LaterFacts
  <2>4. todo[w].age \in 0..DormantCap \cup {None}
    BY <1>2, Caps
  <2>5. /\ dormant' \in 0..DormantCap \cup {None} /\ asleep' \in 0..DormantCap \cup {None}
        /\ deleting_at' \in Instants
    BY <2>3, <2>4, <1>5, SleptSinceFacts DEF MarkDormant, TypeOK
  <2>. QED
    BY <2>1, <2>5, <1>1, <1>5 DEF MarkDormant, TypeOK, buildVars, boundVars
<1>6. CASE SoftDelete(w)
  <2>1. DeadlineWithinMax' /\ BumpsWithinMax'
    BY <1>6, <1>1, DeadlinesFrame DEF SoftDelete, buildVars
  <2>. QED
    BY <2>1, <1>1, <1>6 DEF SoftDelete, TypeOK, buildVars, boundVars
<1>7. CASE Bump(w)
  <2>. DEFINE new == Later(todo[w].deadline, todo[w].age)
  <2>1. new \in Instants
    BY <1>2, LaterFacts
  <2>2. /\ build' \in Builds
        /\ build'.deadline = new /\ build'.max_deadline = build.max_deadline
    BY <2>1, <1>7 DEF Bump, TypeOK, Builds
  <2>3. DeadlineWithinMax'
    <3>. SUFFICES ASSUME build.max_deadline # None
                  PROVE  new # None /\ new <= build.max_deadline
      BY <2>2 DEF DeadlineWithinMax
    <3>1. todo[w].deadline # None /\ new <= build.max_deadline
      BY <1>7 DEF Bump, BumpsWithinMax
    <3>. QED
      BY <3>1, <1>2, LaterFacts
  <2>4. BumpsWithinMax'
    BY <2>2, <1>1, <1>7 DEF Bump, BumpsWithinMax
  <2>. QED
    BY <2>2, <2>3, <2>4, <1>1, <1>7 DEF Bump, TypeOK, workspaceVars, boundVars
<1>8. CASE WriteFails(w)
  <2>1. DeadlineWithinMax' /\ BumpsWithinMax'
    BY <1>8, <1>1, DeadlinesFrame DEF WriteFails, buildVars
  <2>2. faults' \in 0..MaxFaults
    BY <1>8, LifecycleAssumption DEF WriteFails, TypeOK
  <2>. QED
    BY <2>1, <2>2, <1>1, <1>8 DEF WriteFails, TypeOK, workspaceVars, buildVars
<1>. QED
  BY <1>3, <1>4, <1>5, <1>6, <1>7, <1>8 DEF Write

(* The user's requests.                                                             *)
LEMMA PostBuildKeeps ==
    ASSUME DeadlineInv, NEW transition \in Transitions, NEW max \in MaxDeadlines \cup {None},
           PostBuild(transition, max)
    PROVE  DeadlineInv'
<1>. USE DEF DeadlineInv
<1>1. /\ build' \in Builds /\ scheduled' \in BOOLEAN /\ todo' \in [Workers -> Tasks]
      /\ DeadlineWithinMax' /\ BumpsWithinMax'
  BY InsertKeeps DEF PostBuild, TypeOK
<1>2. userBuilds' \in 0..MaxUserBuilds
  BY LifecycleAssumption DEF PostBuild, TypeOK
<1>. QED
  BY <1>1, <1>2 DEF PostBuild, TypeOK, workspaceVars

LEMMA ExtendKeeps ==
    ASSUME DeadlineInv, NEW t \in Ahead, Extend(t)
    PROVE  DeadlineInv'
<1>. USE DEF DeadlineInv
<1>. DEFINE new == Clamp(t, build.max_deadline)
<1>1. /\ new \in Ahead /\ new # None
      /\ build.max_deadline # None => new <= build.max_deadline
  BY ClampFacts, BuildTypes, NoneIsNoInstant
<1>2. /\ build' \in Builds
      /\ build'.deadline = new /\ build'.max_deadline = build.max_deadline
  BY <1>1 DEF Extend, TypeOK, Builds, Instants
<1>3. DeadlineWithinMax'
  BY <1>1, <1>2 DEF DeadlineWithinMax
<1>4. BumpsWithinMax'
  BY <1>2 DEF Extend, BumpsWithinMax
<1>. QED
  BY <1>2, <1>3, <1>4 DEF Extend, TypeOK, workspaceVars, boundVars

LEMMA PutDormantKeeps ==
    ASSUME DeadlineInv, NEW t \in {0, None}, PutDormant(t)
    PROVE  DeadlineInv'
<1>. USE DEF DeadlineInv
<1>1. DeadlineWithinMax' /\ BumpsWithinMax'
  BY DeadlinesFrame DEF PutDormant, buildVars
<1>2. dormant' \in 0..DormantCap \cup {None} /\ asleep' \in 0..DormantCap \cup {None}
  BY Caps, SleptSinceFacts DEF PutDormant, TypeOK
<1>. QED
  BY <1>1, <1>2 DEF PutDormant, TypeOK, buildVars, boundVars

(* What happens around the workspace.                                               *)
LEMMA EnvironmentKeeps ==
    ASSUME DeadlineInv,
           \/ Use \/ Suspend \/ ScheduleFires
           \/ CompleteJob("succeeded") \/ CompleteJob("failed")
    PROVE  DeadlineInv'
<1>. USE DEF DeadlineInv
<1>1. CASE Use
  <2>1. DeadlineWithinMax' /\ BumpsWithinMax'
    BY <1>1, DeadlinesFrame DEF Use, buildVars
  <2>. QED
    BY <2>1, <1>1, Caps DEF Use, TypeOK, buildVars, boundVars
<1>2. CASE Suspend
  <2>1. DeadlineWithinMax' /\ BumpsWithinMax'
    BY <1>2, DeadlinesFrame DEF Suspend, buildVars
  <2>2. suspended' \in BOOLEAN
    BY <1>2, Zenon DEF Suspend
  <2>. QED
    BY <2>1, <2>2, <1>2 DEF Suspend, TypeOK, workspaceVars, buildVars, boundVars
<1>3. CASE ScheduleFires
  <2>1. DeadlineWithinMax' /\ BumpsWithinMax'
    BY <1>3, DeadlinesFrame DEF ScheduleFires
  <2>. QED
    BY <2>1, <1>3 DEF ScheduleFires, TypeOK, workspaceVars, boundVars
<1>4. ASSUME NEW status \in {"succeeded", "failed"}, CompleteJob(status)
      PROVE  DeadlineInv'
  <2>1. /\ build' \in Builds
        /\ build'.deadline = build.deadline /\ build'.max_deadline = build.max_deadline
    BY <1>4 DEF CompleteJob, TypeOK, Builds
  <2>2. DeadlineWithinMax' /\ BumpsWithinMax'
    BY <2>1, <1>4, DeadlinesFrame DEF CompleteJob
  <2>. QED
    BY <2>1, <2>2, <1>4 DEF CompleteJob, TypeOK, workspaceVars, boundVars
<1>. QED
  BY <1>1, <1>2, <1>3, <1>4

(* Time: a deadline, its maximum and a bump on its way age together.                *)
LEMMA TickKeeps ==
    ASSUME DeadlineInv, Tick
    PROVE  DeadlineInv'
<1>. USE DEF DeadlineInv
<1>. DEFINE age == IF build.job = "failed" THEN Older(build.failed_for, FailedCap) ELSE 0
<1>1. /\ idle' \in 0..IdleCap
      /\ dormant' \in 0..DormantCap \cup {None} /\ asleep' \in 0..DormantCap \cup {None}
      /\ deleting_at' \in Instants
  BY Caps, OlderFacts, LaterFacts DEF Tick, TypeOK
<1>2. age \in 0..FailedCap
  BY Caps, OlderFacts, BuildTypes
<1>3. /\ Later(build.deadline, 1) \in Instants /\ Later(build.max_deadline, 1) \in Instants
      /\ build.max_deadline = None <=> Later(build.max_deadline, 1) = None
      /\ build.deadline = None <=> Later(build.deadline, 1) = None
  BY LaterFacts, BuildTypes
<1>4. /\ build' \in Builds
      /\ build'.deadline = Later(build.deadline, 1)
      /\ build'.max_deadline = Later(build.max_deadline, 1)
  <2>. HIDE DEF age
  <2>1. build' = [build EXCEPT !.deadline = Later(build.deadline, 1),
                               !.max_deadline = Later(build.max_deadline, 1),
                               !.failed_for = age]
    BY DEF Tick, TypeOK, Builds, age
  <2>. QED
    BY <2>1, <1>2, <1>3 DEF TypeOK, Builds
<1>5. /\ todo' \in [Workers -> Tasks]
      /\ \A w \in Workers : todo'[w].act = "bump" =>
            /\ todo[w].act = "bump"
            /\ todo'[w].deadline = todo[w].deadline /\ todo'[w].age = todo[w].age + 1
  <2>. SUFFICES ASSUME NEW w \in Workers
                PROVE  /\ todo'[w] \in Tasks
                       /\ todo'[w].act = "bump" =>
                            /\ todo[w].act = "bump"
                            /\ todo'[w].deadline = todo[w].deadline
                            /\ todo'[w].age = todo[w].age + 1
    BY DEF Tick
  <2>1. todo[w] \in Tasks /\ MaxPass[w] \in 0..Horizon /\ Horizon \in Nat
    BY LifecycleAssumption DEF TypeOK
  <2>2. CASE todo[w].act = "none"
    BY <2>2, NothingIsTask DEF Tick, Nothing
  <2>3. CASE todo[w].act # "none"
    <3>1. todo[w].age \in 0..Horizon /\ todo[w].age < MaxPass[w]
      BY <2>1, <2>3 DEF Tick, Tasks
    <3>2. todo[w].age + 1 \in 0..Horizon
      BY <3>1, <2>1
    <3>3. todo'[w] = [todo[w] EXCEPT !.age = todo[w].age + 1]
      BY <2>1, <2>3 DEF Tick, Tasks
    <3>. QED
      BY <3>2, <3>3, <2>1 DEF Tasks
  <2>. QED
    BY <2>2, <2>3
<1>6. DeadlineWithinMax'
  <2>. SUFFICES ASSUME Later(build.max_deadline, 1) # None
                PROVE  /\ Later(build.deadline, 1) # None
                       /\ Later(build.deadline, 1) <= Later(build.max_deadline, 1)
    BY <1>4 DEF DeadlineWithinMax
  <2>1. /\ build.max_deadline # None /\ build.deadline # None
        /\ build.deadline <= build.max_deadline
    BY <1>3 DEF DeadlineWithinMax
  <2>2. build.max_deadline \in Ahead /\ build.deadline \in Ahead
    BY <2>1, BuildTypes DEF Instants
  <2>3. Later(build.deadline, 0) = build.deadline
    BY BuildTypes, LaterFacts
  <2>4. Later(build.deadline, 0 + 1) <= Later(build.max_deadline, 1)
    BY <2>1, <2>2, <2>3, LaterAgain
  <2>. QED
    BY <2>1, <2>4, <1>3
<1>7. BumpsWithinMax'
  <2>. SUFFICES ASSUME NEW w \in Workers, todo'[w].act = "bump",
                       Later(build.max_deadline, 1) # None
                PROVE  /\ todo'[w].deadline # None
                       /\ Later(todo'[w].deadline, todo'[w].age) <= Later(build.max_deadline, 1)
    BY <1>4 DEF BumpsWithinMax
  <2>1. /\ todo[w].act = "bump" /\ build.max_deadline # None
        /\ todo'[w].deadline = todo[w].deadline /\ todo'[w].age = todo[w].age + 1
    BY <1>3, <1>5
  <2>2. todo[w].deadline # None /\ Later(todo[w].deadline, todo[w].age) <= build.max_deadline
    BY <2>1 DEF BumpsWithinMax
  <2>3. todo[w].age \in Nat /\ todo[w].deadline \in Ahead /\ build.max_deadline \in Ahead
    BY <2>1, <2>2, BuildTypes DEF TypeOK, Tasks, Instants
  <2>. QED
    BY <2>1, <2>2, <2>3, LaterAgain
<1>. QED
  BY <1>1, <1>4, <1>5, <1>6, <1>7 DEF Tick, TypeOK, boundVars

LEMMA DeadlineNext == DeadlineInv /\ [Next]_vars => DeadlineInv'
<1>. SUFFICES ASSUME DeadlineInv, [Next]_vars PROVE DeadlineInv'
  OBVIOUS
<1>1. CASE UNCHANGED vars
  <2>. USE <1>1 DEF DeadlineInv, vars, workspaceVars, buildVars, boundVars
  <2>1. TypeOK'
    BY DEF TypeOK
  <2>2. DeadlineWithinMax' /\ BumpsWithinMax'
    BY DeadlinesFrame
  <2>. QED
    BY <2>1, <2>2
<1>2. CASE Next
  BY <1>2, ReadKeeps, WriteKeeps, PostBuildKeeps, ExtendKeeps, PutDormantKeeps,
     EnvironmentKeeps, TickKeeps DEF Next
<1>. QED
  BY <1>1, <1>2

LEMMA DeadlineInvHolds == Spec => []DeadlineInv
<1>1. Init => DeadlineInv
  BY DeadlineInit
<1>2. DeadlineInv /\ [Next]_vars => DeadlineInv'
  BY DeadlineNext
<1>. QED
  BY <1>1, <1>2, PTL DEF Spec

(* Every column, and what every worker is about to write, keeps its type.           *)
THEOREM TypeCorrect == Spec => []TypeOK
<1>1. DeadlineInv => TypeOK
  BY DEF DeadlineInv
<1>. QED
  BY <1>1, DeadlineInvHolds, PTL

(* No deadline is ever beyond the maximum of its build, although the bump writes a  *)
(* value it computed from a row read earlier, while users extend and rebuild.       *)
THEOREM DeadlineStaysWithinMax == Spec => []DeadlineWithinMax
<1>1. DeadlineInv => DeadlineWithinMax
  BY DEF DeadlineInv
<1>. QED
  BY <1>1, DeadlineInvHolds, PTL
====================================================================================
