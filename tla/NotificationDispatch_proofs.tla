--------------------- MODULE NotificationDispatch_proofs ---------------------
(***************************************************************************)
(* What the 30 s lease guarantees, and what is left of it when a cycle     *)
(* outlives its lease, for any number of replicas, messages and failures   *)
(* and any duration of the cycles.                                         *)
(***************************************************************************)
EXTENDS NotificationDispatch, FiniteSetTheorems, TLAPS

\* A message in a cycle's batch is still leased, for as long as its lease is
\* from the cycle's acquire; or it is marked sent and the cycle only has
\* failures left to write.
Covered(n, m) ==
    \/ status[m] = "leased" /\ leased_until[m] + cycleAge[n] >= Lease
    \/ status[m] = "sent" /\ batch[n][m] = "sent" /\ phase[n] = "mark_failed"

BatchCovered ==
    \A n \in Notifiers : \A m \in Messages :
        batch[n][m] # "none" =>
            /\ phase[n] # "idle"
            /\ m \notin outlived => cycleAge[n] < Lease /\ Covered(n, m)

\* The part of the type invariant the argument needs.
TimersOK ==
    /\ status \in [Messages -> Statuses]
    /\ leased_until \in [Messages -> 0 .. Lease]
    /\ batch \in [Notifiers -> [Messages -> Outcomes]]
    /\ phase \in [Notifiers -> {"idle", "dispatch", "mark_failed"}]
    /\ cycleAge \in [Notifiers -> 0 .. MaxCycle]
    /\ outlived \subseteq Messages

LeaseInv == TimersOK /\ BatchCovered /\ ExclusiveLease

LEMMA LeaseInit == Init => LeaseInv
  BY NotifierAssumption
  DEF Init, LeaseInv, TimersOK, BatchCovered, ExclusiveLease, NoBatch, Statuses, Outcomes, Messages

\* A row in a batch is not acquirable while no lease of it has run out.
LEMMA BatchNotAcquirable ==
  ASSUME LeaseInv, NEW n \in Notifiers, NEW m \in Messages,
         batch[n][m] # "none", m \notin outlived
  PROVE  m \notin Acquirable
<1>1. Covered(n, m) /\ cycleAge[n] < Lease
  BY DEF LeaseInv, BatchCovered
<1>2. leased_until[m] \in Nat /\ cycleAge[n] \in Nat
  BY NotifierAssumption DEF LeaseInv, TimersOK
<1>3. status[m] = "leased" => leased_until[m] # 0
  BY <1>1, <1>2, NotifierAssumption DEF Covered
<1>4. status[m] \in {"leased", "sent"}
  BY <1>1 DEF Covered
<1> QED
  BY <1>3, <1>4 DEF Acquirable

LEMMA StartCycleKeeps ==
  ASSUME LeaseInv, NEW n \in Notifiers, StartCycle(n)
  PROVE  LeaseInv'
<1> DEFINE taken == Oldest(Acquirable)
<1>1. taken \subseteq Acquirable
  BY DEF Oldest
<1>2. \A k \in Notifiers : \A m \in Messages :
          batch[k][m] # "none" => m \notin taken \/ m \in outlived
  BY <1>1, BatchNotAcquirable
<1> HIDE DEF taken
<1>3. /\ status' = [m \in Messages |-> IF m \in taken THEN "leased" ELSE status[m]]
      /\ leased_until' = [m \in Messages |-> IF m \in taken THEN Lease ELSE leased_until[m]]
      /\ batch' = [batch EXCEPT ![n] = [m \in Messages |-> IF m \in taken THEN "todo" ELSE "none"]]
      /\ phase' = [phase EXCEPT ![n] = "dispatch"]
      /\ cycleAge' = [cycleAge EXCEPT ![n] = 0]
      /\ phase[n] = "idle" /\ outlived' = outlived
  BY DEF StartCycle, taken
<1>4. TimersOK'
  BY <1>3, NotifierAssumption DEF LeaseInv, TimersOK, Statuses, Outcomes
<1>5. BatchCovered'
  BY <1>2, <1>3, NotifierAssumption DEF LeaseInv, TimersOK, BatchCovered, Covered, Statuses
<1>6. ExclusiveLease'
  BY <1>2, <1>3 DEF LeaseInv, TimersOK, ExclusiveLease
<1> QED
  BY <1>4, <1>5, <1>6 DEF LeaseInv

\* Recording an outcome changes neither who holds a message nor its row.
LEMMA RecordKeeps ==
  ASSUME LeaseInv, NEW n \in Notifiers, NEW m \in Messages, NEW o \in Outcomes \ {"none"},
         TakesUp(n, m), Record(n, m, o),
         UNCHANGED <<status, leased_until, phase, cycleAge, outlived>>
  PROVE  LeaseInv'
<1>1. TimersOK'
  BY DEF LeaseInv, TimersOK, Record, TakesUp
<1>2. BatchCovered'
  BY DEF LeaseInv, TimersOK, BatchCovered, Covered, Record, TakesUp
<1>3. ExclusiveLease'
  BY DEF LeaseInv, TimersOK, ExclusiveLease, Record, TakesUp
<1> QED
  BY <1>1, <1>2, <1>3 DEF LeaseInv

LEMMA MarkSentKeeps ==
  ASSUME LeaseInv, NEW n \in Notifiers, MarkSent(n) \/ MarkSentFails(n)
  PROVE  LeaseInv'
<1>1. CASE MarkSent(n)
  <2>1. TimersOK'
    BY <1>1, NotifierAssumption DEF LeaseInv, TimersOK, MarkSent, Statuses, history
  <2>2. BatchCovered'
    <3> SUFFICES ASSUME NEW k \in Notifiers, NEW m \in Messages, batch'[k][m] # "none"
                 PROVE  /\ phase'[k] # "idle"
                        /\ m \notin outlived' => cycleAge'[k] < Lease /\ Covered(k, m)'
      BY DEF BatchCovered
    <3>1. /\ batch' = batch /\ cycleAge' = cycleAge /\ outlived' = outlived
          /\ phase' = [phase EXCEPT ![n] = "mark_failed"] /\ phase[n] = "dispatch"
          /\ status' = [q \in Messages |-> IF q \in SentIds(n) THEN "sent" ELSE status[q]]
          /\ leased_until' = [q \in Messages |-> IF q \in SentIds(n) THEN 0 ELSE leased_until[q]]
      BY <1>1 DEF MarkSent, Processed, history
    <3>2. CASE m \in SentIds(n)
      <4>1. batch[n][m] = "sent"
        BY <3>2 DEF SentIds
      <4>2. k = n \/ m \in outlived
        BY <4>1, <3>1 DEF LeaseInv, ExclusiveLease
      <4> QED
        BY <3>1, <3>2, <4>1, <4>2 DEF Covered, LeaseInv, TimersOK, BatchCovered
    <3>3. CASE m \notin SentIds(n)
      BY <3>1, <3>3 DEF LeaseInv, TimersOK, BatchCovered, Covered
    <3> QED
      BY <3>2, <3>3
  <2>3. ExclusiveLease'
    BY <1>1 DEF LeaseInv, ExclusiveLease, MarkSent, history
  <2> QED
    BY <2>1, <2>2, <2>3 DEF LeaseInv
<1>2. CASE MarkSentFails(n)
  BY <1>2 DEF LeaseInv, TimersOK, BatchCovered, Covered, ExclusiveLease, MarkSentFails, tableVars, Processed
<1> QED
  BY <1>1, <1>2

\* A cycle ends: its batch is dropped, and it wrote only rows of its batch.
LEMMA EndCycleKeeps ==
  ASSUME LeaseInv, NEW n \in Notifiers, EndCycle(n),
         status' \in [Messages -> Statuses],
         leased_until' \in [Messages -> 0 .. Lease], outlived' = outlived,
         \A m \in Messages : batch[n][m] = "none" =>
             status'[m] = status[m] /\ leased_until'[m] = leased_until[m]
  PROVE  LeaseInv'
<1>1. /\ batch' = [batch EXCEPT ![n] = NoBatch]
      /\ phase' = [phase EXCEPT ![n] = "idle"]
      /\ cycleAge' = [cycleAge EXCEPT ![n] = 0]
  BY DEF EndCycle
<1>2. TimersOK'
  BY <1>1, NotifierAssumption DEF LeaseInv, TimersOK, NoBatch, Outcomes
<1>3. \A k \in Notifiers : \A m \in Messages :
          batch'[k][m] # "none" => /\ k # n /\ batch'[k] = batch[k]
                                   /\ batch[n][m] = "none" \/ m \in outlived
  BY <1>1 DEF LeaseInv, TimersOK, ExclusiveLease, NoBatch
<1>4. BatchCovered'
  BY <1>1, <1>3 DEF LeaseInv, TimersOK, BatchCovered, Covered
<1>5. ExclusiveLease'
  BY <1>3 DEF LeaseInv, ExclusiveLease
<1> QED
  BY <1>2, <1>4, <1>5 DEF LeaseInv

LEMMA MarkFailedKeeps ==
  ASSUME LeaseInv, NEW n \in Notifiers, MarkFailed(n)
  PROVE  LeaseInv'
<1>1. status' \in [Messages -> Statuses]
  <2>1. \A m \in Messages : FailedStatus(m, batch[n][m]) \in Statuses
    BY DEF FailedStatus, Statuses
  <2> QED
    BY <2>1 DEF MarkFailed, LeaseInv, TimersOK
<1>2. leased_until' \in [Messages -> 0 .. Lease]
  BY NotifierAssumption DEF MarkFailed, LeaseInv, TimersOK
<1>3. \A m \in Messages : batch[n][m] = "none" =>
          status'[m] = status[m] /\ leased_until'[m] = leased_until[m]
  BY DEF MarkFailed, FailedIds
<1> QED
  BY <1>1, <1>2, <1>3, EndCycleKeeps DEF MarkFailed, history

LEMMA TickKeeps ==
  ASSUME LeaseInv, Tick
  PROVE  LeaseInv'
<1>1. TimersOK'
  <2>1. \A d \in 0 .. Lease : Decrement(d) \in 0 .. Lease
    BY NotifierAssumption DEF Decrement
  <2>2. leased_until' \in [Messages -> 0 .. Lease]
    BY <2>1 DEF LeaseInv, TimersOK, Tick
  <2>3. ASSUME NEW n \in Notifiers
        PROVE  (IF phase[n] = "idle" THEN 0 ELSE cycleAge[n] + 1) \in 0 .. MaxCycle
    BY NotifierAssumption DEF LeaseInv, TimersOK, Tick
  <2>4. cycleAge' \in [Notifiers -> 0 .. MaxCycle]
    BY <2>3 DEF Tick
  <2> QED
    BY <2>2, <2>4 DEF LeaseInv, TimersOK, Tick
<1>2. BatchCovered'
  <2> SUFFICES ASSUME NEW n \in Notifiers, NEW m \in Messages, batch'[n][m] # "none"
               PROVE  /\ phase'[n] # "idle"
                      /\ m \notin outlived' => cycleAge'[n] < Lease /\ Covered(n, m)'
    BY DEF BatchCovered
  <2>1. /\ batch' = batch /\ phase' = phase /\ status' = status
        /\ leased_until'[m] = Decrement(leased_until[m])
    BY DEF Tick
  <2>2. phase[n] # "idle" /\ cycleAge'[n] = cycleAge[n] + 1
    BY <2>1 DEF Tick, LeaseInv, BatchCovered
  <2>3. /\ m \notin outlived' => m \notin outlived /\ ~(cycleAge[n] + 1 >= Lease)
    BY <2>1 DEF Tick
  <2>4. cycleAge[n] \in Nat /\ leased_until[m] \in Nat /\ Lease \in Nat
    BY NotifierAssumption DEF LeaseInv, TimersOK
  <2>5. m \notin outlived => Covered(n, m)
    BY <2>1 DEF LeaseInv, BatchCovered
  <2> QED
    BY <2>1, <2>2, <2>3, <2>4, <2>5 DEF Covered, Decrement
<1>3. ExclusiveLease'
  BY DEF LeaseInv, ExclusiveLease, Tick
<1> QED
  BY <1>1, <1>2, <1>3 DEF LeaseInv

LEMMA EnqueueKeeps ==
  ASSUME LeaseInv, NEW q \in Messages, Enqueue(q)
  PROVE  LeaseInv'
  BY DEF LeaseInv, TimersOK, BatchCovered, Covered, ExclusiveLease, Enqueue, loopVars, history, Statuses

LEMMA LeaseStutter ==
  ASSUME LeaseInv, UNCHANGED <<status, leased_until, batch, phase, cycleAge, outlived>>
  PROVE  LeaseInv'
  BY DEF LeaseInv, TimersOK, BatchCovered, Covered, ExclusiveLease

LEMMA LeaseNext ==
  ASSUME LeaseInv, [Next]_vars
  PROVE  LeaseInv'
<1>1. ASSUME NEW m \in Messages, Enqueue(m) PROVE LeaseInv'
  BY <1>1, EnqueueKeeps
<1>2. ASSUME NEW p \in Recipients, SetPreference(p) PROVE LeaseInv'
  BY <1>2, LeaseStutter DEF SetPreference, tableVars, loopVars, history
<1>3. CASE SetPaused
  BY <1>3, LeaseStutter DEF SetPaused, tableVars, loopVars, history
<1>4. CASE Tick
  BY <1>4, TickKeeps
<1>5. CASE UNCHANGED vars
  BY <1>5, LeaseStutter DEF vars, tableVars, loopVars, history
<1>6. ASSUME NEW n \in Notifiers, Step(n) PROVE LeaseInv'
  <2>1. CASE StartCycle(n)
    BY <2>1, StartCycleKeeps
  <2>2. CASE MarkSent(n) \/ MarkSentFails(n)
    BY <2>2, MarkSentKeeps
  <2>3. CASE MarkFailed(n)
    BY <2>3, MarkFailedKeeps
  <2>4. CASE MarkFailedFails(n) \/ Kill(n)
    <3>1. EndCycle(n) /\ UNCHANGED <<status, leased_until, outlived>>
      BY <2>4 DEF MarkFailedFails, Kill, tableVars
    <3> QED
      BY <3>1, EndCycleKeeps DEF LeaseInv, TimersOK
  <2>5. ASSUME NEW m \in Messages,
               Inhibit(n, m) \/ SkipBackoff(n, m) \/ RenderFails(n, m) \/ Send(n, m)
        PROVE  LeaseInv'
    <3>1. TakesUp(n, m) /\ UNCHANGED <<status, leased_until, phase, cycleAge, outlived>>
      BY <2>5 DEF Inhibit, SkipBackoff, RenderFails, Send, tableVars, history
    <3>2. \E o \in Outcomes \ {"none"} : Record(n, m, o)
      BY <2>5 DEF Inhibit, SkipBackoff, RenderFails, Send, RecordFailure, Outcomes
    <3> QED
      BY <3>1, <3>2, RecordKeeps
  <2> QED
    BY <1>6, <2>1, <2>2, <2>3, <2>4, <2>5 DEF Step
<1> QED
  BY <1>1, <1>2, <1>3, <1>4, <1>5, <1>6 DEF Next

\* The lease invariant holds throughout.
LEMMA LeaseInvariant == Spec => []LeaseInv
<1>1. LeaseInv /\ [Next]_vars => LeaseInv'
  BY LeaseNext
<1> QED
  BY LeaseInit, <1>1, PTL DEF Spec

\* Two replicas work on the same message only after a cycle held it until its
\* lease ran out, for any number of replicas, messages, batch sizes, failures
\* and any duration of cycles (acquire_pending_notification_messages).
THEOREM LeaseExcludes == Spec => []ExclusiveLease
  BY LeaseInvariant, PTL DEF LeaseInv

\* The unconditional bulk writes overwrite a final status only after a lease of
\* the message ran out, and the acquire never takes one up again.
THEOREM FinalStaysFinal == Spec => TerminalIsFinal
<1>1. ASSUME LeaseInv, [Next]_vars, NEW m \in Messages, status[m] \in Terminal
      PROVE  /\ m \notin outlived => status'[m] = status[m]
             /\ status'[m] # "leased"
  <2>0. status[m] # "leased"
    BY <1>1 DEF Terminal
  <2>1. m \notin Acquirable
    BY <1>1 DEF Acquirable, Terminal
  <2>2. ASSUME NEW n \in Notifiers, batch[n][m] # "none", m \notin outlived
        PROVE  status[m] = "sent" /\ batch[n][m] = "sent"
    BY <1>1, <2>2 DEF LeaseInv, BatchCovered, Covered, Terminal
  <2>3. ASSUME NEW q \in Messages, Enqueue(q) PROVE status'[m] = status[m]
    BY <1>1, <2>3 DEF Enqueue, Terminal, LeaseInv, TimersOK
  <2>4. ASSUME NEW n \in Notifiers, Step(n)
        PROVE  (m \notin outlived => status'[m] = status[m]) /\ status'[m] # "leased"
    <3>1. CASE StartCycle(n)
      BY <2>0, <2>1, <3>1 DEF StartCycle, Oldest
    <3>2. CASE MarkSent(n)
      BY <2>0, <2>2, <3>2 DEF MarkSent, SentIds
    <3>3. CASE MarkFailed(n)
      <4>1. FailedStatus(m, batch[n][m]) # "leased"
        BY DEF FailedStatus
      <4> QED
        BY <2>0, <2>2, <3>3, <4>1 DEF MarkFailed, FailedIds
    <3>4. CASE MarkSentFails(n) \/ MarkFailedFails(n) \/ Kill(n)
      BY <2>0, <3>4 DEF MarkSentFails, MarkFailedFails, Kill, tableVars
    <3>5. CASE \E q \in Messages : Inhibit(n, q) \/ SkipBackoff(n, q) \/ RenderFails(n, q) \/ Send(n, q)
      BY <2>0, <3>5 DEF Inhibit, SkipBackoff, RenderFails, Send, tableVars
    <3> QED
      BY <2>4, <3>1, <3>2, <3>3, <3>4, <3>5 DEF Step
  <2> QED
    BY <1>1, <2>0, <2>3, <2>4 DEF Next, SetPreference, SetPaused, Tick, vars, tableVars
<1>2. LeaseInv /\ [Next]_vars =>
        [\A m \in Messages : status[m] \in Terminal /\ status'[m] # status[m] =>
            m \in outlived /\ status'[m] # "leased"]_vars
  BY <1>1
<1> QED
  BY LeaseInvariant, <1>2, PTL DEF Spec, TerminalIsFinal

-----------------------------------------------------------------------------
(* The budget of attempts: what bounds the hand-overs to a transport.       *)

\* Cycle n still has to write the outcome of m ...
Owes(n, m) == batch[n][m] # "none" /\ ~(batch[n][m] = "sent" /\ phase[n] = "mark_failed")
\* ... and has handed m to its transport.
Unwritten(n, m) ==
    \/ batch[n][m] \in {"temporary_failure", "permanent_failure"}
    \/ batch[n][m] = "sent" /\ phase[n] = "dispatch"

Owers(m)   == {n \in Notifiers : Owes(n, m)}
Unsaved(m) == {n \in Notifiers : Unwritten(n, m)}

\* Cycles that may still write m beyond the attempts it has left.
Slack(m) == IF m \in outlived THEN Cardinality(Notifiers) - 1 ELSE 0

\* Each cycle that has m found an attempt left when it acquired m, and writes
\* at most one; each send is counted in attempt_count, still to be written, or
\* lost by a failure.
AttemptsCount(m) ==
    /\ attempt_count[m] + Cardinality(Owers(m)) <= MaxAttempts + Slack(m)
    /\ sends[m] <= attempt_count[m] + failures + Cardinality(Unsaved(m))

\* A message that is delivered is marked sent, or about to be, unless a
\* failure came between.
Delivering(n, m) == batch[n][m] = "sent" /\ phase[n] = "dispatch"
DeliveryCounts(m) ==
    \/ delivered[m] <= failures
    \/ /\ delivered[m] <= failures + 1
       /\ status[m] = "sent" \/ \E n \in Notifiers : Delivering(n, m)

CountersOK ==
    /\ attempt_count \in [Messages -> Nat]
    /\ sends \in [Messages -> Nat] /\ delivered \in [Messages -> Nat]
    /\ failures \in Nat

BudgetInv ==
    /\ CountersOK
    /\ \A m \in Messages : AttemptsCount(m) /\ (m \notin outlived => DeliveryCounts(m))

\* Sets of replicas: sizes, and what one replica more or less makes of them.
LEMMA ReplicaSets ==
  ASSUME NEW S \in SUBSET Notifiers, NEW T \in SUBSET Notifiers, NEW n \in Notifiers
  PROVE  /\ Cardinality(S) \in Nat
         /\ S \subseteq T => Cardinality(S) <= Cardinality(T)
         /\ S \subseteq T \cup {n} => Cardinality(S) <= Cardinality(T) + 1
         /\ n \in T /\ S \subseteq T \ {n} => Cardinality(S) + 1 <= Cardinality(T)
<1>1. IsFiniteSet(S) /\ IsFiniteSet(T)
  BY NotifierAssumption, FS_Subset
<1>2. Cardinality(S) \in Nat /\ Cardinality(T) \in Nat
  BY <1>1, FS_CardinalityType
<1>3. S \subseteq T => Cardinality(S) <= Cardinality(T)
  BY <1>1, FS_Subset
<1>4. ASSUME S \subseteq T \cup {n} PROVE Cardinality(S) <= Cardinality(T) + 1
  <2>1. /\ IsFiniteSet(T \cup {n})
        /\ Cardinality(T \cup {n}) = Cardinality(T) \/ Cardinality(T \cup {n}) = Cardinality(T) + 1
    BY <1>1, FS_AddElement
  <2>2. Cardinality(S) <= Cardinality(T \cup {n})
    BY <1>4, <2>1, FS_Subset
  <2> QED
    BY <1>2, <2>1, <2>2
<1>5. ASSUME n \in T, S \subseteq T \ {n} PROVE Cardinality(S) + 1 <= Cardinality(T)
  <2>1. IsFiniteSet(T \ {n}) /\ Cardinality(T \ {n}) = Cardinality(T) - 1
    BY <1>1, <1>5, FS_RemoveElement
  <2>2. Cardinality(S) <= Cardinality(T \ {n})
    BY <1>5, <2>1, FS_Subset
  <2> QED
    BY <1>2, <2>1, <2>2
<1> QED
  BY <1>2, <1>3, <1>4, <1>5

LEMMA ReplicaCount == Cardinality(Notifiers) \in Nat /\ Cardinality(Notifiers) >= 1
<1>1. PICK n \in Notifiers : TRUE
  BY NotifierAssumption
<1>2. Cardinality({}) + 1 <= Cardinality(Notifiers)
  BY <1>1, ReplicaSets
<1> QED
  BY <1>1, <1>2, ReplicaSets, FS_EmptySet

LEMMA OwersAreReplicas ==
  ASSUME NEW m \in Messages
  PROVE  /\ Owers(m) \in SUBSET Notifiers /\ Owers(m)' \in SUBSET Notifiers
         /\ Unsaved(m) \in SUBSET Notifiers /\ Unsaved(m)' \in SUBSET Notifiers
  BY DEF Owers, Unsaved

LEMMA BudgetInit == Init => BudgetInv
<1> SUFFICES ASSUME Init PROVE BudgetInv
  OBVIOUS
<1>1. CountersOK
  BY DEF Init, CountersOK
<1>2. ASSUME NEW m \in Messages PROVE AttemptsCount(m) /\ DeliveryCounts(m)
  <2>1. Owers(m) = {} /\ Unsaved(m) = {}
    BY DEF Init, NoBatch, Owers, Owes, Unsaved, Unwritten
  <2>2. Cardinality({}) = 0
    BY FS_EmptySet
  <2>3. attempt_count[m] = 0 /\ sends[m] = 0 /\ delivered[m] = 0 /\ failures = 0 /\ outlived = {}
    BY DEF Init
  <2> QED
    BY <2>1, <2>2, <2>3, NotifierAssumption DEF AttemptsCount, DeliveryCounts, Slack
<1> QED
  BY <1>1, <1>2 DEF BudgetInv

\* The four ways in which a step may touch the attempts of a message.
LEMMA AttemptsAside ==
  ASSUME BudgetInv, CountersOK', NEW m \in Messages,
         attempt_count'[m] = attempt_count[m], sends'[m] = sends[m], failures' >= failures,
         outlived \subseteq outlived',
         Owers(m)' \subseteq Owers(m), Unsaved(m) \subseteq Unsaved(m)'
  PROVE  AttemptsCount(m)'
<1>1. /\ attempt_count[m] \in Nat /\ sends[m] \in Nat /\ failures \in Nat /\ failures' \in Nat
      /\ AttemptsCount(m)
  BY DEF BudgetInv, CountersOK
<1>2. /\ Cardinality(Owers(m)) \in Nat /\ Cardinality(Owers(m)') \in Nat
      /\ Cardinality(Unsaved(m)) \in Nat /\ Cardinality(Unsaved(m)') \in Nat
      /\ Cardinality(Owers(m)') <= Cardinality(Owers(m))
      /\ Cardinality(Unsaved(m)) <= Cardinality(Unsaved(m)')
  BY OwersAreReplicas, ReplicaSets, NotifierAssumption
<1>3. Slack(m) \in Int /\ Slack(m)' \in Int /\ Slack(m) <= Slack(m)'
  BY ReplicaCount DEF Slack
<1> QED
  BY <1>1, <1>2, <1>3, NotifierAssumption DEF AttemptsCount

LEMMA AttemptsAcquired ==
  ASSUME BudgetInv, NEW m \in Messages, NEW n \in Notifiers,
         attempt_count[m] < MaxAttempts,
         UNCHANGED <<attempt_count, sends, outlived>>,
         failures' >= failures, failures' \in Nat,
         m \notin outlived => Owers(m)' \subseteq {n}, Unsaved(m) \subseteq Unsaved(m)'
  PROVE  AttemptsCount(m)'
<1>1. /\ attempt_count[m] \in Nat /\ sends[m] \in Nat /\ failures \in Nat
      /\ AttemptsCount(m)
  BY DEF BudgetInv, CountersOK
<1>2. /\ Cardinality(Owers(m)') \in Nat
      /\ Cardinality(Unsaved(m)) \in Nat /\ Cardinality(Unsaved(m)') \in Nat
      /\ Cardinality(Owers(m)') <= Cardinality(Notifiers)
      /\ Cardinality(Unsaved(m)) <= Cardinality(Unsaved(m)')
  BY OwersAreReplicas, ReplicaSets
<1>3. m \notin outlived => Cardinality(Owers(m)') <= 1
  <2>1. {} \in SUBSET Notifiers /\ {n} = {} \cup {n}
    OBVIOUS
  <2>2. Owers(m)' \subseteq {} \cup {n} => Cardinality(Owers(m)') <= Cardinality({}) + 1
    BY <2>1, OwersAreReplicas, ReplicaSets
  <2> QED
    BY <2>1, <2>2, FS_EmptySet
<1>4. attempt_count'[m] = attempt_count[m] /\ sends'[m] = sends[m] /\ Slack(m)' = Slack(m)
  BY DEF Slack
<1>5. attempt_count[m] + Cardinality(Owers(m)') <= MaxAttempts + Slack(m)
  BY <1>1, <1>2, <1>3, ReplicaCount, NotifierAssumption DEF Slack
<1>6. sends[m] <= attempt_count[m] + failures' + Cardinality(Unsaved(m)')
  BY <1>1, <1>2 DEF AttemptsCount
<1> QED
  BY <1>4, <1>5, <1>6 DEF AttemptsCount

LEMMA AttemptsSent ==
  ASSUME BudgetInv, NEW m \in Messages, NEW n \in Notifiers,
         sends'[m] = sends[m] + 1,
         UNCHANGED <<attempt_count, outlived>>, failures' >= failures, failures' \in Nat,
         Owers(m)' \subseteq Owers(m),
         n \in Unsaved(m)', Unsaved(m) \subseteq Unsaved(m)' \ {n}
  PROVE  AttemptsCount(m)'
<1>1. /\ attempt_count[m] \in Nat /\ sends[m] \in Nat /\ failures \in Nat
      /\ AttemptsCount(m)
  BY DEF BudgetInv, CountersOK
<1>2. /\ Cardinality(Owers(m)) \in Nat /\ Cardinality(Owers(m)') \in Nat
      /\ Cardinality(Unsaved(m)) \in Nat /\ Cardinality(Unsaved(m)') \in Nat
      /\ Cardinality(Owers(m)') <= Cardinality(Owers(m))
      /\ Cardinality(Unsaved(m)) + 1 <= Cardinality(Unsaved(m)')
  BY OwersAreReplicas, ReplicaSets
<1>3. Slack(m)' = Slack(m) /\ Slack(m) \in Int
  BY ReplicaCount DEF Slack
<1> QED
  BY <1>1, <1>2, <1>3, NotifierAssumption DEF AttemptsCount

\* A cycle stops owing m, because it wrote it or because it failed to.
LEMMA AttemptsWritten ==
  ASSUME BudgetInv, NEW m \in Messages, NEW n \in Notifiers,
         UNCHANGED <<sends, outlived>>, Unsaved(m) \subseteq Unsaved(m)' \cup {n},
         \/ /\ attempt_count'[m] = attempt_count[m] + 1 /\ failures' = failures
            /\ n \in Owers(m) /\ Owers(m)' \subseteq Owers(m) \ {n}
         \/ /\ attempt_count'[m] = attempt_count[m] /\ failures' = failures + 1
            /\ Owers(m)' \subseteq Owers(m)
  PROVE  AttemptsCount(m)'
<1>1. /\ attempt_count[m] \in Nat /\ sends[m] \in Nat /\ failures \in Nat
      /\ AttemptsCount(m)
  BY DEF BudgetInv, CountersOK
<1>2. /\ Cardinality(Owers(m)) \in Nat /\ Cardinality(Owers(m)') \in Nat
      /\ Cardinality(Unsaved(m)) \in Nat /\ Cardinality(Unsaved(m)') \in Nat
      /\ Owers(m)' \subseteq Owers(m) => Cardinality(Owers(m)') <= Cardinality(Owers(m))
      /\ n \in Owers(m) /\ Owers(m)' \subseteq Owers(m) \ {n}
            => Cardinality(Owers(m)') + 1 <= Cardinality(Owers(m))
      /\ Cardinality(Unsaved(m)) <= Cardinality(Unsaved(m)') + 1
  BY OwersAreReplicas, ReplicaSets
<1>3. Slack(m)' = Slack(m) /\ Slack(m) \in Int
  BY ReplicaCount DEF Slack
<1>4. sends'[m] = sends[m]
  OBVIOUS
<1> QED
  BY <1>1, <1>2, <1>3, <1>4, NotifierAssumption DEF AttemptsCount

\* What a message's row and its batch entry mean for each other.
LEMMA HeldIsLeased ==
  ASSUME LeaseInv, NEW n \in Notifiers, NEW m \in Messages, Owes(n, m), m \notin outlived
  PROVE  /\ status[m] = "leased"
         /\ \A k \in Notifiers : batch[k][m] # "none" => k = n
  BY DEF Owes, LeaseInv, BatchCovered, Covered, ExclusiveLease

\* A step that leaves the deliveries of m alone.
LEMMA DeliveryAside ==
  ASSUME BudgetInv, NEW m \in Messages, m \notin outlived,
         delivered'[m] = delivered[m], failures' >= failures, failures' \in Nat,
         status[m] = "sent" => status'[m] = "sent",
         \A n \in Notifiers : Delivering(n, m) => Delivering(n, m)' \/ status'[m] = "sent"
  PROVE  DeliveryCounts(m)'
<1>1. failures \in Nat /\ delivered[m] \in Nat /\ DeliveryCounts(m)
  BY DEF BudgetInv, CountersOK
<1> QED
  BY <1>1 DEF DeliveryCounts

\* A step of no cycle, or of a cycle on other messages.
LEMMA BudgetAside ==
  ASSUME BudgetInv, CountersOK', NEW m \in Messages,
         attempt_count'[m] = attempt_count[m], sends'[m] = sends[m], delivered'[m] = delivered[m],
         failures' >= failures, outlived \subseteq outlived',
         status'[m] = status[m] \/ status[m] # "sent",
         \A n \in Notifiers : /\ Owes(n, m)' => Owes(n, m)
                              /\ Unwritten(n, m) => Unwritten(n, m)'
                              /\ Delivering(n, m) => Delivering(n, m)'
  PROVE  AttemptsCount(m)' /\ (m \notin outlived' => DeliveryCounts(m)')
<1>1. Owers(m)' \subseteq Owers(m)
  BY DEF Owers
<1>2. Unsaved(m) \subseteq Unsaved(m)'
  BY DEF Unsaved
<1>3. failures' \in Nat
  BY DEF CountersOK
<1>4. AttemptsCount(m)'
  BY <1>1, <1>2, AttemptsAside
<1>5. m \notin outlived' => DeliveryCounts(m)'
  BY <1>3, DeliveryAside
<1> QED
  BY <1>4, <1>5

LEMMA StartCycleBudget ==
  ASSUME LeaseInv, BudgetInv, NEW n \in Notifiers, StartCycle(n)
  PROVE  BudgetInv'
<1> DEFINE taken == Oldest(Acquirable)
<1>1. taken \subseteq Acquirable
  BY DEF Oldest
<1>2. /\ batch' = [batch EXCEPT ![n] = [m \in Messages |-> IF m \in taken THEN "todo" ELSE "none"]]
      /\ status' = [m \in Messages |-> IF m \in taken THEN "leased" ELSE status[m]]
      /\ phase' = [phase EXCEPT ![n] = "dispatch"] /\ phase[n] = "idle"
      /\ UNCHANGED <<attempt_count, sends, delivered, outlived>>
  BY DEF StartCycle
<1>3. failures' \in Nat /\ failures' >= failures
  BY DEF StartCycle, PassesUnlessRead, BudgetInv, CountersOK
<1>4. CountersOK'
  BY <1>2, <1>3 DEF BudgetInv, CountersOK
<1> HIDE DEF taken
<1>5. \A m \in Messages : batch[n][m] = "none"
  BY <1>2 DEF LeaseInv, BatchCovered
<1>6. ASSUME NEW m \in Messages
      PROVE  \A k \in Notifiers : /\ Owes(k, m)' => Owes(k, m) \/ (k = n /\ m \in taken)
                                  /\ Unwritten(k, m) => Unwritten(k, m)'
                                  /\ Delivering(k, m) => Delivering(k, m)'
  <2>1. \A k \in Notifiers \ {n} : batch'[k] = batch[k] /\ phase'[k] = phase[k]
    BY <1>2 DEF LeaseInv, TimersOK
  <2>2. batch'[n][m] = (IF m \in taken THEN "todo" ELSE "none") /\ batch[n][m] = "none"
    BY <1>2, <1>5 DEF LeaseInv, TimersOK
  <2> QED
    BY <2>1, <2>2 DEF Owes, Unwritten, Delivering
<1>7. ASSUME NEW m \in Messages, m \notin taken
      PROVE  AttemptsCount(m)' /\ (m \notin outlived' => DeliveryCounts(m)')
  BY <1>2, <1>3, <1>4, <1>6, <1>7, BudgetAside
<1>8. ASSUME NEW m \in Messages, m \in taken
      PROVE  AttemptsCount(m)' /\ (m \notin outlived' => DeliveryCounts(m)')
  <2>1. attempt_count[m] < MaxAttempts /\ status[m] # "sent"
    BY <1>1, <1>8 DEF Acquirable
  <2>2. m \notin outlived => \A k \in Notifiers : batch[k][m] = "none"
    BY <1>1, <1>8, BatchNotAcquirable
  <2>3. m \notin outlived => Owers(m)' \subseteq {n}
    BY <1>6, <2>2 DEF Owers, Owes
  <2>4. Unsaved(m) \subseteq Unsaved(m)'
    BY <1>6 DEF Unsaved
  <2>5. AttemptsCount(m)'
    BY <1>2, <1>3, <2>1, <2>3, <2>4, AttemptsAcquired
  <2>6. m \notin outlived => DeliveryCounts(m)'
    BY <1>2, <1>3, <1>6, <2>1, DeliveryAside
  <2> QED
    BY <1>2, <2>5, <2>6
<1> QED
  BY <1>4, <1>7, <1>8 DEF BudgetInv

\* A cycle takes up message q: nothing is sent, or one send and its outcome.
LEMMA OutcomeBudget ==
  ASSUME LeaseInv, BudgetInv, NEW n \in Notifiers, NEW q \in Messages, TakesUp(n, q),
         NEW o \in Outcomes \ {"none"}, Record(n, q, o),
         UNCHANGED <<status, attempt_count, phase, outlived>>,
         failures' \in Nat, failures' >= failures,
         \/ UNCHANGED <<sends, delivered>>
         \/ /\ sends' = [sends EXCEPT ![q] = @ + 1]
            /\ \/ o = "sent" /\ delivered' = [delivered EXCEPT ![q] = @ + 1]
               \/ o \in {"temporary_failure", "permanent_failure"} /\ UNCHANGED delivered
  PROVE  BudgetInv'
<1>1. /\ batch' = [batch EXCEPT ![n][q] = o] /\ phase[n] = "dispatch" /\ batch[n][q] = "todo"
  BY DEF Record, TakesUp
<1>2. CountersOK'
  BY DEF BudgetInv, CountersOK
<1>3. /\ batch'[n][q] = o
      /\ \A k \in Notifiers, m \in Messages : <<k, m>> # <<n, q>> => batch'[k][m] = batch[k][m]
  BY <1>1 DEF LeaseInv, TimersOK
<1>4. ASSUME NEW m \in Messages, m # q
      PROVE  AttemptsCount(m)' /\ (m \notin outlived' => DeliveryCounts(m)')
  <2>1. sends'[m] = sends[m] /\ delivered'[m] = delivered[m]
    BY <1>4 DEF BudgetInv, CountersOK
  <2>2. \A k \in Notifiers : batch'[k][m] = batch[k][m]
    BY <1>3, <1>4
  <2> QED
    BY <1>2, <2>1, <2>2, BudgetAside DEF Owes, Unwritten, Delivering
<1>5. \A k \in Notifiers : (Owes(k, q)' => Owes(k, q)) /\ (k # n => (Unwritten(k, q)' <=> Unwritten(k, q)))
  BY <1>1, <1>3 DEF Owes, Unwritten
<1>6. ~Unwritten(n, q) /\ Owes(n, q)
  BY <1>1 DEF Unwritten, Owes
<1>7. CASE UNCHANGED <<sends, delivered>>
  <2>1. \A k \in Notifiers : (Unwritten(k, q) => Unwritten(k, q)') /\ (Delivering(k, q) => Delivering(k, q)')
    BY <1>1, <1>3, <1>5, <1>6 DEF Delivering
  <2>2. AttemptsCount(q)' /\ (q \notin outlived' => DeliveryCounts(q)')
    BY <1>2, <1>5, <1>7, <2>1, BudgetAside
  <2> QED
    BY <1>2, <1>4, <2>2 DEF BudgetInv
<1>8. CASE ~UNCHANGED <<sends, delivered>>
  <2>1. sends'[q] = sends[q] + 1
    BY <1>8 DEF BudgetInv, CountersOK
  <2>2. Unwritten(n, q)'
    BY <1>1, <1>3, <1>8 DEF Unwritten
  <2>3. /\ Owers(q)' \subseteq Owers(q)
        /\ n \in Unsaved(q)' /\ Unsaved(q) \subseteq Unsaved(q)' \ {n}
    BY <1>5, <1>6, <2>2 DEF Owers, Unsaved
  <2>4. AttemptsCount(q)'
    BY <2>1, <2>3, AttemptsSent
  <2>5. ASSUME q \notin outlived PROVE DeliveryCounts(q)'
    <3>1. status[q] = "leased" /\ \A k \in Notifiers : batch[k][q] # "none" => k = n
      BY <1>6, <2>5, HeldIsLeased
    <3>2. ~\E k \in Notifiers : Delivering(k, q)
      BY <1>1, <3>1 DEF Delivering
    <3>3. failures \in Nat /\ delivered[q] \in Nat /\ delivered[q] <= failures
      BY <2>5, <3>1, <3>2 DEF BudgetInv, CountersOK, DeliveryCounts
    <3>4. delivered'[q] = delivered[q] \/ (delivered'[q] = delivered[q] + 1 /\ Delivering(n, q)')
      BY <1>1, <1>3, <1>8 DEF BudgetInv, CountersOK, Delivering
    <3> QED
      BY <3>3, <3>4 DEF DeliveryCounts
  <2> QED
    BY <1>2, <1>4, <2>4, <2>5 DEF BudgetInv
<1> QED
  BY <1>7, <1>8

\* A bulk write stores the outcomes of the cycle's rows in W.
LEMMA WriteBudget ==
  ASSUME LeaseInv, BudgetInv, NEW n \in Notifiers, NEW W \in SUBSET Messages,
         attempt_count' = [m \in Messages |-> attempt_count[m] + (IF m \in W THEN 1 ELSE 0)],
         \A m \in Messages \ W : status'[m] = status[m],
         \A m \in Messages : Owes(n, m)' => Owes(n, m) /\ m \notin W,
         \A m \in W : Owes(n, m) /\ (Delivering(n, m) => status'[m] = "sent"),
         \A m \in Messages \ W : (Unwritten(n, m) => Unwritten(n, m)')
                                 /\ (Delivering(n, m) => Delivering(n, m)'),
         \A k \in Notifiers \ {n} : batch'[k] = batch[k] /\ phase'[k] = phase[k],
         UNCHANGED history
  PROVE  BudgetInv'
<1>1. CountersOK' /\ UNCHANGED <<sends, delivered, failures, outlived>> /\ failures \in Nat
  BY DEF BudgetInv, CountersOK, history
<1>2. \A k \in Notifiers \ {n} : \A m \in Messages :
          /\ Owes(k, m)' <=> Owes(k, m)
          /\ Unwritten(k, m)' <=> Unwritten(k, m)
          /\ Delivering(k, m)' <=> Delivering(k, m)
  BY DEF Owes, Unwritten, Delivering
<1>3. ASSUME NEW m \in Messages \ W
      PROVE  AttemptsCount(m)' /\ (m \notin outlived' => DeliveryCounts(m)')
  <2>1. attempt_count'[m] = attempt_count[m] /\ status'[m] = status[m]
    BY <1>3 DEF BudgetInv, CountersOK
  <2>2. \A k \in Notifiers : /\ Owes(k, m)' => Owes(k, m)
                             /\ Unwritten(k, m) => Unwritten(k, m)'
                             /\ Delivering(k, m) => Delivering(k, m)'
    BY <1>2, <1>3
  <2> QED
    BY <1>1, <2>1, <2>2, BudgetAside
<1>4. ASSUME NEW m \in W
      PROVE  AttemptsCount(m)' /\ (m \notin outlived' => DeliveryCounts(m)')
  <2>1. attempt_count'[m] = attempt_count[m] + 1
    BY <1>4
  <2>2. /\ n \in Owers(m) /\ Owers(m)' \subseteq Owers(m) \ {n}
        /\ Unsaved(m) \subseteq Unsaved(m)' \cup {n}
    BY <1>2, <1>4 DEF Owers, Unsaved
  <2>3. AttemptsCount(m)'
    BY <1>1, <2>1, <2>2, AttemptsWritten
  <2>4. ASSUME m \notin outlived PROVE DeliveryCounts(m)'
    <3>1. status[m] = "leased" /\ \A k \in Notifiers : batch[k][m] # "none" => k = n
      BY <1>4, <2>4, HeldIsLeased
    <3>2. \A k \in Notifiers : Delivering(k, m) => status'[m] = "sent"
      BY <1>4, <3>1 DEF Delivering
    <3> QED
      BY <1>1, <2>4, <3>1, <3>2, DeliveryAside
  <2> QED
    BY <1>1, <2>3, <2>4
<1> QED
  BY <1>1, <1>3, <1>4 DEF BudgetInv

\* A failure: what the cycle had not written is covered by the failure.
LEMMA FailureBudget ==
  ASSUME LeaseInv, BudgetInv, NEW n \in Notifiers, failures' = failures + 1,
         \A m \in Messages : Owes(n, m)' => Owes(n, m),
         \A k \in Notifiers \ {n} : batch'[k] = batch[k] /\ phase'[k] = phase[k],
         UNCHANGED <<attempt_count, sends, delivered, outlived>>
  PROVE  BudgetInv'
<1>1. failures \in Nat /\ CountersOK'
  BY DEF BudgetInv, CountersOK
<1>2. ASSUME NEW m \in Messages PROVE AttemptsCount(m)'
  <2>1. Owers(m)' \subseteq Owers(m) /\ Unsaved(m) \subseteq Unsaved(m)' \cup {n}
    BY DEF Owers, Owes, Unsaved, Unwritten
  <2> QED
    BY <2>1, AttemptsWritten
<1>3. ASSUME NEW m \in Messages, m \notin outlived PROVE DeliveryCounts(m)'
  <2>1. delivered[m] \in Nat /\ DeliveryCounts(m)
    BY <1>3 DEF BudgetInv, CountersOK
  <2> QED
    BY <1>1, <2>1 DEF DeliveryCounts
<1> QED
  BY <1>1, <1>2, <1>3 DEF BudgetInv

LEMMA BudgetNext ==
  ASSUME LeaseInv, BudgetInv, [Next]_vars
  PROVE  BudgetInv'
<1>1. ASSUME UNCHANGED <<attempt_count, batch, phase, sends, delivered, failures>>,
             outlived \subseteq outlived',
             \A m \in Messages : status'[m] = status[m] \/ status[m] = "absent"
      PROVE  BudgetInv'
  <2>1. CountersOK' /\ failures \in Nat
    BY <1>1 DEF BudgetInv, CountersOK
  <2>2. ASSUME NEW m \in Messages
        PROVE  AttemptsCount(m)' /\ (m \notin outlived' => DeliveryCounts(m)')
    BY <1>1, <2>1, BudgetAside DEF Owes, Unwritten, Delivering
  <2> QED
    BY <2>1, <2>2 DEF BudgetInv
<1>2. ASSUME NEW q \in Messages, Enqueue(q) PROVE BudgetInv'
  BY <1>1, <1>2 DEF Enqueue, loopVars, history, LeaseInv, TimersOK
<1>3. ASSUME NEW p \in Recipients, SetPreference(p) PROVE BudgetInv'
  BY <1>1, <1>3 DEF SetPreference, tableVars, loopVars, history
<1>4. CASE SetPaused \/ UNCHANGED vars
  BY <1>1, <1>4 DEF SetPaused, vars, tableVars, loopVars, history
<1>5. CASE Tick
  BY <1>1, <1>5 DEF Tick
<1>6. ASSUME NEW n \in Notifiers, Step(n) PROVE BudgetInv'
  <2>1. CASE StartCycle(n)
    BY <2>1, StartCycleBudget
  <2>2. CASE MarkSent(n)
    <3> DEFINE W == SentIds(n)
    <3>1. /\ W \in SUBSET Messages /\ phase[n] = "dispatch"
          /\ \A m \in Messages \ W : status'[m] = status[m]
          /\ \A m \in W : status'[m] = "sent"
          /\ batch' = batch /\ phase' = [phase EXCEPT ![n] = "mark_failed"]
      BY <2>2 DEF MarkSent, SentIds, Processed
    <3>2. attempt_count' = [m \in Messages |-> attempt_count[m] + (IF m \in W THEN 1 ELSE 0)]
      BY <2>2 DEF MarkSent
    <3>3. \A m \in Messages : m \in W <=> batch[n][m] = "sent"
      BY DEF SentIds
    <3>4. /\ phase'[n] = "mark_failed"
          /\ \A k \in Notifiers \ {n} : batch'[k] = batch[k] /\ phase'[k] = phase[k]
      BY <3>1 DEF LeaseInv, TimersOK
    <3> HIDE DEF W
    <3>5. \A m \in Messages : Owes(n, m)' => Owes(n, m) /\ m \notin W
      BY <3>1, <3>3, <3>4 DEF Owes
    <3>6. \A m \in W : Owes(n, m) /\ (Delivering(n, m) => status'[m] = "sent")
      BY <3>1, <3>3 DEF Owes
    <3>7. \A m \in Messages \ W : (Unwritten(n, m) => Unwritten(n, m)')
                                  /\ (Delivering(n, m) => Delivering(n, m)')
      BY <3>1, <3>3 DEF Unwritten, Delivering
    <3>8. UNCHANGED history
      BY <2>2 DEF MarkSent
    <3> QED
      BY <3>1, <3>2, <3>4, <3>5, <3>6, <3>7, <3>8, WriteBudget
  <2>3. CASE MarkFailed(n)
    <3> DEFINE W == FailedIds(n)
    <3>1. /\ W \in SUBSET Messages /\ phase[n] = "mark_failed"
          /\ \A m \in Messages \ W : status'[m] = status[m]
          /\ batch' = [batch EXCEPT ![n] = NoBatch] /\ phase' = [phase EXCEPT ![n] = "idle"]
      BY <2>3 DEF MarkFailed, FailedIds, EndCycle
    <3>2. attempt_count' = [m \in Messages |-> attempt_count[m] + (IF m \in W THEN 1 ELSE 0)]
      BY <2>3 DEF MarkFailed
    <3>3. \A m \in Messages : m \in W <=> batch[n][m] \notin {"none", "sent"}
      BY DEF FailedIds
    <3>4. /\ \A m \in Messages : batch'[n][m] = "none"
          /\ \A k \in Notifiers \ {n} : batch'[k] = batch[k] /\ phase'[k] = phase[k]
      BY <3>1 DEF LeaseInv, TimersOK, NoBatch
    <3> HIDE DEF W
    <3>5. \A m \in Messages : Owes(n, m)' => Owes(n, m) /\ m \notin W
      BY <3>4 DEF Owes
    <3>6. \A m \in W : Owes(n, m) /\ (Delivering(n, m) => status'[m] = "sent")
      BY <3>1, <3>3 DEF Owes, Delivering
    <3>7. \A m \in Messages \ W : (Unwritten(n, m) => Unwritten(n, m)')
                                  /\ (Delivering(n, m) => Delivering(n, m)')
      BY <3>1, <3>3 DEF Unwritten, Delivering
    <3>8. UNCHANGED history
      BY <2>3 DEF MarkFailed
    <3> QED
      BY <3>1, <3>2, <3>4, <3>5, <3>6, <3>7, <3>8, WriteBudget
  <2>4. CASE MarkSentFails(n)
    <3>1. /\ failures' = failures + 1 /\ batch' = batch
          /\ phase' = [phase EXCEPT ![n] = "mark_failed"] /\ phase[n] = "dispatch"
          /\ UNCHANGED <<attempt_count, sends, delivered, outlived>>
      BY <2>4 DEF MarkSentFails, Fails, tableVars, Processed
    <3>2. \A k \in Notifiers \ {n} : batch'[k] = batch[k] /\ phase'[k] = phase[k]
      BY <3>1 DEF LeaseInv, TimersOK
    <3>3. \A m \in Messages : Owes(n, m)' => Owes(n, m)
      BY <3>1 DEF Owes, LeaseInv, TimersOK
    <3> QED
      BY <3>1, <3>2, <3>3, FailureBudget
  <2>5. CASE MarkFailedFails(n) \/ Kill(n)
    <3>1. /\ failures' = failures + 1
          /\ batch' = [batch EXCEPT ![n] = NoBatch] /\ phase' = [phase EXCEPT ![n] = "idle"]
          /\ UNCHANGED <<attempt_count, sends, delivered, outlived>>
      BY <2>5 DEF MarkFailedFails, Kill, EndCycle, Fails, tableVars
    <3>2. /\ \A m \in Messages : batch'[n][m] = "none"
          /\ \A k \in Notifiers \ {n} : batch'[k] = batch[k] /\ phase'[k] = phase[k]
      BY <3>1 DEF LeaseInv, TimersOK, NoBatch
    <3>3. \A m \in Messages : Owes(n, m)' => Owes(n, m)
      BY <3>2 DEF Owes
    <3> QED
      BY <3>1, <3>2, <3>3, FailureBudget
  <2>6. ASSUME NEW m \in Messages,
               Inhibit(n, m) \/ SkipBackoff(n, m) \/ RenderFails(n, m) \/ Send(n, m)
        PROVE  BudgetInv'
    <3>1. TakesUp(n, m) /\ UNCHANGED <<status, attempt_count, phase, outlived>>
      BY <2>6 DEF Inhibit, SkipBackoff, RenderFails, Send, tableVars, history
    <3>2. failures' \in Nat /\ failures' >= failures
      <4>1. failures' = failures \/ failures' = failures + 1
        BY <2>6 DEF Inhibit, SkipBackoff, RenderFails, Send, PassesUnlessRead, history
      <4> QED
        BY <4>1 DEF BudgetInv, CountersOK
    <3>3. CASE Inhibit(n, m) \/ SkipBackoff(n, m) \/ RenderFails(n, m)
      <4>1. \E o \in Outcomes \ {"none"} : Record(n, m, o)
        BY <3>3 DEF Inhibit, SkipBackoff, RenderFails, RecordFailure, Outcomes
      <4>2. UNCHANGED <<sends, delivered>>
        BY <3>3 DEF Inhibit, SkipBackoff, RenderFails, history
      <4> QED
        BY <3>1, <3>2, <4>1, <4>2, OutcomeBudget
    <3>4. CASE Send(n, m)
      <4>1. \E o \in Outcomes \ {"none"} :
               /\ Record(n, m, o)
               /\ \/ o = "sent" /\ delivered' = [delivered EXCEPT ![m] = @ + 1]
                  \/ o \in {"temporary_failure", "permanent_failure"} /\ UNCHANGED delivered
        BY <3>4 DEF Send, RecordFailure, Outcomes
      <4>2. sends' = [sends EXCEPT ![m] = @ + 1]
        BY <3>4 DEF Send
      <4> QED
        BY <3>1, <3>2, <4>1, <4>2, OutcomeBudget
    <3> QED
      BY <2>6, <3>3, <3>4
  <2> QED
    BY <1>6, <2>1, <2>2, <2>3, <2>4, <2>5, <2>6 DEF Step
<1> QED
  BY <1>2, <1>3, <1>4, <1>5, <1>6 DEF Next

\* A transport sees a message at most MAX_DISPATCH_ATTEMPTS times and its
\* recipient gets it once, plus one per lost bulk write or killed replica, as
\* long as no lease of it ran out under a cycle; whatever leases run out, every
\* further replica adds at most one send (dispatch_once, bulk_mark_*).
THEOREM SendsAreBudgeted == Spec => []SendBudget
<1>1. LeaseInv /\ BudgetInv /\ [Next]_vars => BudgetInv'
  BY BudgetNext
<1>2. BudgetInv => SendBudget
  <2> SUFFICES ASSUME BudgetInv, NEW m \in Messages
               PROVE  /\ m \notin outlived => /\ sends[m] <= MaxAttempts + failures
                                              /\ delivered[m] <= 1 + failures
                      /\ sends[m] <= MaxAttempts + failures + (Cardinality(Notifiers) - 1)
    BY DEF SendBudget
  <2>1. /\ failures \in Nat /\ attempt_count[m] \in Nat /\ sends[m] \in Nat /\ delivered[m] \in Nat
        /\ AttemptsCount(m) /\ (m \notin outlived => DeliveryCounts(m))
    BY DEF BudgetInv, CountersOK
  <2>2. Unsaved(m) \subseteq Owers(m)
    BY DEF Unsaved, Owers, Unwritten, Owes
  <2>3. PICK n \in Notifiers : TRUE
    BY NotifierAssumption
  <2>4. /\ Cardinality(Unsaved(m)) <= Cardinality(Owers(m))
        /\ Cardinality(Unsaved(m)) \in Nat /\ Cardinality(Owers(m)) \in Nat
    BY <2>2, <2>3, OwersAreReplicas, ReplicaSets
  <2>5. Slack(m) \in Int /\ Slack(m) <= Cardinality(Notifiers) - 1 /\ (m \notin outlived => Slack(m) = 0)
    BY ReplicaCount DEF Slack
  <2>6. sends[m] <= MaxAttempts + failures + Slack(m)
    BY <2>1, <2>4, <2>5, NotifierAssumption DEF AttemptsCount
  <2>7. m \notin outlived => delivered[m] <= 1 + failures
    BY <2>1 DEF DeliveryCounts
  <2> QED
    BY <2>1, <2>5, <2>6, <2>7, ReplicaCount, NotifierAssumption
<1> QED
  BY LeaseInvariant, BudgetInit, <1>1, <1>2, PTL DEF Spec
=============================================================================
