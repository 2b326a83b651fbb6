----------------------- MODULE ReplicaManager_proofs -----------------------
(***************************************************************************)
(* For every number of replicas and every interval, lag, number of failed  *)
(* cycles and skew that leave the margin MarginAssumption, a running       *)
(* process is listed and a dead one is pruned.                             *)
(***************************************************************************)
EXTENDS ReplicaManager, TLAPS

\* A step that is due has not been missed.
Timely(r) ==
    pc[r] = "insert" \/ Registered(r) => at[r] <= now /\ now <= Deadline(r)

\* The row of a running process is there, and the cycles that failed
\* account for its age.
Fresh(r) ==
    /\ pc[r] = "idle" => /\ updated_at[r] # Null
                         /\ updated_at[r] + MaxLag + Late(failures[r]) >= Stamp(r)
    /\ pc[r] = "refresh" => /\ updated_at[r] # Null
                            /\ updated_at[r] + MaxLag + Late(failures[r] + 1) >= Stamp(r)
    /\ pc[r] = "prune" => /\ updated_at[r] # Null
                          /\ updated_at[r] >= Stamp(r)

\* The cycles since p pruned last: those that failed, and one in progress.
Cycles(p) == IF pc[p] = "idle" THEN failures[p] ELSE failures[p] + 1

\* Either p has not pruned yet because it is young, or no row is older than
\* what p deleted last.
Swept(p) ==
    Registered(p) =>
        \/ Stamp(p) <= created_at[p] + MaxLag + Late(Cycles(p))
        \/ \A r \in Replicas :
              updated_at[r] # Null => updated_at[r] + Late(Cycles(p)) + Stale >= Stamp(p)

ReplicaInv ==
    /\ TypeOK
    /\ \A r \in Replicas : Timely(r)
    /\ \A r \in Replicas : Fresh(r)
    /\ \A p \in Replicas : Swept(p)

-----------------------------------------------------------------------------
LEMMA LateFacts ==
  /\ \A n \in Nat : Late(n) \in Nat /\ Late(n + 1) = Late(n) + Interval + MaxLag
  /\ Late(0) = 0
  /\ \A m, n \in Nat : m <= n => Late(m) <= Late(n)
<1> DEFINE C == Interval + MaxLag
<1>1. C \in Nat
  BY ReplicaAssumption
<1>2. \A n \in Nat : n * C \in Nat /\ (n + 1) * C = n * C + C
  BY <1>1
<1>3. ASSUME NEW m \in Nat, NEW n \in Nat, m <= n PROVE m * C <= n * C
  <2>1. (n - m) * C \in Nat /\ n * C = m * C + (n - m) * C
    BY <1>1, <1>3
  <2>2. m * C \in Nat
    BY <1>1
  <2> QED
    BY <2>1, <2>2
<1>4. 0 * C = 0
  BY <1>1
<1> QED
  BY <1>1, <1>2, <1>3, <1>4, ReplicaAssumption DEF Late

LEMMA Constants ==
  /\ Silence \in Nat /\ Stale \in Nat /\ Silence + Spread < Stale
  /\ Silence = Late(MaxFailures + 1) + 2 * MaxLag
  /\ \A r \in Replicas : Skew[r] \in Nat /\ Skew[r] <= Spread
  /\ Spread \in Nat /\ MaxLag \in Nat /\ Interval \in Nat
<1>1. Late(MaxFailures + 1) \in Nat
  <2>1. MaxFailures + 1 \in Nat
    BY ReplicaAssumption
  <2> QED
    BY <2>1, LateFacts
<1>2. \A r \in Replicas : Skew[r] \in Nat /\ Skew[r] <= Spread
  BY ReplicaAssumption
<1>3. Silence \in Nat /\ Stale \in Nat
  BY <1>1, ReplicaAssumption DEF Silence, Stale
<1> QED
  BY <1>2, <1>3, ReplicaAssumption, MarginAssumption DEF Silence

LEMMA LateBounds ==
  ASSUME NEW f \in 0 .. MaxFailures
  PROVE  /\ Late(f) \in Nat /\ Late(f + 1) \in Nat
         /\ Late(f) <= Late(MaxFailures) /\ Late(MaxFailures) \in Nat
         /\ Late(f + 1) <= Late(MaxFailures + 1)
         /\ Late(MaxFailures + 1) = Late(MaxFailures) + Interval + MaxLag
<1>1. /\ f \in Nat /\ f + 1 \in Nat /\ MaxFailures \in Nat /\ MaxFailures + 1 \in Nat
      /\ f <= MaxFailures /\ f + 1 <= MaxFailures + 1
  BY ReplicaAssumption
<1> QED
  BY <1>1, LateFacts

\* The age of the row of a running process.
LEMMA RowAge ==
  ASSUME ReplicaInv, NEW r \in Replicas, Registered(r)
  PROVE  updated_at[r] \in Nat /\ updated_at[r] + Silence >= Clock(r)
<1>1. /\ failures[r] \in Nat /\ failures[r] <= MaxFailures /\ at[r] \in Nat /\ now \in Nat
      /\ updated_at[r] \in Nat \cup {Null} /\ MaxFailures \in Nat
  BY ReplicaAssumption DEF ReplicaInv, TypeOK
<1>2. /\ Late(failures[r]) \in Nat /\ Late(failures[r] + 1) \in Nat /\ Late(MaxFailures) \in Nat
      /\ Late(failures[r]) <= Late(MaxFailures)
      /\ Late(failures[r] + 1) <= Late(MaxFailures + 1)
      /\ Late(MaxFailures + 1) = Late(MaxFailures) + Interval + MaxLag
  BY LateBounds DEF ReplicaInv, TypeOK
<1>3. Timely(r) /\ Fresh(r)
  BY DEF ReplicaInv
<1> HIDE DEF Late, Silence, Stale
<1> QED
  BY <1>1, <1>2, <1>3, Constants DEF Timely, Fresh, Registered, Deadline, Stamp, Clock

\* No row that a running process owns is old enough to be pruned.
LEMMA RowIsKept ==
  ASSUME ReplicaInv, NEW p \in Replicas, pc[p] = "prune", NEW r \in Replicas, Registered(r)
  PROVE  r \notin StaleRows(Stamp(p) - Stale)
<1>1. updated_at[r] \in Nat /\ updated_at[r] + Silence >= now + Skew[r]
  BY RowAge DEF Clock
<1>2. at[p] \in Nat /\ at[p] <= now /\ now \in Nat
  BY DEF ReplicaInv, TypeOK, Timely, Registered
<1> QED
  BY <1>1, <1>2, Constants DEF StaleRows, Stamp

LEMMA ReplicaInit == Init => ReplicaInv
<1> SUFFICES ASSUME Init PROVE ReplicaInv
  OBVIOUS
<1>1. TypeOK
  BY ReplicaAssumption DEF Init, TypeOK, Steps, Null
<1>2. ASSUME NEW r \in Replicas PROVE pc[r] = "new"
  BY DEF Init
<1> QED
  BY <1>1, <1>2 DEF ReplicaInv, Timely, Fresh, Swept, Registered

-----------------------------------------------------------------------------
(* A step of s leaves alone what the invariant says of the others, as long *)
(* as no row gets old by it.                                               *)

LEMMA OthersKeep ==
  ASSUME ReplicaInv, TypeOK', now' = now, NEW s \in Replicas, NEW r \in Replicas, r # s,
         pc'[r] = pc[r], at'[r] = at[r], failures'[r] = failures[r],
         created_at'[r] = created_at[r],
         Registered(r) => updated_at'[r] = updated_at[r],
         \A q \in Replicas : \/ updated_at'[q] \in {Null, updated_at[q]}
                             \/ updated_at'[q] + MaxLag >= Clock(q)
  PROVE  Timely(r)' /\ Fresh(r)' /\ Swept(r)'
<1>1. Timely(r)' /\ Fresh(r)'
  BY DEF ReplicaInv, Timely, Fresh, Registered, Deadline, Stamp
<1>2. ASSUME Registered(r)', NEW q \in Replicas, updated_at'[q] # Null,
             updated_at'[q] # updated_at[q]
      PROVE  updated_at'[q] + Late(Cycles(r)') + Stale >= Stamp(r)'
  <2>1. at[r] \in Nat /\ at[r] <= now /\ now \in Nat /\ at'[r] = at[r] /\ updated_at'[q] \in Nat
    BY <1>2 DEF ReplicaInv, TypeOK, Timely, Registered
  <2>2. updated_at'[q] + MaxLag >= now + Skew[q]
    BY <1>2 DEF Clock
  <2>3. failures'[r] \in Nat
    BY ReplicaAssumption DEF TypeOK
  <2>4. Late(Cycles(r)') \in Nat /\ Late(MaxFailures + 1) \in Nat
    <3>1. Cycles(r)' \in Nat /\ MaxFailures + 1 \in Nat
      BY <2>3, ReplicaAssumption DEF Cycles
    <3> QED
      BY <3>1, LateFacts
  <2> QED
    BY <2>1, <2>2, <2>4, Constants DEF Stamp
<1>3. Swept(r)'
  <2> SUFFICES ASSUME Registered(r)'
               PROVE  \/ Stamp(r)' <= created_at'[r] + MaxLag + Late(Cycles(r)')
                      \/ \A q \in Replicas : updated_at'[q] # Null
                              => updated_at'[q] + Late(Cycles(r)') + Stale >= Stamp(r)'
    BY DEF Swept
  <2>1. Registered(r) /\ Stamp(r)' = Stamp(r) /\ Cycles(r)' = Cycles(r)
    BY DEF Registered, Stamp, Cycles
  <2>2. \/ Stamp(r) <= created_at[r] + MaxLag + Late(Cycles(r))
        \/ \A q \in Replicas : updated_at[q] # Null
                => updated_at[q] + Late(Cycles(r)) + Stale >= Stamp(r)
    BY <2>1 DEF ReplicaInv, Swept
  <2>3. CASE Stamp(r) <= created_at[r] + MaxLag + Late(Cycles(r))
    BY <2>1, <2>3
  <2>4. CASE \A q \in Replicas : updated_at[q] # Null
                => updated_at[q] + Late(Cycles(r)) + Stale >= Stamp(r)
    BY <1>2, <2>1, <2>4
  <2> QED
    BY <2>2, <2>3, <2>4
<1> QED
  BY <1>1, <1>3

\* The shape of every proof below: the type, the process that moves, the rest.
LEMMA Assemble ==
  ASSUME ReplicaInv, TypeOK', now' = now, NEW s \in Replicas,
         Timely(s)', Fresh(s)', Swept(s)',
         \A r \in Replicas \ {s} :
            /\ pc'[r] = pc[r] /\ at'[r] = at[r] /\ failures'[r] = failures[r]
            /\ created_at'[r] = created_at[r]
            /\ Registered(r) => updated_at'[r] = updated_at[r],
         \A q \in Replicas : \/ updated_at'[q] \in {Null, updated_at[q]}
                             \/ updated_at'[q] + MaxLag >= Clock(q)
  PROVE  ReplicaInv'
  BY OthersKeep DEF ReplicaInv

\* Steps that leave the process outside the loop, or do not touch a stamp.
LEMMA LeaveKeeps ==
  ASSUME ReplicaInv, NEW s \in Replicas,
         InsertFails(s) \/ Crash(s) \/ Delete(s) \/ LoopEnds(s)
  PROVE  ReplicaInv'
<1>1. TypeOK'
  <2>1. TypeOK /\ 0 \in 0 .. MaxFailures /\ 0 \in Nat
    BY ReplicaAssumption DEF ReplicaInv
  <2>2. CASE InsertFails(s)
    BY <2>1, <2>2 DEF TypeOK, InsertFails, Exit, GoTo, Steps
  <2>5. CASE Crash(s)
    BY <2>1, <2>5 DEF TypeOK, Crash, Exit, GoTo, Steps
  <2>3. CASE Delete(s)
    BY <2>1, <2>3 DEF TypeOK, Delete, Exit, GoTo, Steps
  <2>4. CASE LoopEnds(s)
    BY <2>1, <2>4 DEF TypeOK, LoopEnds, GoTo, Steps
  <2> QED
    BY <2>2, <2>3, <2>4, <2>5
<1>2. pc'[s] \in {"delete", "gone"} /\ now' = now
  BY DEF ReplicaInv, TypeOK, InsertFails, Crash, Delete, LoopEnds, Exit, GoTo
<1>3. Timely(s)' /\ Fresh(s)' /\ Swept(s)'
  BY <1>2 DEF Timely, Fresh, Swept, Registered
<1>4. \A r \in Replicas \ {s} :
            /\ pc'[r] = pc[r] /\ at'[r] = at[r] /\ failures'[r] = failures[r]
            /\ created_at'[r] = created_at[r]
            /\ updated_at'[r] = updated_at[r]
  BY DEF ReplicaInv, TypeOK, InsertFails, Crash, Delete, LoopEnds, Exit, GoTo
<1>5. \A q \in Replicas : updated_at'[q] \in {Null, updated_at[q]}
  BY DEF ReplicaInv, TypeOK, InsertFails, Crash, Delete, LoopEnds
<1> QED
  BY <1>1, <1>2, <1>3, <1>4, <1>5, Assemble

LEMMA BeginKeeps ==
  ASSUME ReplicaInv, NEW s \in Replicas, Begin(s)
  PROVE  ReplicaInv'
<1>1. TypeOK'
  BY DEF ReplicaInv, TypeOK, Begin, GoTo, Steps
<1>2. pc'[s] = "insert" /\ now' = now /\ at'[s] = now
  BY DEF ReplicaInv, TypeOK, Begin, GoTo
<1>3. Timely(s)' /\ Fresh(s)' /\ Swept(s)'
  BY <1>1, <1>2, Constants DEF Timely, Fresh, Swept, Registered, Deadline, TypeOK
<1>4. \A r \in Replicas \ {s} : pc'[r] = pc[r] /\ at'[r] = at[r]
  BY DEF ReplicaInv, TypeOK, Begin, GoTo
<1>5. failures' = failures /\ created_at' = created_at /\ updated_at' = updated_at
  BY DEF Begin
<1> QED
  BY <1>1, <1>2, <1>3, <1>4, <1>5, Assemble

LEMMA InsertKeeps ==
  ASSUME ReplicaInv, NEW s \in Replicas, Insert(s)
  PROVE  ReplicaInv'
<1>1. /\ at[s] \in Nat /\ now \in Nat /\ at[s] <= now /\ now <= at[s] + MaxLag
      /\ Skew[s] \in Nat /\ failures[s] \in Nat
  BY Constants, ReplicaAssumption DEF Insert, ReplicaInv, TypeOK, Timely, Deadline
<1>2. /\ pc'[s] = "idle" /\ now' = now /\ at'[s] = now /\ failures'[s] = failures[s]
      /\ updated_at'[s] = Stamp(s) /\ created_at'[s] = Stamp(s)
  BY DEF ReplicaInv, TypeOK, Insert, GoTo
<1>3. Stamp(s) \in Nat
  BY <1>1 DEF Stamp
<1>4. TypeOK'
  BY <1>1, <1>3 DEF ReplicaInv, TypeOK, Insert, GoTo, Steps
<1>5. Late(failures[s]) \in Nat /\ Late(Cycles(s)') \in Nat
  BY <1>1, <1>2, LateFacts DEF Cycles
<1>6. Timely(s)' /\ Fresh(s)'
  BY <1>1, <1>2, <1>5, Constants DEF Timely, Fresh, Registered, Deadline, Stamp, Null
<1>7. Swept(s)'
  BY <1>1, <1>2, <1>5, Constants DEF Swept, Stamp
<1>8. \A r \in Replicas \ {s} :
            /\ pc'[r] = pc[r] /\ at'[r] = at[r] /\ failures'[r] = failures[r]
            /\ created_at'[r] = created_at[r]
            /\ updated_at'[r] = updated_at[r]
  BY DEF ReplicaInv, TypeOK, Insert, GoTo
<1>9. updated_at'[s] + MaxLag >= Clock(s)
  BY <1>1, <1>2, Constants DEF Stamp, Clock
<1> QED
  BY <1>2, <1>4, <1>6, <1>7, <1>8, <1>9, Assemble

LEMMA BeginCycleKeeps ==
  ASSUME ReplicaInv, NEW s \in Replicas, BeginCycle(s)
  PROVE  ReplicaInv'
<1>1. /\ at[s] \in Nat /\ now \in Nat /\ at[s] <= now /\ now <= at[s] + Interval + MaxLag
      /\ Skew[s] \in Nat /\ failures[s] \in Nat /\ updated_at[s] \in Nat /\ pc[s] = "idle"
      /\ created_at[s] \in Nat
  BY Constants, ReplicaAssumption
  DEF BeginCycle, ReplicaInv, TypeOK, Timely, Deadline, Registered, Fresh
<1>2. pc'[s] = "refresh" /\ now' = now /\ at'[s] = now
  BY DEF ReplicaInv, TypeOK, BeginCycle, GoTo
<1>3. failures' = failures /\ created_at' = created_at /\ updated_at' = updated_at
  BY DEF BeginCycle
<1>4. TypeOK'
  BY DEF ReplicaInv, TypeOK, BeginCycle, GoTo, Steps
<1>5. /\ Late(failures[s]) \in Nat
      /\ Late(failures[s] + 1) = Late(failures[s]) + Interval + MaxLag
      /\ Cycles(s) = failures[s] /\ Cycles(s)' = failures[s] + 1
  BY <1>1, <1>2, <1>3, LateFacts DEF Cycles
<1>6. Stamp(s)' <= Stamp(s) + Interval + MaxLag /\ Stamp(s)' \in Nat /\ Stamp(s) \in Nat
  BY <1>1, <1>2, Constants DEF Stamp
<1>7. Timely(s)'
  BY <1>1, <1>2, Constants DEF Timely, Deadline
<1>8. Fresh(s)'
  <2>1. updated_at[s] + MaxLag + Late(failures[s]) >= Stamp(s)
    BY <1>1 DEF ReplicaInv, Fresh
  <2>2. updated_at[s] + MaxLag + Late(failures[s] + 1) >= Stamp(s)'
    BY <1>1, <1>5, <1>6, <2>1, Constants
  <2> QED
    BY <1>1, <1>2, <1>3, <2>2 DEF Fresh, Null
<1>9. Swept(s)'
  <2>1. \/ Stamp(s) <= created_at[s] + MaxLag + Late(failures[s])
        \/ \A q \in Replicas : updated_at[q] # Null
                => updated_at[q] + Late(failures[s]) + Stale >= Stamp(s)
    BY <1>1, <1>5 DEF ReplicaInv, Swept, Registered
  <2>2. CASE Stamp(s) <= created_at[s] + MaxLag + Late(failures[s])
    BY <1>1, <1>3, <1>5, <1>6, <2>2, Constants DEF Swept
  <2>3. CASE \A q \in Replicas : updated_at[q] # Null
                => updated_at[q] + Late(failures[s]) + Stale >= Stamp(s)
    <3>1. ASSUME NEW q \in Replicas, updated_at[q] # Null
          PROVE  updated_at[q] + Late(failures[s] + 1) + Stale >= Stamp(s)'
      <4>1. updated_at[q] \in Nat /\ updated_at[q] + Late(failures[s]) + Stale >= Stamp(s)
        BY <2>3, <3>1 DEF ReplicaInv, TypeOK
      <4> QED
        BY <1>5, <1>6, <4>1, Constants
    <3> QED
      BY <1>3, <1>5, <3>1 DEF Swept
  <2> QED
    BY <2>1, <2>2, <2>3
<1>10. \A r \in Replicas \ {s} : pc'[r] = pc[r] /\ at'[r] = at[r]
  BY DEF ReplicaInv, TypeOK, BeginCycle, GoTo
<1> QED
  BY <1>2, <1>3, <1>4, <1>7, <1>8, <1>9, <1>10, Assemble

LEMMA RefreshKeeps ==
  ASSUME ReplicaInv, NEW s \in Replicas, Refresh(s)
  PROVE  ReplicaInv'
<1>1. /\ at[s] \in Nat /\ now \in Nat /\ at[s] <= now /\ now <= at[s] + MaxLag
      /\ Skew[s] \in Nat /\ failures[s] \in Nat /\ updated_at[s] # Null /\ pc[s] = "refresh"
  BY Constants, ReplicaAssumption
  DEF Refresh, ReplicaInv, TypeOK, Timely, Deadline, Registered, Fresh
<1>2. /\ pc'[s] = "prune" /\ now' = now /\ at' = at /\ updated_at'[s] = Stamp(s)
      /\ failures' = failures /\ created_at' = created_at
  BY <1>1 DEF ReplicaInv, TypeOK, Refresh, GoTo
<1>3. Stamp(s) \in Nat /\ Stamp(s)' = Stamp(s)
  BY <1>1, <1>2 DEF Stamp
<1>4. TypeOK'
  BY <1>3 DEF ReplicaInv, TypeOK, Refresh, GoTo, Steps
<1>5. \A r \in Replicas \ {s} : pc'[r] = pc[r] /\ updated_at'[r] = updated_at[r]
  BY DEF ReplicaInv, TypeOK, Refresh, GoTo
<1>6. Timely(s)' /\ Fresh(s)'
  BY <1>1, <1>2, <1>3, Constants DEF Timely, Fresh, Registered, Deadline, Null
<1>7. Swept(s)'
  <2>1. Cycles(s)' = Cycles(s) /\ Cycles(s) \in Nat /\ Registered(s) /\ Registered(s)'
    BY <1>1, <1>2 DEF Cycles, Registered
  <2>2. Late(Cycles(s)) \in Nat
    BY <2>1, LateFacts
  <2>3. \/ Stamp(s) <= created_at[s] + MaxLag + Late(Cycles(s))
        \/ \A q \in Replicas : updated_at[q] # Null
                => updated_at[q] + Late(Cycles(s)) + Stale >= Stamp(s)
    BY <2>1 DEF ReplicaInv, Swept
  <2>4. updated_at'[s] + Late(Cycles(s)) + Stale >= Stamp(s)
    BY <1>2, <1>3, <2>2, Constants
  <2> QED
    BY <1>2, <1>3, <1>5, <2>1, <2>3, <2>4 DEF Swept
<1>8. updated_at'[s] + MaxLag >= Clock(s)
  BY <1>1, <1>2, Constants DEF Stamp, Clock
<1> QED
  BY <1>2, <1>4, <1>5, <1>6, <1>7, <1>8, Assemble

LEMMA PruneKeeps ==
  ASSUME ReplicaInv, NEW s \in Replicas, Prune(s)
  PROVE  ReplicaInv'
<1>1. /\ at[s] \in Nat /\ now \in Nat /\ at[s] <= now /\ now <= at[s] + MaxLag
      /\ Skew[s] \in Nat /\ pc[s] = "prune" /\ Registered(s)
      /\ updated_at[s] # Null /\ updated_at[s] \in Nat /\ updated_at[s] >= Stamp(s)
  BY Constants DEF Prune, ReplicaInv, TypeOK, Timely, Deadline, Registered, Fresh
<1>2. /\ pc'[s] = "idle" /\ now' = now /\ at' = at /\ failures'[s] = 0
      /\ created_at' = created_at
      /\ updated_at' = [q \in Replicas |->
                          IF q \in StaleRows(Stamp(s) - Stale) THEN Null ELSE updated_at[q]]
  BY DEF ReplicaInv, TypeOK, Prune, GoTo
<1>3. TypeOK'
  BY <1>2, ReplicaAssumption DEF ReplicaInv, TypeOK, Prune, GoTo, Steps
<1>4. \A r \in Replicas : Registered(r) => updated_at'[r] = updated_at[r]
  BY <1>1, <1>2, RowIsKept
<1>5. Stamp(s) \in Nat /\ Stamp(s)' = Stamp(s)
  BY <1>1, <1>2 DEF Stamp
<1>6. Late(failures'[s]) = 0 /\ Late(Cycles(s)') = 0
  BY <1>2, LateFacts DEF Cycles
<1>7. Timely(s)' /\ Fresh(s)'
  BY <1>1, <1>2, <1>4, <1>5, <1>6, Constants DEF Timely, Fresh, Registered, Deadline, Null
<1>8. Swept(s)'
  <2>1. ASSUME NEW q \in Replicas, updated_at'[q] # Null
        PROVE  updated_at'[q] + 0 + Stale >= Stamp(s)
    <3>1. updated_at'[q] = updated_at[q] /\ q \notin StaleRows(Stamp(s) - Stale)
      BY <1>2, <2>1
    <3>2. updated_at[q] \in Nat
      BY <2>1, <3>1 DEF ReplicaInv, TypeOK
    <3> QED
      BY <1>5, <3>1, <3>2, Constants DEF StaleRows
  <2> QED
    BY <1>5, <1>6, <2>1 DEF Swept
<1>9. \A r \in Replicas \ {s} : pc'[r] = pc[r] /\ failures'[r] = failures[r]
  BY DEF ReplicaInv, TypeOK, Prune, GoTo
<1>10. \A q \in Replicas : updated_at'[q] \in {Null, updated_at[q]}
  BY <1>2
<1> QED
  BY <1>2, <1>3, <1>4, <1>7, <1>8, <1>9, <1>10, Assemble

LEMMA CycleFailsKeeps ==
  ASSUME ReplicaInv, NEW s \in Replicas, CycleFails(s)
  PROVE  ReplicaInv'
<1>1. /\ at[s] \in Nat /\ now \in Nat /\ at[s] <= now /\ now <= at[s] + MaxLag
      /\ Skew[s] \in Nat /\ pc[s] \in {"refresh", "prune"} /\ Registered(s)
      /\ updated_at[s] # Null /\ updated_at[s] \in Nat /\ failures[s] \in Nat
  BY Constants, ReplicaAssumption
  DEF CycleFails, ReplicaInv, TypeOK, Timely, Deadline, Registered, Fresh
<1>2. /\ pc'[s] = "idle" /\ now' = now /\ at' = at /\ failures'[s] = failures[s] + 1
      /\ created_at' = created_at /\ updated_at' = updated_at
  BY DEF ReplicaInv, TypeOK, CycleFails, GoTo
<1>3. TypeOK'
  <2>1. failures[s] + 1 \in 0 .. MaxFailures
    BY ReplicaAssumption DEF CycleFails, ReplicaInv, TypeOK
  <2> QED
    BY <2>1 DEF ReplicaInv, TypeOK, CycleFails, GoTo, Steps
<1>4. /\ Stamp(s)' = Stamp(s) /\ Stamp(s) \in Nat
      /\ Cycles(s) = failures[s] + 1 /\ Cycles(s)' = failures[s] + 1
      /\ Late(failures[s] + 1) \in Nat
  <2>1. Late(failures[s] + 1) \in Nat
    BY LateBounds DEF ReplicaInv, TypeOK
  <2> QED
    BY <1>1, <1>2, <2>1 DEF Stamp, Cycles
<1>5. Timely(s)'
  BY <1>1, <1>2, Constants DEF Timely, Deadline
<1>6. Fresh(s)'
  <2>1. updated_at[s] + MaxLag + Late(failures[s] + 1) >= Stamp(s)
    BY <1>1, <1>4, Constants DEF ReplicaInv, Fresh
  <2> QED
    BY <1>1, <1>2, <1>4, <2>1 DEF Fresh
<1>7. Swept(s)'
  BY <1>1, <1>2, <1>4 DEF ReplicaInv, Swept
<1>8. \A r \in Replicas \ {s} : pc'[r] = pc[r] /\ failures'[r] = failures[r]
  BY DEF ReplicaInv, TypeOK, CycleFails, GoTo
<1> QED
  BY <1>2, <1>3, <1>5, <1>6, <1>7, <1>8, Assemble

LEMMA ReplicaNext == ReplicaInv /\ [Next]_vars => ReplicaInv'
<1> SUFFICES ASSUME ReplicaInv, [Next]_vars PROVE ReplicaInv'
  OBVIOUS
<1>1. ASSUME NEW s \in Replicas, Shutdown(s) PROVE ReplicaInv'
  <2>1. TypeOK'
    BY <1>1 DEF ReplicaInv, TypeOK, Shutdown
  <2> QED
    BY <1>1, <2>1
    DEF Shutdown, ReplicaInv, Timely, Fresh, Swept, Registered, Deadline, Stamp, Cycles
<1>2. CASE Tick
  <2>1. TypeOK'
    BY <1>2 DEF ReplicaInv, TypeOK, Tick
  <2>2. ASSUME NEW r \in Replicas PROVE Timely(r)'
    <3>1. at[r] \in Nat /\ now \in Nat /\ now' = now + 1 /\ pc' = pc /\ at' = at
      BY <1>2 DEF ReplicaInv, TypeOK, Tick
    <3> QED
      BY <1>2, <3>1, Constants DEF ReplicaInv, Tick, Timely, Registered, Deadline
  <2> QED
    BY <1>2, <2>1, <2>2 DEF Tick, ReplicaInv, Fresh, Swept, Registered, Stamp, Cycles
<1>3. CASE UNCHANGED vars
  BY <1>3
  DEF vars, ReplicaInv, TypeOK, Timely, Fresh, Swept, Registered, Deadline, Stamp, Cycles
<1> QED
  BY <1>1, <1>2, <1>3, LeaveKeeps, BeginKeeps, InsertKeeps, BeginCycleKeeps, RefreshKeeps,
     PruneKeeps, CycleFailsKeeps DEF Next

LEMMA ReplicaInvHolds == Spec => []ReplicaInv
  BY ReplicaInit, ReplicaNext, PTL DEF Spec

-----------------------------------------------------------------------------
\* Three intervals are enough: while a process runs, no failed or late cycle
\* of its own and no peer whose clock is ahead takes it off the list that
\* any process answers /replicas with.
THEOREM RunningIsListed == Spec => []LiveIsListed
<1>1. ReplicaInv => LiveIsListed
  <2> SUFFICES ASSUME ReplicaInv, NEW r \in Replicas, NEW o \in Replicas, Registered(r)
               PROVE  r \in Listed(o)
    BY DEF LiveIsListed
  <2>1. updated_at[r] \in Nat /\ updated_at[r] + Silence >= now + Skew[r] /\ now \in Nat
    BY RowAge DEF Clock, ReplicaInv, TypeOK
  <2> QED
    BY <2>1, Constants DEF Listed, Clock, Null
<1> QED
  BY <1>1, ReplicaInvHolds, PTL

\* A row that nobody refreshes any more is deleted by every process that
\* runs long enough, within a bounded time.
THEOREM DeadIsPrunedInTime == Spec => []DeadIsPruned
<1>1. ReplicaInv => DeadIsPruned
  <2> SUFFICES ASSUME ReplicaInv, NEW p \in Replicas, NEW r \in Replicas, Registered(p),
                      Clock(p) > created_at[p] + Silence, updated_at[r] # Null
               PROVE  Clock(p) <= updated_at[r] + Stale + Silence
    BY DEF DeadIsPruned
  <2>1. /\ now \in Nat /\ at[p] \in Nat /\ failures[p] \in Nat /\ failures[p] <= MaxFailures
        /\ created_at[p] \in Nat /\ updated_at[r] \in Nat /\ MaxFailures \in Nat
    BY ReplicaAssumption DEF ReplicaInv, TypeOK
  <2>2. /\ Late(failures[p]) \in Nat /\ Late(failures[p] + 1) \in Nat
        /\ Late(failures[p]) <= Late(MaxFailures) /\ Late(MaxFailures) \in Nat
        /\ Late(failures[p] + 1) <= Late(MaxFailures + 1)
        /\ Late(MaxFailures + 1) = Late(MaxFailures) + Interval + MaxLag
    BY LateBounds DEF ReplicaInv, TypeOK
  <2>3. Late(Cycles(p)) \in Nat /\ Clock(p) <= Stamp(p) + Late(MaxFailures + 1) - Late(Cycles(p)) + MaxLag
    BY <2>1, <2>2, Constants
    DEF ReplicaInv, Timely, Registered, Deadline, Cycles, Clock, Stamp
  <2>4. Stamp(p) \in Nat
    BY <2>1, Constants DEF Stamp
  <2>5. updated_at[r] + Late(Cycles(p)) + Stale >= Stamp(p)
    BY <2>1, <2>2, <2>3, <2>4, Constants DEF ReplicaInv, Swept, Clock
  <2> QED
    BY <2>1, <2>2, <2>3, <2>4, <2>5, Constants DEF Clock
<1> QED
  BY <1>1, ReplicaInvHolds, PTL
=============================================================================
