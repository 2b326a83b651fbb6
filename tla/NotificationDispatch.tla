------------------------ MODULE NotificationDispatch ------------------------
(***************************************************************************)
(* The notification queue: the table notification_messages, the lease that *)
(* a dispatch cycle takes on its rows, and the dispatch loops of several    *)
(* coderd replicas working on the one table                                *)
(* (crates/coder-notifications/src/lib.rs, crates/coder-db app_store.rs).  *)
(*                                                                         *)
(* Times are counted in ticks of base_retry_interval.  A column or a local *)
(* deadline holds the ticks that are left of it; 0 is "already past".      *)
(***************************************************************************)
EXTENDS Integers, FiniteSets

CONSTANTS
    MaxMessage,     \* messages are 1..MaxMessage, in the order of created_at
    Notifiers,      \* the dispatch loops, one per replica
    BatchSize,      \* DISPATCH_BATCH_SIZE
    MaxAttempts,    \* MAX_DISPATCH_ATTEMPTS
    Lease,          \* the 30 s lease, in ticks
    RetryInterval,  \* base_retry_interval_secs, in ticks
    MaxRetry,       \* max_retry_interval_secs, in ticks
    Recipients,     \* the messages of each (user, template) pair: they share a preference
    MaxCycle,       \* bound: ticks between acquiring a batch and its writes
    MaxFailures     \* bound: failed bulk writes and killed processes

ASSUME NotifierAssumption ==
    /\ MaxMessage \in Nat /\ BatchSize \in Nat \ {0} /\ MaxAttempts \in Nat \ {0}
    /\ Lease \in Nat \ {0} /\ RetryInterval \in Nat /\ MaxRetry \in Nat
    /\ MaxCycle \in Nat /\ MaxFailures \in Nat
    /\ Recipients \subseteq SUBSET (1 .. MaxMessage)
    /\ IsFiniteSet(Notifiers) /\ Notifiers # {}

Messages == 1 .. MaxMessage

VARIABLES
    status,             \* column status; "absent" before the insert
    status_reason,      \* column status_reason, to what the outcomes tell apart
    attempt_count,      \* column attempt_count
    leased_until,       \* column leased_until
    next_retry_after,   \* column next_retry_after
    retry_after,        \* each replica's in-memory backoff deadlines
    batch,              \* each replica's cycle: message -> what became of it
    seen,               \* attempt_count as the cycle's acquire returned it
    phase,              \* where each replica's cycle is
    cycleAge,           \* ticks since the cycle's acquire
    paused,             \* the deployment's notifier_paused setting
    disabled,           \* messages whose (user, template) preference is off
    sends,              \* history: hand-overs to a transport
    delivered,          \* history: hand-overs the transport accepted
    failures,           \* history: failed bulk writes and killed processes
    outlived            \* history: messages that a cycle held until their lease ran out

tableVars == <<status, status_reason, attempt_count, leased_until, next_retry_after>>
loopVars  == <<retry_after, batch, seen, phase, cycleAge>>
history   == <<sends, delivered, failures, outlived>>
vars == <<tableVars, loopVars, paused, disabled, history>>

Statuses == {"absent", "pending", "leased", "sent", "temporary_failure",
             "permanent_failure", "inhibited"}
Terminal == {"sent", "permanent_failure", "inhibited"}
\* What a cycle has recorded of a message of its batch.
Outcomes == {"none", "todo", "sent", "temporary_failure", "backoff",
             "permanent_failure", "inhibited"}

AtMost(a, b) == IF a <= b THEN a ELSE b
AtLeast(a, b) == IF a >= b THEN a ELSE b
Decrement(d) == IF d = 0 THEN 0 ELSE d - 1

\* backoff_duration: base * 2^(attempt-1) capped, and less than one tick of
\* jitter, which may push the deadline past one more tick.
BackoffDurations(attempt) ==
    LET cap  == AtLeast(MaxRetry, RetryInterval)
        wait == AtMost(RetryInterval * 2 ^ AtMost(AtLeast(attempt, 1) - 1, 20), cap)
    IN  {wait, wait + 1}

MaxBackoff == AtLeast(MaxRetry, RetryInterval) + 1

TypeOK ==
    /\ status \in [Messages -> Statuses]
    /\ status_reason \in [Messages -> {"none", "leased"} \cup Outcomes]
    /\ attempt_count \in [Messages -> Nat]
    /\ leased_until \in [Messages -> 0 .. Lease]
    /\ next_retry_after \in [Messages -> 0 .. RetryInterval]
    /\ retry_after \in [Notifiers -> [Messages -> 0 .. MaxBackoff]]
    /\ batch \in [Notifiers -> [Messages -> Outcomes]]
    /\ seen \in [Notifiers -> [Messages -> Nat]]
    /\ phase \in [Notifiers -> {"idle", "dispatch", "mark_failed"}]
    /\ cycleAge \in [Notifiers -> 0 .. MaxCycle]
    /\ paused \in BOOLEAN
    /\ disabled \subseteq Messages
    /\ sends \in [Messages -> Nat]
    /\ delivered \in [Messages -> Nat]
    /\ failures \in 0 .. MaxFailures
    /\ outlived \subseteq Messages

NoBatch == [m \in Messages |-> "none"]

Init ==
    /\ status = [m \in Messages |-> "absent"]
    /\ status_reason = [m \in Messages |-> "none"]
    /\ attempt_count = [m \in Messages |-> 0]
    /\ leased_until = [m \in Messages |-> 0]
    /\ next_retry_after = [m \in Messages |-> 0]
    /\ retry_after = [n \in Notifiers |-> [m \in Messages |-> 0]]
    /\ batch = [n \in Notifiers |-> NoBatch]
    /\ seen = [n \in Notifiers |-> [m \in Messages |-> 0]]
    /\ phase = [n \in Notifiers |-> "idle"]
    /\ cycleAge = [n \in Notifiers |-> 0]
    /\ paused = FALSE
    /\ disabled = {}
    /\ sends = [m \in Messages |-> 0]
    /\ delivered = [m \in Messages |-> 0]
    /\ failures = 0
    /\ outlived = {}

-----------------------------------------------------------------------------
(* Users and administrators.                                               *)

\* A message is enqueued; numbers are given in the order of created_at.
Enqueue(m) ==
    /\ status[m] = "absent"
    /\ \A k \in Messages : k < m => status[k] # "absent"
    /\ status' = [status EXCEPT ![m] = "pending"]
    /\ UNCHANGED <<status_reason, attempt_count, leased_until, next_retry_after,
                   loopVars, paused, disabled, history>>

SetPaused ==
    /\ paused' = ~paused
    /\ UNCHANGED <<tableVars, loopVars, disabled, history>>

\* A user switches the messages of one template off or on again.
SetPreference(pair) ==
    /\ disabled' = IF pair \subseteq disabled THEN disabled \ pair ELSE disabled \cup pair
    /\ UNCHANGED <<tableVars, loopVars, paused, history>>

-----------------------------------------------------------------------------
(* The dispatch cycle of replica n.                                        *)

\* MUTANT: a lease is never looked at.
AcquirableWhileLeased ==
    {m \in Messages :
        /\ status[m] \in {"pending", "temporary_failure", "leased"}
        /\ next_retry_after[m] = 0
        /\ attempt_count[m] < MaxAttempts}

\* MUTANT: an expired lease is not reclaimed.
AcquirableUnleased ==
    {m \in Messages :
        /\ status[m] \in {"pending", "temporary_failure"}
        /\ next_retry_after[m] = 0
        /\ attempt_count[m] < MaxAttempts}

\* MUTANT: any row that nobody has leased.
AcquirableInAnyStatus ==
    {m \in Messages :
        /\ status[m] # "absent" /\ (status[m] = "leased" => leased_until[m] = 0)
        /\ next_retry_after[m] = 0
        /\ attempt_count[m] < MaxAttempts}

\* Rows the acquire statement may lease.
Acquirable ==
    {m \in Messages :
        /\ \/ status[m] \in {"pending", "temporary_failure"}
           \/ status[m] = "leased" /\ leased_until[m] = 0
        /\ next_retry_after[m] = 0
        /\ attempt_count[m] < MaxAttempts}

\* ORDER BY created_at ASC LIMIT batch size.
Oldest(S) == {m \in S : Cardinality({k \in S : k < m}) < BatchSize}

\* A setting is read and says "no"; the caller goes on if the read fails.
PassesUnlessRead(no) ==
    \/ ~no /\ UNCHANGED failures
    \/ no /\ failures < MaxFailures /\ failures' = failures + 1

\* One tick of the loop: the pause switch is read, then the oldest acquirable
\* rows are leased in one statement.
StartCycle(n) ==
    /\ phase[n] = "idle"
    /\ PassesUnlessRead(paused)
    /\ Acquirable # {}
    /\ LET taken == Oldest(Acquirable)
       IN  /\ status' = [m \in Messages |-> IF m \in taken THEN "leased" ELSE status[m]]
           /\ status_reason' = [m \in Messages |-> IF m \in taken THEN "leased" ELSE status_reason[m]]
           /\ leased_until' = [m \in Messages |-> IF m \in taken THEN Lease ELSE leased_until[m]]
           /\ batch' = [batch EXCEPT ![n] = [m \in Messages |-> IF m \in taken THEN "todo" ELSE "none"]]
           /\ seen' = [seen EXCEPT ![n] = [m \in Messages |-> IF m \in taken THEN attempt_count[m] ELSE 0]]
    /\ phase' = [phase EXCEPT ![n] = "dispatch"]
    /\ cycleAge' = [cycleAge EXCEPT ![n] = 0]
    /\ UNCHANGED <<attempt_count, next_retry_after, retry_after, paused, disabled, sends, delivered, outlived>>

\* The cycle takes up message m of its batch, in the order RETURNING gave.
TakesUp(n, m) == phase[n] = "dispatch" /\ batch[n][m] = "todo"

Record(n, m, outcome) == batch' = [batch EXCEPT ![n][m] = outcome]

\* The preference for the message's user and template is "disabled".
Inhibit(n, m) ==
    /\ TakesUp(n, m)
    /\ m \in disabled
    /\ Record(n, m, "inhibited")
    /\ UNCHANGED <<tableVars, retry_after, seen, phase, cycleAge, paused, disabled, history>>

\* The replica's own backoff window is still open: nothing is sent.
SkipBackoff(n, m) ==
    /\ TakesUp(n, m)
    /\ PassesUnlessRead(m \in disabled)
    /\ retry_after[n][m] > 0
    /\ Record(n, m, "backoff")
    /\ UNCHANGED <<tableVars, retry_after, seen, phase, cycleAge, paused, disabled, sends, delivered, outlived>>

\* classify_webhook_status.  The SMTP transport and the inbox give a subset
\* of the same three results.
ClassifyWebhookStatus(code) ==
    CASE code \in 200 .. 299 -> "success"
      [] code \in {408, 429} \cup 500 .. 599 -> "retryable"
      [] code \in (400 .. 499) \ {408, 429} -> "permanent"
      [] OTHER -> "retryable"

ResponseCodes == {200, 302, 404, 408, 429, 503}

\* A failed dispatch: permanent errors and exhausted budgets clear the
\* backoff, the others open the next window.
RecordFailure(n, m, permanent) ==
    IF permanent \/ seen[n][m] + 1 >= MaxAttempts
    THEN /\ Record(n, m, "permanent_failure")
         /\ retry_after' = [retry_after EXCEPT ![n][m] = 0]
    ELSE /\ Record(n, m, "temporary_failure")
         /\ \E d \in BackoffDurations(seen[n][m] + 1) :
                retry_after' = [retry_after EXCEPT ![n][m] = d]

\* The template does not render: permanent, and nothing is sent.
RenderFails(n, m) ==
    /\ TakesUp(n, m)
    /\ PassesUnlessRead(m \in disabled)
    /\ retry_after[n][m] = 0
    /\ RecordFailure(n, m, TRUE)
    /\ UNCHANGED <<tableVars, seen, phase, cycleAge, paused, disabled, sends, delivered, outlived>>

\* The message goes to its transport, which answers.
Send(n, m) ==
    /\ TakesUp(n, m)
    /\ PassesUnlessRead(m \in disabled)
    /\ retry_after[n][m] = 0
    /\ sends' = [sends EXCEPT ![m] = @ + 1]
    /\ \E code \in ResponseCodes :
          \/ /\ ClassifyWebhookStatus(code) = "success"
             /\ Record(n, m, "sent")
             /\ retry_after' = [retry_after EXCEPT ![n][m] = 0]
             /\ delivered' = [delivered EXCEPT ![m] = @ + 1]
          \/ /\ ClassifyWebhookStatus(code) # "success"
             /\ RecordFailure(n, m, ClassifyWebhookStatus(code) = "permanent")
             /\ UNCHANGED delivered
    /\ UNCHANGED <<tableVars, seen, phase, cycleAge, paused, disabled, outlived>>

Processed(n) == phase[n] = "dispatch" /\ \A m \in Messages : batch[n][m] # "todo"
SentIds(n)   == {m \in Messages : batch[n][m] = "sent"}
\* MUTANT: temporary failures are left to the lease.
FailedIdsFinalOnly(n) == {m \in Messages : batch[n][m] \in {"permanent_failure", "inhibited"}}
FailedIds(n) == {m \in Messages : batch[n][m] \notin {"none", "sent"}}

\* bulk_mark_notification_messages_sent: by id, whatever the row's status.
MarkSent(n) ==
    /\ Processed(n)
    /\ LET S == SentIds(n)
       IN  /\ status' = [m \in Messages |-> IF m \in S THEN "sent" ELSE status[m]]
           /\ status_reason' = [m \in Messages |-> IF m \in S THEN "none" ELSE status_reason[m]]
           /\ attempt_count' = [m \in Messages |-> attempt_count[m] + (IF m \in S THEN 1 ELSE 0)]
           /\ leased_until' = [m \in Messages |-> IF m \in S THEN 0 ELSE leased_until[m]]
           /\ next_retry_after' = [m \in Messages |-> IF m \in S THEN 0 ELSE next_retry_after[m]]
    /\ phase' = [phase EXCEPT ![n] = "mark_failed"]
    /\ UNCHANGED <<retry_after, batch, seen, cycleAge, paused, disabled, history>>

\* The status a failed row gets: the last attempt is coerced to permanent.
FailedStatus(m, outcome) ==
    CASE outcome = "inhibited" -> "inhibited"
      [] attempt_count[m] + 1 < MaxAttempts /\ outcome \in {"temporary_failure", "backoff"} -> "temporary_failure"
      [] OTHER -> "permanent_failure"

EndCycle(n) ==
    /\ phase' = [phase EXCEPT ![n] = "idle"]
    /\ batch' = [batch EXCEPT ![n] = NoBatch]
    /\ seen' = [seen EXCEPT ![n] = [m \in Messages |-> 0]]
    /\ cycleAge' = [cycleAge EXCEPT ![n] = 0]

\* bulk_mark_notification_messages_failed, and the end of the cycle.
MarkFailed(n) ==
    /\ phase[n] = "mark_failed"
    /\ LET F == FailedIds(n)
           new == [m \in F |-> FailedStatus(m, batch[n][m])]
       IN  /\ status' = [m \in Messages |-> IF m \in F THEN new[m] ELSE status[m]]
           /\ status_reason' = [m \in Messages |-> IF m \in F THEN batch[n][m] ELSE status_reason[m]]
           /\ attempt_count' = [m \in Messages |-> attempt_count[m] + (IF m \in F THEN 1 ELSE 0)]
           /\ leased_until' = [m \in Messages |-> IF m \in F THEN 0 ELSE leased_until[m]]
           /\ next_retry_after' = [m \in Messages |->
                  IF m \notin F THEN next_retry_after[m]
                  ELSE IF new[m] = "temporary_failure" THEN RetryInterval ELSE 0]
    /\ EndCycle(n)
    /\ UNCHANGED <<retry_after, paused, disabled, history>>

Fails == failures < MaxFailures /\ failures' = failures + 1

\* Either bulk write fails: it is logged and the rows keep their lease.
MarkSentFails(n) ==
    /\ Processed(n) /\ SentIds(n) # {}
    /\ Fails
    /\ phase' = [phase EXCEPT ![n] = "mark_failed"]
    /\ UNCHANGED <<tableVars, retry_after, batch, seen, cycleAge, paused, disabled, sends, delivered, outlived>>

MarkFailedFails(n) ==
    /\ phase[n] = "mark_failed" /\ FailedIds(n) # {}
    /\ Fails
    /\ EndCycle(n)
    /\ UNCHANGED <<tableVars, retry_after, paused, disabled, sends, delivered, outlived>>

\* The replica is killed and starts again: batch and backoff map are gone.
Kill(n) ==
    /\ Fails
    /\ EndCycle(n)
    /\ retry_after' = [retry_after EXCEPT ![n] = [m \in Messages |-> 0]]
    /\ UNCHANGED <<tableVars, paused, disabled, sends, delivered, outlived>>

-----------------------------------------------------------------------------
\* One tick of time passes.  Nothing renews a lease: a cycle that is still busy
\* Lease ticks after its acquire has outlived it.
Tick ==
    /\ \A n \in Notifiers : phase[n] # "idle" => cycleAge[n] < MaxCycle
    /\ cycleAge' = [n \in Notifiers |-> IF phase[n] = "idle" THEN 0 ELSE cycleAge[n] + 1]
    /\ leased_until' = [m \in Messages |-> Decrement(leased_until[m])]
    /\ next_retry_after' = [m \in Messages |-> Decrement(next_retry_after[m])]
    /\ retry_after' = [n \in Notifiers |-> [m \in Messages |-> Decrement(retry_after[n][m])]]
    /\ outlived' = outlived \cup
          {m \in Messages : \E n \in Notifiers : batch[n][m] # "none" /\ cycleAge[n] + 1 >= Lease}
    /\ UNCHANGED <<status, status_reason, attempt_count, batch, seen, phase, paused, disabled,
                   sends, delivered, failures>>

Step(n) ==
    \/ StartCycle(n) \/ MarkSent(n) \/ MarkFailed(n)
    \/ MarkSentFails(n) \/ MarkFailedFails(n) \/ Kill(n)
    \/ \E m \in Messages : Inhibit(n, m) \/ SkipBackoff(n, m) \/ RenderFails(n, m) \/ Send(n, m)

Next ==
    \/ \E m \in Messages : Enqueue(m)
    \/ \E pair \in Recipients : SetPreference(pair)
    \/ SetPaused
    \/ \E n \in Notifiers : Step(n)
    \/ Tick

Spec == Init /\ [][Next]_vars

\* The loop polls for ever, a cycle runs to its end, time passes.
Fairness ==
    /\ WF_vars(Tick)
    /\ \A n \in Notifiers :
          /\ WF_vars(StartCycle(n)) /\ WF_vars(MarkSent(n)) /\ WF_vars(MarkFailed(n))
          /\ \A m \in Messages : WF_vars(Inhibit(n, m) \/ SkipBackoff(n, m) \/ Send(n, m))
FairSpec == Spec /\ Fairness

-----------------------------------------------------------------------------
\* The lease keeps replicas apart: two cycles have the same message in their
\* batches only after some cycle held it until the lease ran out.  Lost writes,
\* killed replicas and retries alone never bring that about.
ExclusiveLease ==
    \A n1, n2 \in Notifiers : \A m \in Messages :
        batch[n1][m] # "none" /\ batch[n2][m] # "none" => n1 = n2 \/ m \in outlived

\* sent, permanent_failure and inhibited are final.  Only the unconditional
\* bulk writes of cycles whose lease ran out overwrite them; the acquire never
\* picks such a message up, not even then.
TerminalIsFinal ==
    [][\A m \in Messages : status[m] \in Terminal /\ status'[m] # status[m] =>
          m \in outlived /\ status'[m] # "leased"]_vars

\* A message reaches its transport at most MaxAttempts times, and its
\* recipient at most once; a lost write or a killed replica adds one each.
\* Where leases run out under slow cycles, every other replica adds at most one
\* more send, however often it happens: each write counts as an attempt.
SendBudget ==
    \A m \in Messages :
        /\ m \notin outlived => /\ sends[m] <= MaxAttempts + failures
                                /\ delivered[m] <= 1 + failures
        /\ sends[m] <= MaxAttempts + failures + (Cardinality(Notifiers) - 1)

\* Every message gets a final status and in the end keeps one, whatever
\* replicas fail or outlive their leases on the way, if dispatching is not left
\* paused: leases of dead replicas are reclaimed and retries run out.
MessageIsResolved ==
    (<>[]~paused) => \A m \in Messages : (status[m] = "pending") ~> [](status[m] \in Terminal)
=============================================================================
