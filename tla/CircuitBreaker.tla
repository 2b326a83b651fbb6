--------------------------- MODULE CircuitBreaker ---------------------------
(***************************************************************************)
(* The circuit breaker around an external dependency                       *)
(* (crates/coder-core/src/circuit_breaker.rs), with calls in flight while  *)
(* its state changes: `call` takes the lock before and after the           *)
(* operation, never during it.                                             *)
(***************************************************************************)
EXTENDS Integers

CONSTANTS
    Callers,            \* tasks that use `call`
    FailureThreshold,   \* failure_threshold
    ResetTimeout,       \* reset_timeout, in ticks
    MaxProbes,          \* half_open_max_probes
    MaxCount            \* where the u32 failure counter saturates

ASSUME BreakerAssumption ==
    /\ FailureThreshold \in Nat \ {0} /\ ResetTimeout \in Nat /\ MaxProbes \in Nat \ {0}
    /\ MaxCount \in Nat /\ MaxCount >= FailureThreshold

Never == -1     \* last_failure_time is None

VARIABLES
    state,                  \* "closed", "open", "half_open"
    consecutive_failures,
    half_open_successes,
    last_failure_time,      \* ticks since then, up to ResetTimeout; or Never
    in_flight,              \* callers whose operation is in flight
    healthy                 \* the dependency

inner == <<state, consecutive_failures, half_open_successes, last_failure_time>>
breakerVars == <<inner, in_flight, healthy>>

BreakerTypeOK ==
    /\ state \in {"closed", "open", "half_open"}
    /\ consecutive_failures \in 0 .. MaxCount
    /\ half_open_successes \in 0 .. MaxProbes
    /\ last_failure_time \in {Never} \cup 0 .. ResetTimeout
    /\ in_flight \subseteq Callers
    /\ healthy \in BOOLEAN

BreakerInit ==
    /\ state = "closed"
    /\ consecutive_failures = 0
    /\ half_open_successes = 0
    /\ last_failure_time = Never
    /\ in_flight = {}
    /\ healthy = TRUE

-----------------------------------------------------------------------------
\* maybe_transition_to_half_open: the state the lock holder goes on with.
ResetDue == state = "open" /\ last_failure_time # Never /\ last_failure_time >= ResetTimeout

EffectiveState == IF ResetDue THEN "half_open" ELSE state

MaybeTransitionToHalfOpen ==
    /\ state' = EffectiveState
    /\ half_open_successes' = IF ResetDue THEN 0 ELSE half_open_successes
    /\ UNCHANGED <<consecutive_failures, last_failure_time>>

SaturatingAdd(n) == IF n < MaxCount THEN n + 1 ELSE n

\* MUTANT: the probe is not remembered.
CountProbeForgets(n) ==
    IF n >= MaxProbes
    THEN state' = "closed" /\ consecutive_failures' = 0 /\ half_open_successes' = 0 /\ last_failure_time' = Never
    ELSE state' = "half_open" /\ half_open_successes' = 0 /\ UNCHANGED <<consecutive_failures, last_failure_time>>

\* A success brings the probes to n: enough of them close the breaker.
CountProbe(n) ==
    IF n >= MaxProbes
    THEN /\ state' = "closed"
         /\ consecutive_failures' = 0
         /\ half_open_successes' = 0
         /\ last_failure_time' = Never
    ELSE /\ state' = "half_open"
         /\ half_open_successes' = n
         /\ UNCHANGED <<consecutive_failures, last_failure_time>>

\* MUTANT: a success in open closes at once.
RecordSuccessCloses ==
    \/ state = "closed" /\ consecutive_failures' = 0 /\ UNCHANGED <<state, half_open_successes, last_failure_time>>
    \/ state = "half_open" /\ CountProbe(half_open_successes + 1)
    \/ state = "open" /\ CountProbe(MaxProbes)

RecordSuccess ==
    \/ /\ state = "closed"
       /\ consecutive_failures' = 0
       /\ UNCHANGED <<state, half_open_successes, last_failure_time>>
    \/ state = "half_open" /\ CountProbe(half_open_successes + 1)
    \/ state = "open" /\ CountProbe(1)

\* MUTANT: a failure while open restarts the reset timeout.
RecordFailureExtends ==
    /\ consecutive_failures' = SaturatingAdd(consecutive_failures)
    /\ last_failure_time' = 0
    /\ state' = IF state # "closed" \/ consecutive_failures' >= FailureThreshold THEN "open" ELSE "closed"
    /\ half_open_successes' = 0

\* MUTANT: the probe that fails does not stamp the failure.
RecordFailureUnstamped ==
    /\ consecutive_failures' = SaturatingAdd(consecutive_failures)
    /\ state' = IF state # "closed" \/ consecutive_failures' >= FailureThreshold THEN "open" ELSE "closed"
    /\ half_open_successes' = 0
    /\ UNCHANGED last_failure_time

RecordFailure ==
    \/ /\ state = "closed"
       /\ consecutive_failures' = SaturatingAdd(consecutive_failures)
       /\ last_failure_time' = 0
       /\ state' = IF consecutive_failures' >= FailureThreshold THEN "open" ELSE "closed"
       /\ UNCHANGED half_open_successes
    \/ /\ state = "half_open"
       /\ consecutive_failures' = SaturatingAdd(consecutive_failures)
       /\ last_failure_time' = 0
       /\ state' = "open"
       /\ half_open_successes' = 0
    \/ state = "open" /\ UNCHANGED inner

Outcome(ok) == IF ok THEN RecordSuccess ELSE RecordFailure

\* call, before the operation: rejected when open, let through otherwise.
CallStart(c) ==
    /\ c \notin in_flight
    /\ MaybeTransitionToHalfOpen
    /\ in_flight' = IF EffectiveState = "open" THEN in_flight ELSE in_flight \cup {c}
    /\ UNCHANGED healthy

\* call, after the operation: the outcome is recorded in whatever state the
\* breaker is in by now.
CallEnd(c) ==
    /\ c \in in_flight
    /\ Outcome(healthy)
    /\ in_flight' = in_flight \ {c}
    /\ UNCHANGED healthy

\* report_success and report_failure of a health check.
Report ==
    /\ Outcome(healthy)
    /\ UNCHANGED <<in_flight, healthy>>

\* status and state, read by the health endpoint.
ReadStatus ==
    /\ MaybeTransitionToHalfOpen
    /\ UNCHANGED <<in_flight, healthy>>

DependencyFlips == healthy' = ~healthy /\ UNCHANGED <<inner, in_flight>>

BreakerTick ==
    /\ last_failure_time \in 0 .. ResetTimeout - 1
    /\ last_failure_time' = last_failure_time + 1
    /\ UNCHANGED <<state, consecutive_failures, half_open_successes, in_flight, healthy>>

BreakerNext ==
    \/ \E c \in Callers : CallStart(c) \/ CallEnd(c)
    \/ Report \/ ReadStatus \/ DependencyFlips \/ BreakerTick

BreakerSpec == BreakerInit /\ [][BreakerNext]_breakerVars

\* Time passes, calls keep coming and every operation ends.
BreakerFairSpec ==
    /\ BreakerSpec
    /\ WF_breakerVars(BreakerTick)
    /\ \A c \in Callers : WF_breakerVars(CallStart(c)) /\ WF_breakerVars(CallEnd(c))

-----------------------------------------------------------------------------
\* An open breaker always has a failure to measure the reset timeout from,
\* a closed one is below its threshold, and no probe count is left at the
\* limit: whatever calls of an earlier state end when.
CountersMatchState ==
    /\ state = "open" => last_failure_time # Never
    /\ state = "closed" => consecutive_failures < FailureThreshold
    /\ half_open_successes < MaxProbes

\* Closing takes the probes: with more than one required, a breaker never
\* goes from open to closed in one step, however late an old success is.
NeverClosesUnprobed ==
    [][MaxProbes > 1 /\ state = "open" => state' # "closed"]_breakerVars

\* An open breaker lets a probe through in the end, although failures keep
\* being reported: they do not extend the reset timeout.
OpenIsProbed == (state = "open") ~> (state # "open")

\* Once the dependency stays healthy the breaker closes and stays closed.
Recovers == <>[]healthy => <>[](state = "closed")
=============================================================================
