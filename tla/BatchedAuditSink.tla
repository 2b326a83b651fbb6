-------------------------- MODULE BatchedAuditSink --------------------------
(***************************************************************************)
(* The audit sink of coderd: callers put events into an unbounded channel, *)
(* one background task collects them into batches and hands each batch to  *)
(* the sink that writes audit_logs                                         *)
(* (crates/coder-audit/src/batched_sink.rs, apps/coderd/src/main.rs).      *)
(* Events are numbered in the order in which they are recorded.            *)
(***************************************************************************)
EXTENDS Integers, Sequences

CONSTANTS
    MaxEvents,    \* bound: events recorded in a run
    MaxBatchSize  \* max_batch_size

ASSUME AuditAssumption == MaxEvents \in Nat /\ MaxBatchSize \in Nat \ {0}

VARIABLES
    recorded, \* history: how many events callers have recorded
    refused,  \* history: the events dropped because the sink was closed
    open,     \* the sender is still there
    channel,  \* the events in the channel
    batch,    \* the events the task has taken out
    flusher,  \* where the flush task is
    trail,    \* the rows of audit_logs, as the events they were made from
    lost      \* history: events whose own insert failed

auditVars == <<recorded, refused, open, channel, batch, flusher, trail, lost>>

Events == 1 .. MaxEvents
\* "write_last" and "single_last": the channel was closed, the task ends then.
FlusherSteps == {"recv", "drain", "window", "write", "single", "write_last", "single_last", "done"}

AuditTypeOK ==
    /\ recorded \in 0 .. MaxEvents
    /\ refused \subseteq Events
    /\ open \in BOOLEAN
    /\ channel \in Seq(Events)
    /\ batch \in Seq(Events) /\ Len(batch) <= MaxBatchSize
    /\ flusher \in FlusherSteps
    /\ trail \in Seq(Events)
    /\ lost \subseteq Events

AuditInit ==
    /\ recorded = 0 /\ refused = {}
    /\ open = TRUE
    /\ channel = <<>> /\ batch = <<>>
    /\ flusher = "recv"
    /\ trail = <<>> /\ lost = {}

-----------------------------------------------------------------------------
(* Callers.                                                                *)

Record ==
    /\ recorded < MaxEvents
    /\ recorded' = recorded + 1
    /\ IF open THEN channel' = Append(channel, recorded') /\ UNCHANGED refused
               ELSE refused' = refused \cup {recorded'} /\ UNCHANGED channel
    /\ UNCHANGED <<open, batch, flusher, trail, lost>>

\* close, first half: the sender is dropped; the caller then awaits the task.
CloseSink ==
    /\ open' = FALSE
    /\ UNCHANGED <<recorded, refused, channel, batch, flusher, trail, lost>>

-----------------------------------------------------------------------------
(* The flush task.                                                         *)

\* MUTANT: the newest event is taken first.
TakeNewest ==
    /\ channel # <<>>
    /\ batch' = Append(batch, channel[Len(channel)])
    /\ channel' = SubSeq(channel, 1, Len(channel) - 1)

TakeEvent ==
    /\ channel # <<>>
    /\ batch' = Append(batch, Head(channel))
    /\ channel' = Tail(channel)

Full == Len(batch) >= MaxBatchSize

\* The task waits for a first event, or for the channel to be closed.
Receive ==
    /\ flusher = "recv"
    /\ TakeEvent
    /\ flusher' = "drain"
    /\ UNCHANGED <<recorded, refused, open, trail, lost>>

ReceiveClosed ==
    /\ flusher = "recv" /\ channel = <<>> /\ ~open
    /\ flusher' = IF batch = <<>> THEN "done" ELSE "write_last"
    /\ UNCHANGED <<recorded, refused, open, channel, batch, trail, lost>>

\* It then takes what is there, up to the limit.
Drain ==
    /\ flusher = "drain" /\ ~Full
    /\ TakeEvent
    /\ UNCHANGED <<recorded, refused, open, flusher, trail, lost>>

DrainEnds ==
    /\ flusher = "drain"
    /\ Full \/ channel = <<>>
    /\ flusher' = IF Full THEN "write" ELSE "window"
    /\ UNCHANGED <<recorded, refused, open, channel, batch, trail, lost>>

\* A batch that is not full waits for more, until the interval is over.
WindowReceive ==
    /\ flusher = "window"
    /\ TakeEvent
    /\ flusher' = IF Len(batch') >= MaxBatchSize THEN "write" ELSE "window"
    /\ UNCHANGED <<recorded, refused, open, trail, lost>>

\* MUTANT: the timer fires only once the channel has been closed.
WindowOverLate ==
    /\ flusher = "window" /\ ~open
    /\ flusher' = "write"
    /\ UNCHANGED <<recorded, refused, open, channel, batch, trail, lost>>

WindowOver ==
    /\ flusher = "window"
    /\ flusher' = "write"
    /\ UNCHANGED <<recorded, refused, open, channel, batch, trail, lost>>

WindowClosed ==
    /\ flusher = "window" /\ channel = <<>> /\ ~open
    /\ flusher' = "write_last"
    /\ UNCHANGED <<recorded, refused, open, channel, batch, trail, lost>>

-----------------------------------------------------------------------------
(* record_batch of the persisting sink.                                    *)

AfterWrite == IF flusher \in {"write_last", "single_last"} THEN "done" ELSE "recv"
FallBack == IF flusher = "write_last" THEN "single_last" ELSE "single"

\* One INSERT for the whole batch.
WriteBatch ==
    /\ flusher \in {"write", "write_last"}
    /\ trail' = trail \o batch
    /\ batch' = <<>>
    /\ flusher' = AfterWrite
    /\ UNCHANGED <<recorded, refused, open, channel, lost>>

\* It fails, or its answer is lost; the events are then inserted one by one.
WriteBatchFails(applied) ==
    /\ flusher \in {"write", "write_last"}
    /\ trail' = IF applied THEN trail \o batch ELSE trail
    /\ flusher' = FallBack
    /\ UNCHANGED <<recorded, refused, open, channel, batch, lost>>

\* An event of its own: stored, or given up with a warning.
WriteOne(stored) ==
    /\ flusher \in {"single", "single_last"}
    /\ trail' = IF stored THEN Append(trail, Head(batch)) ELSE trail
    /\ lost' = IF stored THEN lost ELSE lost \cup {Head(batch)}
    /\ batch' = Tail(batch)
    /\ flusher' = IF Len(batch) = 1 THEN AfterWrite ELSE flusher
    /\ UNCHANGED <<recorded, refused, open, channel>>

-----------------------------------------------------------------------------
InTrail(e) == \E i \in 1 .. Len(trail) : trail[i] = e
Settled(e) == InTrail(e) \/ e \in lost

\* The trail follows the order of recording: when an event has been written or
\* given up, so have all that were recorded before it and accepted.
SettledInOrder ==
    \A d, e \in Events : d < e /\ Settled(e) /\ d \notin refused => Settled(d)
=============================================================================
