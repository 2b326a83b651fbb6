---------------------------- MODULE UsageTracker ----------------------------
(***************************************************************************)
(* The batching tracker of workspace usage                                 *)
(* (crates/coder-server/src/usage_tracker.rs): handlers put pings into an  *)
(* unbounded channel; a task keeps the pinged workspaces in a map and      *)
(* updates workspaces.last_used_at in batches.                             *)
(***************************************************************************)
EXTENDS Integers, Sequences, FiniteSets

CONSTANTS
    Workspaces,
    UsageBatch,  \* UsageTrackerOptions.batch_size
    MaxPings     \* bound: pings in a run

ASSUME UsageAssumption == UsageBatch \in Nat \ {0} /\ MaxPings \in Nat

VARIABLES
    pings,     \* history: how many pings were added
    mailbox,   \* the channel
    pending,   \* the keys of the pending map
    canceled,  \* the cancellation token
    tracker,   \* where the task is
    writing,   \* the ids of the flush in progress
    missed     \* history: ids of failed flushes

usageVars == <<pings, mailbox, pending, canceled, tracker, writing, missed>>

UsageTypeOK ==
    /\ pings \in 0 .. MaxPings
    /\ mailbox \in Seq(Workspaces)
    /\ pending \subseteq Workspaces
    /\ canceled \in BOOLEAN
    /\ tracker \in {"loop", "flush", "final", "done"}
    /\ writing \subseteq Workspaces
    /\ missed \subseteq Workspaces

UsageInit ==
    /\ pings = 0
    /\ mailbox = <<>>
    /\ pending = {} /\ writing = {} /\ missed = {}
    /\ canceled = FALSE
    /\ tracker = "loop"

\* A handler adds a ping.
AddPing(w) ==
    /\ pings < MaxPings
    /\ pings' = pings + 1
    /\ mailbox' = Append(mailbox, w)
    /\ UNCHANGED <<pending, canceled, tracker, writing, missed>>

CancelTracker ==
    /\ canceled' = TRUE
    /\ UNCHANGED <<pings, mailbox, pending, tracker, writing, missed>>

\* flush clears the map before it awaits the database.
StartFlush(ids, then) ==
    /\ writing' = ids
    /\ pending' = {}
    /\ tracker' = then

\* The select is biased: the cancellation comes before waiting messages.
SeeCancel ==
    /\ tracker = "loop" /\ canceled
    /\ IF pending = {} THEN tracker' = "done" /\ UNCHANGED <<pending, writing>>
                       ELSE StartFlush(pending, "final")
    /\ UNCHANGED <<pings, mailbox, canceled, missed>>

ReceivePing ==
    /\ tracker = "loop" /\ ~canceled
    /\ mailbox # <<>>
    /\ mailbox' = Tail(mailbox)
    /\ LET got == pending \cup {Head(mailbox)}
       IN  IF Cardinality(got) >= UsageBatch
           THEN StartFlush(got, "flush")
           ELSE pending' = got /\ UNCHANGED <<tracker, writing>>
    /\ UNCHANGED <<pings, canceled, missed>>

\* The interval fires while no message waits.
FlushTimer ==
    /\ tracker = "loop" /\ ~canceled
    /\ pending # {}
    /\ StartFlush(pending, "flush")
    /\ UNCHANGED <<pings, mailbox, canceled, missed>>

\* The update returns; a failed batch is logged and not kept.
FlushReturns(stored) ==
    /\ tracker \in {"flush", "final"}
    /\ missed' = IF stored THEN missed ELSE missed \cup writing
    /\ writing' = {}
    /\ tracker' = IF tracker = "final" THEN "done" ELSE "loop"
    /\ UNCHANGED <<pings, mailbox, pending, canceled>>
=============================================================================
