----------------------------- MODULE PostgresPubSub ------------------------------
(* The PostgreSQL pub/sub of one replica (coder-db/src/pubsub.rs), for one channel. *)
(* The subscribers share one broadcast sender, the channel's entry in a map under a *)
(* mutex; a background task owns the LISTEN connection and takes its orders from a  *)
(* queue.  An order is sent after the mutex has been released, so orders may reach  *)
(* the queue in another order than the map changed.                                 *)
EXTENDS Naturals, Sequences

CONSTANTS
    Subscribers,
    Messages,       \* the messages published, in their order; a message is its size
    Backlog,        \* BROADCAST_CAPACITY: what a slow receiver may fall behind
    MaxFaults       \* bound: failed statements, lost connections and the shutdown

ASSUME PubSubAssumption ==
    Messages \in Seq(Nat \ {0}) /\ Backlog \in Nat \ {0} /\ MaxFaults \in Nat

VARIABLES
    closed,      \* PostgresPubSubState::closed
    entry,       \* the channel is in PostgresPubSubState::channels
    attached,    \* the receivers of that entry's sender
    sub,         \* subscriber -> "none", "listen" (owes the order), "on"
    inbox,       \* subscriber -> messages its receiver has not returned yet
    commands,    \* orders the listener task has not taken yet
    listener,    \* the listener task: "running" or "done"
    listening,   \* the connection has LISTENed on the channel
    notifs,      \* notifications on their way to the listener
    pub,         \* the publisher: "idle", "notify", "cleanup", "unlisten"
    closer,      \* close(): "open", "signal", "join", "closed"
    published, faults

pubsubVars == <<closed, entry, attached, sub, inbox, commands, listener, listening,
                notifs, pub, closer, published, faults>>
mapVars == <<closed, entry, attached, sub, inbox>>
taskVars == <<commands, listener, listening, notifs>>
callVars == <<pub, closer, published, faults>>

TypeOK ==
    /\ closed \in BOOLEAN /\ entry \in BOOLEAN /\ listening \in BOOLEAN
    /\ attached \subseteq Subscribers
    /\ sub \in [Subscribers -> {"none", "listen", "on"}]
    /\ \A k \in Subscribers : inbox[k] \in Seq(Nat) /\ Len(inbox[k]) <= Backlog
    /\ commands \in Seq({"Listen", "Unlisten", "Close"})
    /\ listener \in {"running", "done"}
    /\ notifs \in Seq(Nat)
    /\ pub \in {"idle", "notify", "cleanup", "unlisten"}
    /\ closer \in {"open", "signal", "join", "closed"}
    /\ published \in 0..Len(Messages) /\ faults \in 0..MaxFaults

PubSubInit ==
    /\ closed = FALSE /\ entry = FALSE /\ attached = {}
    /\ sub = [k \in Subscribers |-> "none"]
    /\ inbox = [k \in Subscribers |-> <<>>]
    /\ commands = <<>> /\ listener = "running" /\ listening = FALSE /\ notifs = <<>>
    /\ pub = "idle" /\ closer = "open"
    /\ published = 0 /\ faults = 0

Fault == faults < MaxFaults /\ faults' = faults + 1

(* An order sent to a task that has gone is dropped with its receiver.              *)
Order(cmd) == commands' = IF listener = "running" THEN Append(commands, cmd) ELSE commands

(* Removing the entry drops its sender: its receivers return Closed once drained.   *)
RemoveEntry == entry' = FALSE /\ attached' = {}

---------------------------------------------------------------------------------
(* subscribe: the entry is found or made under the mutex ...                        *)
SubscribeRefused(k) == sub[k] = "none" /\ closed /\ UNCHANGED pubsubVars

Subscribe(k) ==
    /\ sub[k] = "none"
    /\ ~closed
    /\ entry' = TRUE
    /\ attached' = attached \cup {k}
    /\ inbox' = [inbox EXCEPT ![k] = <<>>]
    /\ sub' = [sub EXCEPT ![k] = IF entry THEN "on" ELSE "listen"]
    /\ UNCHANGED <<closed, taskVars, callVars>>

(* ... and the task is told of a new one after that; a task that has gone fails the *)
(* call, which takes the entry out again, whoever else uses it by now.              *)
SendListen(k) ==
    /\ sub[k] = "listen"
    /\ listener = "running"
    /\ Order("Listen")
    /\ sub' = [sub EXCEPT ![k] = "on"]
    /\ UNCHANGED <<closed, entry, attached, inbox, listener, listening, notifs, callVars>>

SendListenFails(k) ==
    /\ sub[k] = "listen"
    /\ listener = "done"
    /\ RemoveEntry
    /\ sub' = [sub EXCEPT ![k] = "none"]
    /\ inbox' = [inbox EXCEPT ![k] = <<>>]
    /\ UNCHANGED <<closed, taskVars, callVars>>

(* Subscription::recv returns the next message it still has, or Closed.             *)
Recv(k) ==
    /\ sub[k] = "on"
    /\ inbox[k] # <<>>
    /\ inbox' = [inbox EXCEPT ![k] = Tail(@)]
    /\ UNCHANGED <<closed, entry, attached, sub, taskVars, callVars>>

RecvClosed(k) == sub[k] = "on" /\ inbox[k] = <<>> /\ k \notin attached

(* Dropping a Subscription tells nobody: the entry stays.                           *)
DropSubscription(k) ==
    /\ sub' = [sub EXCEPT ![k] = "none"]
    /\ inbox' = [inbox EXCEPT ![k] = <<>>]
    /\ attached' = attached \ {k}
    /\ UNCHANGED <<closed, entry, taskVars, callVars>>

---------------------------------------------------------------------------------
(* publish: the closed flag is checked under the mutex ...                          *)
PublishChecked ==
    /\ pub = "idle"
    /\ published < Len(Messages)
    /\ ~closed
    /\ pub' = "notify"
    /\ UNCHANGED <<mapVars, taskVars, closer, published, faults>>

(* ... and the statement, which looks at nothing of this replica's map, runs after  *)
(* it was released.  PostgreSQL queues a notification for the connections that      *)
(* listen at that moment.                                                           *)
PublishNext ==
    /\ pub = "notify"
    /\ published < Len(Messages)
    /\ published' = published + 1

Publish ==
    /\ PublishNext
    /\ notifs' = IF listening THEN Append(notifs, Messages[published + 1]) ELSE notifs
    /\ pub' = "cleanup"
    /\ UNCHANGED <<mapVars, commands, listener, listening, closer, faults>>

PublishFails ==
    /\ PublishNext
    /\ Fault
    /\ pub' = "idle"
    /\ UNCHANGED <<mapVars, taskVars, closer>>

(* maybe_cleanup_channel: the order is sent after the mutex is released.            *)
MaybeCleanup ==
    /\ pub = "cleanup"
    /\ IF entry /\ attached = {}
         THEN RemoveEntry /\ pub' = "unlisten"
         ELSE UNCHANGED <<entry, attached>> /\ pub' = "idle"
    /\ UNCHANGED <<closed, sub, inbox, taskVars, closer, published, faults>>

SendUnlisten ==
    /\ pub = "unlisten"
    /\ Order("Unlisten")
    /\ pub' = "idle"
    /\ UNCHANGED <<mapVars, listener, listening, notifs, closer, published, faults>>

---------------------------------------------------------------------------------
(* listener_loop takes an order or a notification, whichever select! finds ready.   *)
Take(cmd) ==
    /\ listener = "running"
    /\ commands # <<>> /\ Head(commands) = cmd
    /\ commands' = Tail(commands)

Listen ==
    /\ Take("Listen")
    /\ listening' = TRUE
    /\ UNCHANGED <<mapVars, listener, notifs, callVars>>

(* A LISTEN that fails takes the entry out, so that a later subscribe retries it.   *)
ListenFails ==
    /\ Take("Listen")
    /\ Fault
    /\ RemoveEntry
    /\ UNCHANGED <<closed, sub, inbox, listener, listening, notifs, pub, closer, published>>

Unlisten ==
    /\ Take("Unlisten")
    /\ listening' = FALSE
    /\ UNCHANGED <<mapVars, listener, notifs, callVars>>

UnlistenFails ==
    /\ Take("Unlisten")
    /\ Fault
    /\ UNCHANGED <<mapVars, listener, listening, notifs, pub, closer, published>>

ListenerStops ==
    /\ Take("Close")
    /\ listener' = "done"
    /\ listening' = FALSE
    /\ notifs' = <<>>
    /\ UNCHANGED <<mapVars, callVars>>

(* A receiver that is Backlog messages behind loses its oldest one.                 *)
Deliver(q, m) == Append(IF Len(q) = Backlog THEN Tail(q) ELSE q, m)

Dispatch ==
    /\ listener = "running"
    /\ notifs # <<>>
    /\ inbox' = [k \in Subscribers |-> IF k \in attached THEN Deliver(inbox[k], Head(notifs))
                                                         ELSE inbox[k]]
    /\ notifs' = Tail(notifs)
    /\ UNCHANGED <<closed, entry, attached, sub, commands, listener, listening, callVars>>

(* The connection breaks and PgListener opens it again and LISTENs on what it had:  *)
(* what was under way is lost.                                                      *)
Reconnect ==
    /\ listener = "running"
    /\ notifs # <<>>
    /\ Fault
    /\ notifs' = <<>>
    /\ UNCHANGED <<mapVars, commands, listener, listening, pub, closer, published>>

---------------------------------------------------------------------------------
(* Mutation: the map is kept.                                                       *)
CloseKeepsMap ==
    /\ closer = "open"
    /\ Fault
    /\ closer' = "signal"
    /\ closed' = TRUE
    /\ UNCHANGED <<entry, attached, sub, inbox, taskVars, pub, published>>

(* close: the flag and the map under the mutex, the order, then the task is joined. *)
Close ==
    /\ closer = "open"
    /\ Fault
    /\ closer' = "signal"
    /\ closed' = TRUE
    /\ RemoveEntry
    /\ UNCHANGED <<sub, inbox, taskVars, pub, published>>

SendClose ==
    /\ closer = "signal"
    /\ Order("Close")
    /\ closer' = "join"
    /\ UNCHANGED <<mapVars, listener, listening, notifs, pub, published, faults>>

Joined ==
    /\ closer = "join"
    /\ listener = "done"
    /\ closer' = "closed"
    /\ UNCHANGED <<mapVars, taskVars, pub, published, faults>>

Publisher == PublishChecked \/ Publish \/ PublishFails \/ MaybeCleanup \/ SendUnlisten
Listener == Listen \/ ListenFails \/ Unlisten \/ UnlistenFails \/ ListenerStops
            \/ Dispatch \/ Reconnect
Closer == SendClose \/ Joined
====================================================================================
