----------------------------- MODULE ReconnectingPty -----------------------------
(* The reconnecting-PTY store (coder-server/src/reconnecting_pty.rs) and the        *)
(* WebSocket handler that drives it (get_workspace_agent_pty in handlers/agents.rs) *)
(* for one agent and one reconnect_id, over the pub/sub that carries the agent's    *)
(* output.  A client attaches to the session of the store, sends the scrollback,    *)
(* subscribes to the live output and, as the first one, spawns the pump: a task     *)
(* that subscribes to the agent's output, attaches to the store as the writer, and  *)
(* pushes what it receives.  The bytes of a session are numbered in the order the   *)
(* pump pushed them; a message of the pub/sub is its number of bytes.               *)
EXTENDS PostgresPubSub, SequencesExt

CONSTANTS
    Clients,
    MaxSessions,    \* bound: sessions made
    MaxOpened,      \* bound: WebSockets opened
    Capacity,       \* RingBuffer::capacity, in bytes
    FanoutBacklog   \* BROADCAST_CAPACITY of the live output

ASSUME PtyAssumption ==
    /\ MaxSessions \in Nat \ {0} /\ MaxOpened \in Nat
    /\ Capacity \in Nat \ {0} /\ FanoutBacklog \in Nat \ {0}
    /\ IsFiniteSet(Subscribers) /\ Clients \cap Subscribers = {}

Sessions == 1..MaxSessions
NoSession == 0

(* A pump is a task: it holds the pub/sub subscription, so it is the subscriber.    *)
Pumps == Subscribers

VARIABLES
    current,    \* ReconnectingPtyStore::sessions: the session of the reconnect_id
    made,       \* sessions made so far
    buffer,     \* Session::buffer, as byte numbers
    total,      \* bytes pushed into the session
    started,    \* Session::pump_started
    writers,    \* Session::writers
    grace,      \* Session::grace_deadline: "none", "open", "passed"
    detaching,  \* detach tasks spawned by a dropped AgentAttach
    expiring,   \* detach tasks that found no writer left and will open the window
    pc,         \* client or pump -> where it is
    bound,      \* client or pump -> the session it found or made
    own,        \* pump -> the session it was spawned for
    chunk,      \* pump -> the bytes it has pushed and not yet fanned out
    live,       \* client -> live output its receiver has not returned yet
    seen,       \* client -> number of the last byte sent to the WebSocket
    opened      \* WebSockets opened so far

storeVars == <<current, made>>
sessionVars == <<buffer, total, started, writers, grace, detaching, expiring>>
taskStates == <<pc, bound, own, chunk>>
clientVars == <<live, seen, opened>>
ptyVars == <<storeVars, sessionVars, taskStates, clientVars>>
vars == <<ptyVars, pubsubVars>>

Callers == Clients \cup Pumps
Span(from, to) == [i \in 1..(to - from + 1) |-> from + i - 1]

Init ==
    /\ PubSubInit
    /\ current = NoSession /\ made = 0
    /\ buffer = [s \in Sessions |-> <<>>] /\ total = [s \in Sessions |-> 0]
    /\ started = [s \in Sessions |-> FALSE]
    /\ writers = [s \in Sessions |-> 0] /\ grace = [s \in Sessions |-> "none"]
    /\ detaching = [s \in Sessions |-> 0] /\ expiring = [s \in Sessions |-> 0]
    /\ pc = [x \in Callers |-> "off"] /\ bound = [x \in Callers |-> NoSession]
    /\ own = [p \in Pumps |-> NoSession] /\ chunk = [p \in Pumps |-> <<>>]
    /\ live = [c \in Clients |-> <<>>] /\ seen = [c \in Clients |-> 0]
    /\ opened = 0

Goto(x, at) == pc' = [pc EXCEPT ![x] = at]

---------------------------------------------------------------------------------
(* get_or_create, for a client and for a pump alike: the map is read and released,  *)
(* the deadline of what was found is read after that, and the map is locked again   *)
(* to remove the session or to make one.                                            *)
Lookup(x) ==
    /\ pc[x] = "lookup"
    /\ bound' = [bound EXCEPT ![x] = current]
    /\ Goto(x, IF current = NoSession THEN "create" ELSE "check")
    /\ UNCHANGED <<storeVars, sessionVars, own, chunk, clientVars, pubsubVars>>

CheckGrace(x) ==
    /\ pc[x] = "check"
    /\ Goto(x, IF grace[bound[x]] = "passed" THEN "expire" ELSE "attached")
    /\ UNCHANGED <<storeVars, sessionVars, bound, own, chunk, clientVars, pubsubVars>>

(* The session is removed by its id and the attach refused: a client is closed with *)
(* code 4004, a pump marks itself stopped.                                          *)
Expire(x) ==
    /\ pc[x] = "expire"
    /\ current' = NoSession
    /\ Goto(x, IF x \in Clients THEN "off" ELSE "stop")
    /\ bound' = [bound EXCEPT ![x] = NoSession]
    /\ UNCHANGED <<made, sessionVars, own, chunk, clientVars, pubsubVars>>

Create(x) ==
    /\ pc[x] = "create"
    /\ IF current # NoSession
         THEN /\ bound' = [bound EXCEPT ![x] = current]
              /\ UNCHANGED storeVars
         ELSE /\ made < MaxSessions
              /\ made' = made + 1
              /\ current' = made + 1
              /\ bound' = [bound EXCEPT ![x] = made + 1]
    /\ Goto(x, "attached")
    /\ UNCHANGED <<sessionVars, own, chunk, clientVars, pubsubVars>>

GetOrCreate(x) == Lookup(x) \/ CheckGrace(x) \/ Expire(x) \/ Create(x)

---------------------------------------------------------------------------------
(* A WebSocket of the user is upgraded.                                             *)
Open(c) ==
    /\ pc[c] = "off"
    /\ Goto(c, "lookup")
    /\ opened < MaxOpened
    /\ opened' = opened + 1
    /\ UNCHANGED <<storeVars, sessionVars, bound, own, chunk, live, seen, pubsubVars>>

(* The scrollback is sent ...                                                       *)
Replay(c) ==
    /\ pc[c] = "attached"
    /\ seen' = [seen EXCEPT ![c] = IF buffer[bound[c]] = <<>> THEN 0 ELSE Last(buffer[bound[c]])]
    /\ Goto(c, "replayed")
    /\ UNCHANGED <<storeVars, sessionVars, bound, own, chunk, live, opened, pubsubVars>>

(* ... then the client subscribes to the live output ...                            *)
SubscribeLive(c) ==
    /\ pc[c] = "replayed"
    /\ live' = [live EXCEPT ![c] = <<>>]
    /\ Goto(c, "start")
    /\ UNCHANGED <<storeVars, sessionVars, bound, own, chunk, seen, opened, pubsubVars>>

(* Mutation: the flag is tested and not set.                                        *)
StartPumpAlways(c) ==
    /\ pc[c] = "start"
    /\ \E p \in Pumps :
         /\ pc[p] = "off"
         /\ pc' = [pc EXCEPT ![c] = "live", ![p] = "sub"]
         /\ own' = [own EXCEPT ![p] = bound[c]]
    /\ UNCHANGED <<storeVars, sessionVars, bound, chunk, clientVars, pubsubVars>>

(* ... and spawns the pump unless the session has one (start_pump_once).            *)
StartPump(c) ==
    /\ pc[c] = "start"
    /\ IF started[bound[c]]
         THEN Goto(c, "live") /\ UNCHANGED <<started, own>>
         ELSE \E p \in Pumps :
                /\ pc[p] = "off"
                /\ pc' = [pc EXCEPT ![c] = "live", ![p] = "sub"]
                /\ own' = [own EXCEPT ![p] = bound[c]]
                /\ started' = [started EXCEPT ![bound[c]] = TRUE]
    /\ UNCHANGED <<storeVars, buffer, total, writers, grace, detaching, expiring, bound,
                   chunk, clientVars, pubsubVars>>

(* A live message goes to the WebSocket.                                            *)
Forward(c) ==
    /\ pc[c] = "live"
    /\ live[c] # <<>>
    /\ seen' = [seen EXCEPT ![c] = Last(Head(live[c]))]
    /\ live' = [live EXCEPT ![c] = Tail(@)]
    /\ UNCHANGED <<storeVars, sessionVars, taskStates, opened, pubsubVars>>

(* The WebSocket ends, while the scrollback is sent or later, or the publishing of  *)
(* an input frame fails.                                                            *)
Leave(c) ==
    /\ pc[c] \in {"replayed", "live"}
    /\ Goto(c, "off")
    /\ bound' = [bound EXCEPT ![c] = NoSession]
    /\ live' = [live EXCEPT ![c] = <<>>]
    /\ seen' = [seen EXCEPT ![c] = 0]
    /\ UNCHANGED <<storeVars, sessionVars, own, chunk, opened, pubsubVars>>

---------------------------------------------------------------------------------
(* The pump subscribes to the agent's output; it stops if it is refused.            *)
PumpSubscribe(p) ==
    /\ pc[p] = "sub"
    /\ \/ Subscribe(p) /\ Goto(p, IF entry THEN "lookup" ELSE "sub")
       \/ SendListen(p) /\ Goto(p, "lookup")
       \/ SendListenFails(p) /\ Goto(p, "stop")
       \/ SubscribeRefused(p) /\ Goto(p, "stop")
    /\ UNCHANGED <<storeVars, sessionVars, bound, own, chunk, clientVars>>

(* attach_agent: the grace window is cleared, then the writer is counted.           *)
ClearGrace(p) ==
    /\ pc[p] = "attached"
    /\ grace' = [grace EXCEPT ![bound[p]] = "none"]
    /\ Goto(p, "writer")
    /\ UNCHANGED <<storeVars, buffer, total, started, writers, detaching, expiring, bound,
                   own, chunk, clientVars, pubsubVars>>

AddWriter(p) ==
    /\ pc[p] = "writer"
    /\ writers' = [writers EXCEPT ![bound[p]] = @ + 1]
    /\ Goto(p, "recv")
    /\ UNCHANGED <<storeVars, buffer, total, started, grace, detaching, expiring, bound,
                   own, chunk, clientVars, pubsubVars>>

(* Mutation: one byte too many is kept.                                             *)
PushBytesLate(ring, bytes) ==
    IF Len(bytes) >= Capacity
      THEN SubSeq(bytes, Len(bytes) - Capacity + 1, Len(bytes))
      ELSE LET needed == Len(ring) + Len(bytes) - Capacity
           IN SubSeq(ring, IF needed > 1 THEN needed ELSE 1, Len(ring)) \o bytes

(* RingBuffer::push.                                                                *)
PushBytes(ring, bytes) ==
    IF Len(bytes) >= Capacity
      THEN SubSeq(bytes, Len(bytes) - Capacity + 1, Len(bytes))
      ELSE LET needed == Len(ring) + Len(bytes) - Capacity
           IN SubSeq(ring, (IF needed > 0 THEN needed ELSE 0) + 1, Len(ring)) \o bytes

(* push_output: the bytes go into the ring, and after its lock is released to the   *)
(* clients.                                                                         *)
PumpRecv(p) ==
    LET s == own[p]
        bytes == Span(total[s] + 1, total[s] + Head(inbox[p]))
    IN /\ pc[p] = "recv"
       /\ Recv(p)
       /\ buffer' = [buffer EXCEPT ![s] = PushBytes(@, bytes)]
       /\ total' = [total EXCEPT ![s] = @ + Len(bytes)]
       /\ chunk' = [chunk EXCEPT ![p] = bytes]
       /\ Goto(p, "fanout")
       /\ UNCHANGED <<storeVars, started, writers, grace, detaching, expiring, bound, own,
                      clientVars>>

Offer(q, bytes) == Append(IF Len(q) = FanoutBacklog THEN Tail(q) ELSE q, bytes)

Fanout(p) ==
    /\ pc[p] = "fanout"
    /\ live' = [c \in Clients |->
                  IF bound[c] = own[p] /\ pc[c] \in {"start", "live"}
                  THEN Offer(live[c], chunk[p]) ELSE live[c]]
    /\ chunk' = [chunk EXCEPT ![p] = <<>>]
    /\ Goto(p, "agent")
    /\ UNCHANGED <<storeVars, sessionVars, bound, own, seen, opened, pubsubVars>>

(* After every message the pump asks the agent provider for the agent, which comes  *)
(* and goes as it likes.                                                            *)
CheckAgent(p) ==
    /\ pc[p] = "agent"
    /\ Goto(p, "recv") \/ Goto(p, "end")
    /\ UNCHANGED <<storeVars, sessionVars, bound, own, chunk, clientVars, pubsubVars>>

PumpClosed(p) ==
    /\ pc[p] = "recv"
    /\ RecvClosed(p)
    /\ Goto(p, "end")
    /\ UNCHANGED <<storeVars, sessionVars, bound, own, chunk, clientVars, pubsubVars>>

(* Mutation: the guard is taken for one of the session the pump was spawned for.    *)
DropOwnAttach(p) ==
    /\ pc[p] = "end"
    /\ detaching' = [detaching EXCEPT ![own[p]] = @ + 1]
    /\ bound' = [bound EXCEPT ![p] = NoSession]
    /\ Goto(p, "stop")
    /\ UNCHANGED <<storeVars, buffer, total, started, writers, grace, expiring, own, chunk,
                   clientVars, pubsubVars>>

(* The AgentAttach is dropped, which spawns the detach task ...                     *)
DropAttach(p) ==
    /\ pc[p] = "end"
    /\ detaching' = [detaching EXCEPT ![bound[p]] = @ + 1]
    /\ bound' = [bound EXCEPT ![p] = NoSession]
    /\ Goto(p, "stop")
    /\ UNCHANGED <<storeVars, buffer, total, started, writers, grace, expiring, own, chunk,
                   clientVars, pubsubVars>>

(* Mutation: a pump that was refused its subscription or its attachment leaves the  *)
(* flag set.                                                                        *)
StopPumpQuietly(p) ==
    /\ pc[p] = "stop"
    /\ started' = [started EXCEPT ![own[p]] = sub[p] # "on"]
    /\ own' = [own EXCEPT ![p] = NoSession]
    /\ Goto(p, "off")
    /\ DropSubscription(p)
    /\ UNCHANGED <<storeVars, buffer, total, writers, grace, detaching, expiring, bound,
                   chunk, clientVars>>

(* ... and the pump is marked stopped; its subscription goes with the task, which   *)
(* ends in the same poll: nothing is awaited in between.                            *)
StopPump(p) ==
    /\ pc[p] = "stop"
    /\ started' = [started EXCEPT ![own[p]] = FALSE]
    /\ own' = [own EXCEPT ![p] = NoSession]
    /\ Goto(p, "off")
    /\ DropSubscription(p)
    /\ UNCHANGED <<storeVars, buffer, total, writers, grace, detaching, expiring, bound,
                   chunk, clientVars>>

(* The detach task: the writer is uncounted, and when it was the last one the grace *)
(* window is opened, after the lock on the count is released.                       *)
Detach(s) ==
    LET remaining == IF writers[s] > 0 THEN writers[s] - 1 ELSE 0
    IN /\ detaching[s] > 0
       /\ detaching' = [detaching EXCEPT ![s] = @ - 1]
       /\ writers' = [writers EXCEPT ![s] = remaining]
       /\ expiring' = [expiring EXCEPT ![s] = IF remaining = 0 THEN @ + 1 ELSE @]
       /\ UNCHANGED <<storeVars, buffer, total, started, grace, taskStates, clientVars,
                      pubsubVars>>

OpenGrace(s) ==
    /\ expiring[s] > 0
    /\ expiring' = [expiring EXCEPT ![s] = @ - 1]
    /\ grace' = [grace EXCEPT ![s] = "open"]
    /\ UNCHANGED <<storeVars, buffer, total, started, writers, detaching, taskStates,
                   clientVars, pubsubVars>>

---------------------------------------------------------------------------------
(* Time.                                                                            *)
GracePasses(s) ==
    /\ grace[s] = "open"
    /\ grace' = [grace EXCEPT ![s] = "passed"]
    /\ UNCHANGED <<storeVars, buffer, total, started, writers, detaching, expiring,
                   taskStates, clientVars, pubsubVars>>

ClientStep(c) == Replay(c) \/ SubscribeLive(c) \/ StartPump(c) \/ Forward(c)
PumpStep(p) == PumpSubscribe(p) \/ ClearGrace(p) \/ AddWriter(p) \/ PumpRecv(p) \/ Fanout(p)
               \/ CheckAgent(p) \/ PumpClosed(p) \/ DropAttach(p) \/ StopPump(p)

Next ==
    \/ \E x \in Callers : GetOrCreate(x)
    \/ \E c \in Clients : Open(c) \/ ClientStep(c) \/ Leave(c)
    \/ \E p \in Pumps : PumpStep(p)
    \/ \E s \in Sessions : Detach(s) \/ OpenGrace(s) \/ GracePasses(s)
    \/ (Publisher \/ Listener \/ Close \/ Closer) /\ UNCHANGED ptyVars

Spec == Init /\ [][Next]_vars

---------------------------------------------------------------------------------
PumpsOf(s) == {p \in Pumps : own[p] = s}
WritersOf(s) == {p \in Pumps : bound[p] = s /\ pc[p] \in {"recv", "fanout", "agent", "end"}}

(* Byte n is the last one of the session that was handed to the clients: what the   *)
(* pump has pushed and not fanned out yet comes after it.                           *)
HandedOut(s, n) ==
    IF PumpsOf(s) = {} THEN n = total[s]
    ELSE \A p \in PumpsOf(s) : n = total[s] - Len(chunk[p])

(* A session says that it has a pump exactly while one task runs for it: two tasks  *)
(* would interleave their pushes, and a flag left set by one of the early returns   *)
(* would leave the session without output for ever (start_pump_once,                *)
(* mark_pump_stopped).                                                              *)
PumpFlagIsTrue ==
    \A s \in Sessions : Cardinality(PumpsOf(s)) = IF started[s] THEN 1 ELSE 0

(* Session::writers counts the pumps attached to the session and the detach tasks   *)
(* that have not run yet, also when a pump was attached to another session than the *)
(* one it pushes into: a count too high would keep the grace window from opening.   *)
WritersAreCounted ==
    \A s \in Sessions : writers[s] = Cardinality(WritersOf(s)) + detaching[s]

(* The scrollback is the last Capacity bytes pushed, without a hole, whatever the   *)
(* sizes of the messages (RingBuffer::push).                                        *)
ScrollbackIsTail ==
    \A s \in Sessions :
        buffer[s] = Span(IF total[s] > Capacity THEN total[s] - Capacity + 1 ELSE 1, total[s])

(* What waits for an attached client is a run of consecutive bytes that ends with   *)
(* the last one handed out, and none of its messages ends before what it was sent   *)
(* already: from the moment it is subscribed a client loses nothing but what it     *)
(* lagged behind, and its output does not go back beyond the last message           *)
(* (push_output under one pump, live_rx in the handler).                            *)
StreamIsContiguous ==
    \A c \in Clients : pc[c] \in {"start", "live"} =>
        /\ \A i \in DOMAIN live[c] :
              /\ live[c][i] # <<>>
              /\ live[c][i] = Span(Head(live[c][i]), Last(live[c][i]))
              /\ i > 1 => Head(live[c][i]) = Last(live[c][i - 1]) + 1
              /\ Last(live[c][i]) >= seen[c]
        /\ live[c] # <<>> => HandedOut(bound[c], Last(Last(live[c])))

(* Once the pub/sub is closed no pump is left waiting for a message that cannot     *)
(* come: every one has a message or Closed to return from recv, also one whose      *)
(* subscribe had passed the closed check before (close, subscribe, recv).           *)
NobodyWaitsOnClosed ==
    closed => \A p \in Pumps : sub[p] = "on" => inbox[p] # <<>> \/ RecvClosed(p)
====================================================================================
