------------------------- MODULE ReconnectingPty_proofs --------------------------
(* The reconnecting PTY for any number of clients, pumps, sessions and messages and *)
(* any sizes of the ring and of the backlogs.                                       *)
EXTENDS ReconnectingPty, FiniteSetTheorems, TLAPS

Bytes == Nat \ {0}
States == {"off", "lookup", "check", "expire", "create", "attached", "replayed", "start", "live",
           "sub", "writer", "recv", "fanout", "agent", "end", "stop"}

PtyTypes ==
    /\ current \in 0..MaxSessions /\ made \in 0..MaxSessions
    /\ buffer \in [Sessions -> Seq(Nat)] /\ total \in [Sessions -> Nat]
    /\ started \in [Sessions -> BOOLEAN]
    /\ writers \in [Sessions -> Nat] /\ detaching \in [Sessions -> Nat]
    /\ pc \in [Callers -> States] /\ bound \in [Callers -> 0..MaxSessions]
    /\ own \in [Pumps -> 0..MaxSessions] /\ chunk \in [Pumps -> Seq(Nat)]
    /\ live \in [Clients -> Seq(Seq(Nat))] /\ seen \in [Clients -> Nat]

(* Where a caller uses its session it has one, and a running pump has its own.      *)
Binding ==
    /\ \A x \in Callers : pc[x] \notin {"off", "sub", "lookup", "create", "stop"} => bound[x] \in Sessions
    /\ \A p \in Pumps : own[p] = NoSession <=> pc[p] = "off"

TypesInv == PtyTypes /\ Binding

---------------------------------------------------------------------------------
(* Spans of bytes.                                                                  *)

LEMMA SpanType ==
  ASSUME NEW a \in Nat, NEW b \in Nat, a <= b + 1
  PROVE  /\ Span(a, b) \in Seq(Nat) /\ Len(Span(a, b)) = b - a + 1
         /\ \A i \in 1..(b - a + 1) : Span(a, b)[i] = a + i - 1
<1>1. b - a + 1 \in Nat
  OBVIOUS
<1>2. \A i \in 1..(b - a + 1) : a + i - 1 \in Nat
  OBVIOUS
<1>3. Span(a, b) \in [1..(b - a + 1) -> Nat]
  BY <1>2 DEF Span
<1>4. Span(a, b) \in Seq(Nat) /\ Len(Span(a, b)) = b - a + 1
  BY <1>1, <1>3
<1> QED
  BY <1>4 DEF Span

(* A sequence is a span if it has the length and the bytes of one.                  *)
LEMMA SpanIs ==
  ASSUME NEW a \in Nat, NEW b \in Nat, a <= b + 1, NEW s \in Seq(Nat), Len(s) = b - a + 1,
         \A i \in 1..(b - a + 1) : s[i] = a + i - 1
  PROVE  s = Span(a, b)
<1>1. s = [i \in 1..Len(s) |-> s[i]]
  OBVIOUS
<1>2. s = [i \in 1..(b - a + 1) |-> a + i - 1]
  BY <1>1
<1> QED
  BY <1>2 DEF Span

LEMMA ConcatFacts ==
  ASSUME NEW s \in Seq(Nat), NEW t \in Seq(Nat)
  PROVE  /\ s \o t \in Seq(Nat) /\ Len(s \o t) = Len(s) + Len(t)
         /\ \A i \in 1..(Len(s) + Len(t)) : (s \o t)[i] = IF i <= Len(s) THEN s[i] ELSE t[i - Len(s)]
  OBVIOUS

LEMMA SpanConcat ==
  ASSUME NEW a \in Nat, NEW b \in Nat, NEW c \in Nat, a <= b + 1, b <= c
  PROVE  Span(a, b) \o Span(b + 1, c) = Span(a, c)
<1> DEFINE s == Span(a, b)  t == Span(b + 1, c)
<1>1. s \in Seq(Nat) /\ Len(s) = b - a + 1 /\ \A i \in 1..(b - a + 1) : s[i] = a + i - 1
  BY SpanType
<1>2. t \in Seq(Nat) /\ Len(t) = c - (b + 1) + 1 /\ \A i \in 1..(c - (b + 1) + 1) : t[i] = (b + 1) + i - 1
  <2>1. b + 1 \in Nat /\ b + 1 <= c + 1
    OBVIOUS
  <2> HIDE DEF t
  <2> QED
    BY <2>1, SpanType DEF t
<1> HIDE DEF s, t
<1>3. /\ s \o t \in Seq(Nat) /\ Len(s \o t) = Len(s) + Len(t)
      /\ \A i \in 1..(Len(s) + Len(t)) : (s \o t)[i] = IF i <= Len(s) THEN s[i] ELSE t[i - Len(s)]
  BY <1>1, <1>2, ConcatFacts
<1>4. Len(s) + Len(t) = c - a + 1
  BY <1>1, <1>2
<1>5. ASSUME NEW i \in 1..(c - a + 1) PROVE (s \o t)[i] = a + i - 1
  <2>1. (s \o t)[i] = IF i <= Len(s) THEN s[i] ELSE t[i - Len(s)]
    BY <1>3, <1>4
  <2>2. CASE i <= Len(s)
    BY <1>1, <2>1, <2>2
  <2>3. CASE ~(i <= Len(s))
    <3>1. i - Len(s) \in 1..(c - (b + 1) + 1)
      BY <1>1, <2>3
    <3>2. t[i - Len(s)] = (b + 1) + (i - Len(s)) - 1
      BY <1>2, <3>1
    <3> QED
      BY <1>1, <2>1, <2>3, <3>2
  <2> QED
    BY <2>2, <2>3
<1>6. a <= c + 1 /\ Len(s \o t) = c - a + 1 /\ s \o t \in Seq(Nat)
  BY <1>3, <1>4
<1>7. s \o t = Span(a, c)
  BY <1>5, <1>6, SpanIs
<1> QED
  BY <1>7 DEF s, t

LEMMA SpanSuffix ==
  ASSUME NEW a \in Nat, NEW b \in Nat, NEW k \in Nat, a + k <= b + 1
  PROVE  SubSeq(Span(a, b), k + 1, Len(Span(a, b))) = Span(a + k, b)
<1> DEFINE s == Span(a, b)  t == SubSeq(s, k + 1, Len(s))
<1>1. s \in Seq(Nat) /\ Len(s) = b - a + 1 /\ \A i \in 1..(b - a + 1) : s[i] = a + i - 1
  <2>1. a <= b + 1
    OBVIOUS
  <2> QED
    BY <2>1, SpanType
<1> HIDE DEF s
<1>2. t \in Seq(Nat) /\ Len(t) = b - (a + k) + 1
  BY <1>1
<1>3. \A i \in 1..(b - (a + k) + 1) : t[i] = s[k + i]
  BY <1>1
<1>4. \A i \in 1..(b - (a + k) + 1) : t[i] = (a + k) + i - 1
  BY <1>1, <1>3
<1> HIDE DEF t
<1>5. a + k \in Nat
  OBVIOUS
<1>6. t = Span(a + k, b)
  BY <1>2, <1>4, <1>5, SpanIs
<1> QED
  BY <1>6 DEF s, t

(* Where the ring starts after n bytes, and what it holds.                          *)
TailFrom(n) == IF n > Capacity THEN n - Capacity + 1 ELSE 1
TailOf(n) == Span(TailFrom(n), n)

LEMMA TailFromType ==
  ASSUME NEW n \in Nat
  PROVE  TailFrom(n) \in Nat /\ TailFrom(n) >= 1 /\ TailFrom(n) <= n + 1
         /\ n - TailFrom(n) + 1 = (IF n > Capacity THEN Capacity ELSE n)
  BY PtyAssumption DEF TailFrom

(* RingBuffer::push keeps the last Capacity bytes, whatever the size of the push.   *)
LEMMA PushKeepsTail ==
  ASSUME NEW t \in Nat, NEW n \in Bytes
  PROVE  PushBytes(TailOf(t), Span(t + 1, t + n)) = TailOf(t + n)
<1> DEFINE bytes == Span(t + 1, t + n)
<1>0. Capacity \in Nat /\ Capacity >= 1 /\ n \in Nat /\ n >= 1 /\ t + 1 \in Nat /\ t + n \in Nat
  BY PtyAssumption DEF Bytes
<1>1. bytes \in Seq(Nat) /\ Len(bytes) = n
  <2>1. t + 1 <= (t + n) + 1 /\ (t + n) - (t + 1) + 1 = n
    BY <1>0
  <2>2. bytes \in Seq(Nat) /\ Len(bytes) = (t + n) - (t + 1) + 1
    BY <1>0, <2>1, SpanType
  <2> QED
    BY <2>1, <2>2
<1>2. CASE n >= Capacity
  <2> DEFINE k == n - Capacity
  <2>1. k \in Nat /\ (t + 1) + k <= (t + n) + 1 /\ (t + 1) + k = TailFrom(t + n)
    BY <1>0, <1>2 DEF TailFrom
  <2>2. PushBytes(TailOf(t), bytes) = SubSeq(bytes, k + 1, Len(bytes))
    BY <1>1, <1>2 DEF PushBytes
  <2> HIDE DEF k
  <2>3. SubSeq(bytes, k + 1, Len(bytes)) = Span((t + 1) + k, t + n)
    BY <1>0, <2>1, SpanSuffix
  <2> QED
    BY <2>1, <2>2, <2>3 DEF TailOf
<1>3. CASE n < Capacity
  <2> DEFINE from == TailFrom(t)
             needed == Len(TailOf(t)) + Len(bytes) - Capacity
             k == IF needed > 0 THEN needed ELSE 0
  <2>1. from \in Nat /\ from <= t + 1 /\ t - from + 1 = (IF t > Capacity THEN Capacity ELSE t)
    BY TailFromType
  <2>2. Len(TailOf(t)) = t - from + 1
    BY <2>1, SpanType DEF TailOf
  <2>3. PushBytes(TailOf(t), bytes) = SubSeq(TailOf(t), k + 1, Len(TailOf(t))) \o bytes
    <3>1. ~(Len(bytes) >= Capacity)
      BY <1>0, <1>1, <1>3
    <3> QED
      BY <3>1 DEF PushBytes
  <2>4. needed = (IF t > Capacity THEN Capacity ELSE t) + n - Capacity
    BY <1>1, <2>1, <2>2
  <2>5. k \in Nat /\ from + k <= t + 1 /\ from + k = TailFrom(t + n)
    <3>1. from = IF t > Capacity THEN t - Capacity + 1 ELSE 1
      BY DEF TailFrom
    <3>2. k = IF needed > 0 THEN needed ELSE 0
      OBVIOUS
    <3>3. TailFrom(t + n) = IF t + n > Capacity THEN t + n - Capacity + 1 ELSE 1
      BY <1>0 DEF TailFrom
    <3> HIDE DEF from, k, needed
    <3> QED
      BY <1>0, <1>3, <2>4, <3>1, <3>2, <3>3
  <2> HIDE DEF from, k, needed
  <2>6. SubSeq(TailOf(t), k + 1, Len(TailOf(t))) = Span(from + k, t)
    BY <2>1, <2>5, SpanSuffix DEF TailOf, from
  <2>7. Span(from + k, t) \o Span(t + 1, t + n) = Span(from + k, t + n)
    <3>1. from + k \in Nat /\ t <= t + n
      BY <1>0, <2>1, <2>5
    <3> QED
      BY <1>0, <2>5, <3>1, SpanConcat
  <2> QED
    BY <2>3, <2>5, <2>6, <2>7 DEF TailOf
<1> QED
  BY <1>0, <1>2, <1>3

---------------------------------------------------------------------------------
(* The pub/sub: messages have a size, and once it is closed no receiver is attached *)
(* to a sender.                                                                     *)
PubSubInv ==
    /\ inbox \in [Subscribers -> Seq(Bytes)] /\ notifs \in Seq(Bytes)
    /\ published \in Nat
    /\ closed => attached = {}

LEMMA DeliverType ==
  ASSUME NEW q \in Seq(Bytes), NEW m \in Bytes
  PROVE  Deliver(q, m) \in Seq(Bytes)
<1>1. Len(q) = Backlog => q # <<>>
  BY PubSubAssumption
<1>2. (IF Len(q) = Backlog THEN Tail(q) ELSE q) \in Seq(Bytes)
  BY <1>1
<1> QED
  BY <1>2 DEF Deliver

LEMMA SubscriberKeeps ==
  ASSUME PubSubInv, NEW k \in Subscribers,
         \/ SubscribeRefused(k) \/ Subscribe(k) \/ SendListen(k) \/ SendListenFails(k)
         \/ Recv(k) \/ DropSubscription(k)
  PROVE  PubSubInv'
<1> USE DEF PubSubInv, taskVars, callVars
<1>1. <<>> \in Seq(Bytes)
  OBVIOUS
<1>2. CASE SubscribeRefused(k)
  BY <1>2 DEF SubscribeRefused, pubsubVars
<1>3. CASE Subscribe(k)
  BY <1>1, <1>3 DEF Subscribe
<1>4. CASE SendListen(k)
  BY <1>4 DEF SendListen
<1>5. CASE SendListenFails(k)
  BY <1>1, <1>5 DEF SendListenFails, RemoveEntry
<1>6. CASE Recv(k)
  BY <1>6 DEF Recv
<1>7. CASE DropSubscription(k)
  BY <1>1, <1>7 DEF DropSubscription
<1> QED
  BY <1>2, <1>3, <1>4, <1>5, <1>6, <1>7

LEMMA BrokerKeeps ==
  ASSUME PubSubInv, Publisher \/ Listener \/ Close \/ Closer
  PROVE  PubSubInv'
<1> USE DEF PubSubInv, mapVars, taskVars, callVars
<1>1. CASE Publish
  <2>1. Messages[published + 1] \in Bytes /\ published' \in Nat
    BY <1>1, PubSubAssumption DEF Publish, PublishNext, Bytes
  <2>2. notifs' \in Seq(Bytes)
    BY <1>1, <2>1 DEF Publish
  <2> QED
    BY <1>1, <2>1, <2>2 DEF Publish
<1>2. CASE PublishFails
  BY <1>2 DEF PublishFails, PublishNext
<1>3. CASE PublishChecked \/ MaybeCleanup \/ SendUnlisten
  BY <1>3 DEF PublishChecked, MaybeCleanup, SendUnlisten, RemoveEntry
<1>4. CASE Listen \/ ListenFails \/ Unlisten \/ UnlistenFails
  <2>1. /\ UNCHANGED <<closed, inbox, notifs, published>>
        /\ attached' = attached \/ attached' = {}
    BY <1>4 DEF Listen, ListenFails, Unlisten, UnlistenFails, RemoveEntry
  <2> QED
    BY <2>1
<1>5. CASE ListenerStops \/ Reconnect
  <2>1. UNCHANGED <<closed, attached, inbox, published>> /\ notifs' = <<>>
    BY <1>5 DEF ListenerStops, Reconnect
  <2> QED
    BY <2>1
<1>6. CASE Dispatch
  <2>1. notifs # <<>> /\ Head(notifs) \in Bytes /\ notifs' \in Seq(Bytes)
    BY <1>6 DEF Dispatch
  <2>2. \A k \in Subscribers : Deliver(inbox[k], Head(notifs)) \in Seq(Bytes)
    BY <2>1, DeliverType
  <2>3. inbox' \in [Subscribers -> Seq(Bytes)]
    BY <1>6, <2>2 DEF Dispatch
  <2> QED
    BY <1>6, <2>1, <2>3 DEF Dispatch
<1>7. CASE Close
  BY <1>7 DEF Close, RemoveEntry
<1>8. CASE Closer
  BY <1>8 DEF Closer, SendClose, Joined
<1> QED
  BY <1>1, <1>2, <1>3, <1>4, <1>5, <1>6, <1>7, <1>8 DEF Publisher, Listener

LEMMA PubSubStays == PubSubInv /\ UNCHANGED pubsubVars => PubSubInv'
  BY DEF PubSubInv, pubsubVars

LEMMA PubSubStep == PubSubInv /\ [Next]_vars => PubSubInv'
<1> SUFFICES ASSUME PubSubInv, [Next]_vars PROVE PubSubInv'
  OBVIOUS
<1>1. ASSUME NEW x \in Callers, GetOrCreate(x) PROVE PubSubInv'
  BY <1>1, PubSubStays DEF GetOrCreate, Lookup, CheckGrace, Expire, Create
<1>2. ASSUME NEW c \in Clients, Open(c) \/ ClientStep(c) \/ Leave(c) PROVE PubSubInv'
  BY <1>2, PubSubStays DEF Open, ClientStep, Leave, Replay, SubscribeLive, StartPump, Forward
<1>3. ASSUME NEW p \in Pumps, PumpStep(p) PROVE PubSubInv'
  <2>1. CASE PumpSubscribe(p)
    BY <1>3, <2>1, SubscriberKeeps DEF PumpSubscribe, Pumps
  <2>2. CASE PumpRecv(p)
    BY <1>3, <2>2, SubscriberKeeps DEF PumpRecv, Pumps
  <2>3. CASE StopPump(p)
    BY <1>3, <2>3, SubscriberKeeps DEF StopPump, Pumps
  <2>4. CASE \/ ClearGrace(p) \/ AddWriter(p) \/ Fanout(p) \/ CheckAgent(p)
             \/ PumpClosed(p) \/ DropAttach(p)
    BY <2>4, PubSubStays DEF ClearGrace, AddWriter, Fanout, CheckAgent, PumpClosed, DropAttach
  <2> QED
    BY <1>3, <2>1, <2>2, <2>3, <2>4 DEF PumpStep
<1>4. ASSUME NEW s \in Sessions, Detach(s) \/ OpenGrace(s) \/ GracePasses(s) PROVE PubSubInv'
  BY <1>4, PubSubStays DEF Detach, OpenGrace, GracePasses
<1>5. CASE Publisher \/ Listener \/ Close \/ Closer
  BY <1>5, BrokerKeeps
<1>6. CASE UNCHANGED vars
  BY <1>6, PubSubStays DEF vars
<1> QED
  BY <1>1, <1>2, <1>3, <1>4, <1>5, <1>6 DEF Next

LEMMA PubSubInitially == Init => PubSubInv
  BY DEF Init, PubSubInit, PubSubInv

(* close() leaves nobody behind: a pump that waits for a message is woken, whichever *)
(* step of subscribing it was at (close, subscribe, recv).                          *)
THEOREM ClosedPumpsEnd == Spec => []NobodyWaitsOnClosed
<1>1. PubSubInv => NobodyWaitsOnClosed
  BY DEF PubSubInv, NobodyWaitsOnClosed, RecvClosed
<1> QED
  BY PubSubInitially, PubSubStep, <1>1, PTL DEF Spec

---------------------------------------------------------------------------------
(* Types and bindings.                                                              *)

LEMMA NotBoth == Clients \subseteq Callers /\ Pumps \subseteq Callers /\ Clients \cap Pumps = {}
  BY PtyAssumption DEF Callers, Pumps

LEMMA SessionsAre == Sessions = (0..MaxSessions) \ {NoSession}
  BY PtyAssumption DEF Sessions, NoSession

LEMMA TypesInitially == Init => TypesInv
<1> SUFFICES ASSUME Init PROVE TypesInv
  OBVIOUS
<1>1. current \in 0..MaxSessions /\ made \in 0..MaxSessions /\ NoSession \in 0..MaxSessions
  BY PtyAssumption DEF Init, NoSession
<1>2. PtyTypes
  BY <1>1 DEF Init, PtyTypes, States
<1>3. Binding
  BY NotBoth DEF Init, Binding
<1> QED
  BY <1>2, <1>3 DEF TypesInv

\* A caller moves on without a change of sessions or of their pumps.
LEMMA MoveKeeps ==
  ASSUME TypesInv, NEW x \in Callers, NEW at \in States, Goto(x, at),
         UNCHANGED <<bound, own>>,
         at \notin {"off", "sub", "lookup", "create", "stop"} => bound[x] \in Sessions,
         x \in Pumps => (at = "off" <=> pc[x] = "off")
  PROVE  pc' \in [Callers -> States] /\ Binding'
<1>1. pc' = [pc EXCEPT ![x] = at] /\ pc \in [Callers -> States]
  BY DEF Goto, TypesInv, PtyTypes
<1>2. \A y \in Callers : pc'[y] = IF y = x THEN at ELSE pc[y]
  BY <1>1
<1> QED
  BY <1>1, <1>2, NotBoth DEF TypesInv, Binding

LEMMA LookupTypes ==
  ASSUME TypesInv, NEW x \in Callers, GetOrCreate(x)
  PROVE  TypesInv'
<1> USE DEF storeVars, sessionVars, clientVars
<1>1. UNCHANGED <<buffer, total, started, writers, detaching, own, chunk, live, seen>>
  BY DEF GetOrCreate, Lookup, CheckGrace, Expire, Create
<1>2. pc \in [Callers -> States] /\ bound \in [Callers -> 0..MaxSessions] /\ own \in [Pumps -> 0..MaxSessions]
      /\ current \in 0..MaxSessions /\ made \in 0..MaxSessions
  BY DEF TypesInv, PtyTypes
<1>3. /\ current' \in 0..MaxSessions /\ made' \in 0..MaxSessions
      /\ bound' \in [Callers -> 0..MaxSessions]
  <2>1. NoSession \in 0..MaxSessions /\ (made < MaxSessions => made + 1 \in 0..MaxSessions)
    BY <1>2, PtyAssumption DEF NoSession
  <2> QED
    BY <1>2, <2>1 DEF GetOrCreate, Lookup, CheckGrace, Expire, Create
<1>4. \A y \in Callers \ {x} : bound'[y] = bound[y] /\ pc'[y] = pc[y]
  BY <1>2 DEF GetOrCreate, Lookup, CheckGrace, Expire, Create, Goto
<1>5. /\ pc' \in [Callers -> States]
      /\ pc'[x] \notin {"off", "sub", "lookup", "create", "stop"} => bound'[x] \in Sessions
      /\ x \in Pumps => pc[x] # "off" /\ pc'[x] # "off"
  <2>1. CASE Lookup(x)
    BY <1>2, <2>1, SessionsAre DEF Lookup, Goto, States
  <2>2. CASE CheckGrace(x)
    BY <1>2, <2>2 DEF CheckGrace, Goto, States, TypesInv, Binding
  <2>3. CASE Expire(x)
    BY <1>2, <2>3, NotBoth DEF Expire, Goto, States
  <2>4. CASE Create(x)
    <3>1. made < MaxSessions => made + 1 \in Sessions
      BY <1>2, PtyAssumption DEF Sessions
    <3>2. current # NoSession => current \in Sessions
      BY <1>2, SessionsAre
    <3> QED
      BY <1>2, <2>4, <3>1, <3>2 DEF Create, Goto, States
  <2> QED
    BY <2>1, <2>2, <2>3, <2>4 DEF GetOrCreate
<1>6. PtyTypes'
  BY <1>1, <1>3, <1>5 DEF TypesInv, PtyTypes
<1>7. Binding'
  BY <1>1, <1>4, <1>5, NotBoth DEF TypesInv, Binding
<1> QED
  BY <1>6, <1>7 DEF TypesInv

LEMMA SpanBytes ==
  ASSUME NEW t \in Nat, NEW n \in Bytes
  PROVE  /\ Span(t + 1, t + n) \in Seq(Nat) /\ Len(Span(t + 1, t + n)) = n
         /\ Head(Span(t + 1, t + n)) = t + 1 /\ Last(Span(t + 1, t + n)) = t + n
<1>1. t + 1 \in Nat /\ t + n \in Nat /\ n >= 1 /\ t + 1 <= (t + n) + 1 /\ (t + n) - (t + 1) + 1 = n
  BY DEF Bytes
<1>2. /\ Span(t + 1, t + n) \in Seq(Nat) /\ Len(Span(t + 1, t + n)) = (t + n) - (t + 1) + 1
      /\ \A i \in 1..((t + n) - (t + 1) + 1) : Span(t + 1, t + n)[i] = (t + 1) + i - 1
  BY <1>1, SpanType
<1> DEFINE s == Span(t + 1, t + n)
<1> HIDE DEF s
<1>3. s \in Seq(Nat) /\ Len(s) = n /\ \A i \in 1..n : s[i] = (t + 1) + i - 1
  BY <1>1, <1>2 DEF s
<1>4. s[1] = t + 1 /\ s[n] = t + n /\ Head(s) = s[1]
  BY <1>1, <1>3 DEF Bytes
<1> QED
  BY <1>3, <1>4 DEF s, Last

LEMMA OfferType ==
  ASSUME NEW q \in Seq(Seq(Nat)), NEW b \in Seq(Nat)
  PROVE  Offer(q, b) \in Seq(Seq(Nat))
<1>1. Len(q) = FanoutBacklog => q # <<>>
  BY PtyAssumption
<1>2. (IF Len(q) = FanoutBacklog THEN Tail(q) ELSE q) \in Seq(Seq(Nat))
  BY <1>1
<1> QED
  BY <1>2 DEF Offer

LEMMA ClientTypes ==
  ASSUME TypesInv, StreamIsContiguous, NEW c \in Clients,
         Open(c) \/ ClientStep(c) \/ Leave(c)
  PROVE  TypesInv'
<1> USE NotBoth DEF storeVars, sessionVars, taskStates, clientVars
<1>0. c \in Callers /\ c \notin Pumps
  OBVIOUS
<1>1. CASE Open(c)
  <2>1. pc' \in [Callers -> States] /\ Binding'
    BY <1>0, <1>1, MoveKeeps DEF Open, States
  <2> QED
    BY <1>1, <2>1 DEF Open, TypesInv, PtyTypes
<1>2. CASE Replay(c)
  <2>1. bound[c] \in Sessions
    BY <1>0, <1>2 DEF Replay, TypesInv, Binding
  <2>2. pc' \in [Callers -> States] /\ Binding'
    BY <1>0, <1>2, <2>1, MoveKeeps DEF Replay, States
  <2>3. buffer[bound[c]] \in Seq(Nat)
    BY <2>1 DEF TypesInv, PtyTypes
  <2>4. buffer[bound[c]] # <<>> => Last(buffer[bound[c]]) \in Nat
    BY <2>3 DEF Last
  <2>5. seen' \in [Clients -> Nat]
    BY <1>2, <2>4 DEF Replay, TypesInv, PtyTypes
  <2> QED
    BY <1>2, <2>2, <2>5 DEF Replay, TypesInv, PtyTypes
<1>3. CASE SubscribeLive(c)
  <2>1. pc' \in [Callers -> States] /\ Binding'
    BY <1>0, <1>3, MoveKeeps DEF SubscribeLive, States, TypesInv, Binding
  <2>2. live' \in [Clients -> Seq(Seq(Nat))]
    BY <1>3 DEF SubscribeLive, TypesInv, PtyTypes
  <2> QED
    BY <1>3, <2>1, <2>2 DEF SubscribeLive, TypesInv, PtyTypes
<1>4. CASE StartPump(c)
  <2>0. bound[c] \in Sessions /\ started \in [Sessions -> BOOLEAN]
    BY <1>0, <1>4 DEF StartPump, TypesInv, Binding, PtyTypes
  <2>1. CASE started[bound[c]]
    <3>1. Goto(c, "live") /\ UNCHANGED <<storeVars, sessionVars, bound, own, chunk, clientVars>>
      BY <1>4, <2>1 DEF StartPump
    <3>2. pc' \in [Callers -> States] /\ Binding'
      BY <1>0, <2>0, <3>1, MoveKeeps DEF States
    <3> QED
      BY <3>1, <3>2 DEF TypesInv, PtyTypes
  <2>2. CASE ~started[bound[c]]
    <3>1. PICK p \in Pumps : /\ pc[p] = "off"
                             /\ pc' = [pc EXCEPT ![c] = "live", ![p] = "sub"]
                             /\ own' = [own EXCEPT ![p] = bound[c]]
                             /\ started' = [started EXCEPT ![bound[c]] = TRUE]
      BY <1>4, <2>2 DEF StartPump
    <3>2. pc \in [Callers -> States] /\ own \in [Pumps -> 0..MaxSessions] /\ bound[c] \in 0..MaxSessions /\ bound[c] # NoSession
      BY <2>0, SessionsAre DEF TypesInv, PtyTypes
    <3>3. \A y \in Callers : pc'[y] = IF y = p THEN "sub" ELSE IF y = c THEN "live" ELSE pc[y]
      BY <1>0, <3>1, <3>2
    <3>4. pc' \in [Callers -> States] /\ own' \in [Pumps -> 0..MaxSessions] /\ started' \in [Sessions -> BOOLEAN]
      BY <2>0, <3>1, <3>2 DEF States
    <3>5. \A q \in Pumps : own'[q] = IF q = p THEN bound[c] ELSE own[q]
      BY <3>1, <3>2
    <3>6. UNCHANGED <<storeVars, buffer, total, writers, detaching, bound, chunk, clientVars>>
      BY <1>4 DEF StartPump
    <3>7. PtyTypes'
      BY <3>4, <3>6 DEF TypesInv, PtyTypes
    <3>8. Binding'
      BY <1>0, <2>0, <3>2, <3>3, <3>5, <3>6 DEF TypesInv, Binding
    <3> QED
      BY <3>7, <3>8 DEF TypesInv
  <2> QED
    BY <2>1, <2>2
<1>5. CASE Forward(c)
  <2>1. live[c] \in Seq(Seq(Nat)) /\ live[c] # <<>> /\ pc[c] = "live"
    BY <1>5 DEF Forward, TypesInv, PtyTypes
  <2>2. Head(live[c]) \in Seq(Nat) /\ Tail(live[c]) \in Seq(Seq(Nat)) /\ Head(live[c]) = live[c][1]
        /\ 1 \in DOMAIN live[c]
    BY <2>1
  <2>3. Head(live[c]) # <<>>
    BY <2>1, <2>2 DEF StreamIsContiguous
  <2>4. Last(Head(live[c])) \in Nat
    BY <2>2, <2>3 DEF Last
  <2>5. seen' \in [Clients -> Nat] /\ live' \in [Clients -> Seq(Seq(Nat))]
    BY <1>5, <2>2, <2>4 DEF Forward, TypesInv, PtyTypes
  <2>6. Binding'
    BY <1>5 DEF Forward, TypesInv, Binding
  <2> QED
    BY <1>5, <2>5, <2>6 DEF Forward, TypesInv, PtyTypes
<1>6. CASE Leave(c)
  <2>1. pc' = [pc EXCEPT ![c] = "off"] /\ bound' = [bound EXCEPT ![c] = NoSession] /\ own' = own
    BY <1>6 DEF Leave, Goto
  <2>2. NoSession \in 0..MaxSessions
    BY PtyAssumption DEF NoSession
  <2>3. PtyTypes'
    BY <1>0, <1>6, <2>1, <2>2 DEF Leave, TypesInv, PtyTypes, States
  <2>4. \A y \in Callers \ {c} : pc'[y] = pc[y] /\ bound'[y] = bound[y]
    BY <2>1 DEF TypesInv, PtyTypes
  <2>5. pc'[c] = "off"
    BY <1>0, <2>1 DEF TypesInv, PtyTypes
  <2>6. Binding'
    BY <1>0, <2>1, <2>4, <2>5 DEF TypesInv, Binding
  <2> QED
    BY <2>3, <2>6 DEF TypesInv
<1> QED
  BY <1>1, <1>2, <1>3, <1>4, <1>5, <1>6 DEF ClientStep

(* What the pump pushes is a run of the next bytes of its session.                  *)
LEMMA PumpRecvFacts ==
  ASSUME TypesInv, PubSubInv, NEW p \in Pumps, PumpRecv(p)
  PROVE  \E n \in Bytes :
            LET s == own[p]  bytes == Span(total[s] + 1, total[s] + n)
            IN  /\ s \in Sessions /\ total[s] \in Nat
                /\ bytes \in Seq(Nat) /\ Len(bytes) = n
                /\ buffer' = [buffer EXCEPT ![s] = PushBytes(@, bytes)]
                /\ total' = [total EXCEPT ![s] = @ + n]
                /\ chunk' = [chunk EXCEPT ![p] = bytes]
                /\ Goto(p, "fanout") /\ pc[p] = "recv"
<1> DEFINE n == Head(inbox[p])
<1>1. n \in Bytes
  BY DEF PumpRecv, Recv, PubSubInv, Pumps
<1>2. own[p] \in Sessions /\ total[own[p]] \in Nat /\ pc[p] = "recv"
  BY SessionsAre DEF PumpRecv, TypesInv, PtyTypes, Binding
<1>3. LET bytes == Span(total[own[p]] + 1, total[own[p]] + n) IN bytes \in Seq(Nat) /\ Len(bytes) = n
  BY <1>1, <1>2, SpanBytes
<1> HIDE DEF n
<1>4. LET s == own[p]  bytes == Span(total[s] + 1, total[s] + n)
      IN  /\ buffer' = [buffer EXCEPT ![s] = PushBytes(@, bytes)]
          /\ total' = [total EXCEPT ![s] = @ + n]
          /\ chunk' = [chunk EXCEPT ![p] = bytes]
          /\ Goto(p, "fanout")
  BY <1>3 DEF PumpRecv, n
<1> QED
  BY <1>1, <1>2, <1>3, <1>4

LEMMA PumpTypes ==
  ASSUME TypesInv, PubSubInv, ScrollbackIsTail, NEW p \in Pumps, PumpStep(p)
  PROVE  TypesInv'
<1> USE NotBoth DEF storeVars, sessionVars, taskStates, clientVars
<1>0. p \in Callers /\ p \notin Clients
  OBVIOUS
<1>1. CASE PumpSubscribe(p)
  <2>1. PICK at \in {"lookup", "sub", "stop"} : Goto(p, at)
    BY <1>1 DEF PumpSubscribe
  <2>2. pc' \in [Callers -> States] /\ Binding'
    BY <1>0, <1>1, <2>1, MoveKeeps DEF PumpSubscribe, States
  <2> QED
    BY <1>1, <2>2 DEF PumpSubscribe, TypesInv, PtyTypes
<1>2. CASE ClearGrace(p)
  <2>1. pc' \in [Callers -> States] /\ Binding'
    BY <1>0, <1>2, MoveKeeps DEF ClearGrace, States, TypesInv, Binding
  <2> QED
    BY <1>2, <2>1 DEF ClearGrace, TypesInv, PtyTypes
<1>3. CASE AddWriter(p)
  <2>1. pc' \in [Callers -> States] /\ Binding'
    BY <1>0, <1>3, MoveKeeps DEF AddWriter, States, TypesInv, Binding
  <2>2. bound[p] \in Sessions
    BY <1>0, <1>3 DEF AddWriter, TypesInv, Binding
  <2>3. writers' \in [Sessions -> Nat]
    BY <1>3, <2>2 DEF AddWriter, TypesInv, PtyTypes
  <2> QED
    BY <1>3, <2>1, <2>3 DEF AddWriter, TypesInv, PtyTypes
<1>4. CASE PumpRecv(p)
  <2>1. PICK n \in Bytes :
            LET s == own[p]  bytes == Span(total[s] + 1, total[s] + n)
            IN  /\ s \in Sessions /\ total[s] \in Nat
                /\ bytes \in Seq(Nat) /\ Len(bytes) = n
                /\ buffer' = [buffer EXCEPT ![s] = PushBytes(@, bytes)]
                /\ total' = [total EXCEPT ![s] = @ + n]
                /\ chunk' = [chunk EXCEPT ![p] = bytes]
                /\ Goto(p, "fanout") /\ pc[p] = "recv"
    BY <1>4, PumpRecvFacts
  <2> DEFINE s == own[p]  t == total[s]
  <2>2. PushBytes(buffer[s], Span(t + 1, t + n)) = TailOf(t + n)
    BY <2>1, PushKeepsTail DEF ScrollbackIsTail, TailOf, TailFrom
  <2>3. t + n \in Nat
    BY <2>1 DEF Bytes
  <2>4. TailOf(t + n) \in Seq(Nat)
    BY <2>3, TailFromType, SpanType DEF TailOf
  <2>5. buffer' \in [Sessions -> Seq(Nat)]
    BY <2>1, <2>2, <2>4 DEF TypesInv, PtyTypes
  <2>6. total' \in [Sessions -> Nat] /\ chunk' \in [Pumps -> Seq(Nat)]
    BY <2>1, <2>3 DEF TypesInv, PtyTypes
  <2>7. UNCHANGED <<storeVars, started, writers, detaching, bound, own, live, seen>>
    BY <1>4 DEF PumpRecv
  <2>8. pc' \in [Callers -> States] /\ Binding'
    BY <1>0, <2>1, <2>7, MoveKeeps DEF States, TypesInv, Binding
  <2> QED
    BY <2>5, <2>6, <2>7, <2>8 DEF TypesInv, PtyTypes
<1>5. CASE Fanout(p)
  <2>1. pc' \in [Callers -> States] /\ Binding'
    BY <1>0, <1>5, MoveKeeps DEF Fanout, States, TypesInv, Binding
  <2>2. \A c \in Clients : Offer(live[c], chunk[p]) \in Seq(Seq(Nat))
    BY OfferType DEF TypesInv, PtyTypes
  <2>3. live' \in [Clients -> Seq(Seq(Nat))]
    BY <1>5, <2>2 DEF Fanout, TypesInv, PtyTypes
  <2>4. chunk' \in [Pumps -> Seq(Nat)]
    BY <1>5 DEF Fanout, TypesInv, PtyTypes
  <2> QED
    BY <1>5, <2>1, <2>3, <2>4 DEF Fanout, TypesInv, PtyTypes
<1>6. CASE CheckAgent(p) \/ PumpClosed(p)
  <2>1. PICK at \in {"recv", "end"} : Goto(p, at)
    BY <1>6 DEF CheckAgent, PumpClosed
  <2>2. pc[p] \in {"agent", "recv"} /\ UNCHANGED <<storeVars, sessionVars, bound, own, chunk, clientVars>>
    BY <1>6 DEF CheckAgent, PumpClosed
  <2>3. pc' \in [Callers -> States] /\ Binding'
    BY <1>0, <2>1, <2>2, MoveKeeps DEF States, TypesInv, Binding
  <2> QED
    BY <2>2, <2>3 DEF TypesInv, PtyTypes
<1>7. CASE DropAttach(p)
  <2>1. /\ pc' = [pc EXCEPT ![p] = "stop"] /\ bound' = [bound EXCEPT ![p] = NoSession] /\ own' = own
        /\ pc[p] = "end" /\ detaching' = [detaching EXCEPT ![bound[p]] = @ + 1]
    BY <1>7 DEF DropAttach, Goto
  <2>2. NoSession \in 0..MaxSessions
    BY PtyAssumption DEF NoSession
  <2>a. bound[p] \in Sessions
    BY <1>0, <2>1 DEF TypesInv, Binding
  <2>b. detaching' \in [Sessions -> Nat]
    BY <2>1, <2>a DEF TypesInv, PtyTypes
  <2>c. pc' \in [Callers -> States] /\ bound' \in [Callers -> 0..MaxSessions]
    BY <1>0, <2>1, <2>2 DEF TypesInv, PtyTypes, States
  <2>3. PtyTypes'
    BY <1>7, <2>b, <2>c DEF DropAttach, TypesInv, PtyTypes
  <2>4. \A y \in Callers \ {p} : pc'[y] = pc[y] /\ bound'[y] = bound[y]
    BY <2>1 DEF TypesInv, PtyTypes
  <2>5. pc'[p] = "stop"
    BY <1>0, <2>1 DEF TypesInv, PtyTypes
  <2>6. Binding'
    BY <1>0, <2>1, <2>4, <2>5 DEF TypesInv, Binding
  <2> QED
    BY <2>3, <2>6 DEF TypesInv
<1>8. CASE StopPump(p)
  <2>1. /\ pc' = [pc EXCEPT ![p] = "off"] /\ own' = [own EXCEPT ![p] = NoSession] /\ bound' = bound
        /\ started' = [started EXCEPT ![own[p]] = FALSE]
    BY <1>8 DEF StopPump, Goto
  <2>2. NoSession \in 0..MaxSessions
    BY PtyAssumption DEF NoSession
  <2>3. PtyTypes'
    <3>1. pc' \in [Callers -> States]
      BY <1>0, <2>1 DEF TypesInv, PtyTypes, States
    <3>2. own' \in [Pumps -> 0..MaxSessions] /\ started' \in [Sessions -> BOOLEAN]
      BY <1>0, <2>1, <2>2 DEF TypesInv, PtyTypes
    <3> QED
      BY <1>8, <2>1, <3>1, <3>2 DEF StopPump, TypesInv, PtyTypes
  <2>4. \A y \in Callers : pc'[y] = IF y = p THEN "off" ELSE pc[y]
    BY <2>1 DEF TypesInv, PtyTypes
  <2>5. \A q \in Pumps : own'[q] = IF q = p THEN NoSession ELSE own[q]
    BY <2>1 DEF TypesInv, PtyTypes
  <2>6. Binding'
    BY <1>0, <2>1, <2>4, <2>5 DEF TypesInv, Binding
  <2> QED
    BY <2>3, <2>6 DEF TypesInv
<1> QED
  BY <1>1, <1>2, <1>3, <1>4, <1>5, <1>6, <1>7, <1>8 DEF PumpStep

LEMMA SessionTypes ==
  ASSUME TypesInv, NEW s \in Sessions, Detach(s) \/ OpenGrace(s) \/ GracePasses(s)
  PROVE  TypesInv'
<1> USE DEF storeVars, taskStates, clientVars
<1>1. Binding'
  BY DEF Detach, OpenGrace, GracePasses, TypesInv, Binding
<1>2. CASE Detach(s)
  <2>1. /\ detaching' = [detaching EXCEPT ![s] = @ - 1] /\ detaching[s] > 0
        /\ writers' = [writers EXCEPT ![s] = IF writers[s] > 0 THEN writers[s] - 1 ELSE 0]
    BY <1>2 DEF Detach
  <2>2. detaching' \in [Sessions -> Nat] /\ writers' \in [Sessions -> Nat]
    BY <2>1 DEF TypesInv, PtyTypes
  <2> QED
    BY <1>1, <1>2, <2>2 DEF Detach, TypesInv, PtyTypes
<1>3. CASE OpenGrace(s) \/ GracePasses(s)
  BY <1>1, <1>3 DEF OpenGrace, GracePasses, TypesInv, PtyTypes
<1> QED
  BY <1>2, <1>3

(* A step of the pub/sub alone, and a stutter, leave the PTY as it is.              *)
LEMMA PtyIdle ==
  ASSUME TypesInv, UNCHANGED ptyVars
  PROVE  TypesInv'
  BY DEF ptyVars, storeVars, sessionVars, taskStates, clientVars, TypesInv, PtyTypes, Binding

(* The cases of a step.                                                             *)
LEMMA NextCases ==
  ASSUME [Next]_vars
  PROVE  \/ \E x \in Callers : GetOrCreate(x)
         \/ \E c \in Clients : Open(c) \/ ClientStep(c) \/ Leave(c)
         \/ \E p \in Pumps : PumpStep(p)
         \/ \E s \in Sessions : Detach(s) \/ OpenGrace(s) \/ GracePasses(s)
         \/ UNCHANGED ptyVars
  BY DEF Next, vars

LEMMA TypesStep ==
  ASSUME TypesInv, PubSubInv, ScrollbackIsTail, StreamIsContiguous, [Next]_vars
  PROVE  TypesInv'
  BY NextCases, LookupTypes, ClientTypes, PumpTypes, SessionTypes, PtyIdle

---------------------------------------------------------------------------------
(* One pump per session.                                                            *)

OnePump ==
    /\ \A p, q \in Pumps : own[p] = own[q] /\ own[p] # NoSession => p = q
    /\ \A s \in Sessions : started[s] <=> \E p \in Pumps : own[p] = s

LEMMA OnePumpInitially == Init => OnePump
  BY SessionsAre DEF Init, OnePump

LEMMA OnePumpStep ==
  ASSUME TypesInv, OnePump, [Next]_vars
  PROVE  OnePump'
<1>1. ASSUME UNCHANGED <<own, started>> PROVE OnePump'
  BY <1>1 DEF OnePump
<1>2. ASSUME NEW c \in Clients, StartPump(c), ~started[bound[c]] PROVE OnePump'
  <2>1. PICK p \in Pumps : /\ pc[p] = "off"
                           /\ own' = [own EXCEPT ![p] = bound[c]]
                           /\ started' = [started EXCEPT ![bound[c]] = TRUE]
    BY <1>2 DEF StartPump
  <2>2. bound[c] \in Sessions
    BY <1>2, NotBoth DEF StartPump, TypesInv, Binding
  <2>3. \A q \in Pumps : own'[q] = IF q = p THEN bound[c] ELSE own[q]
    BY <2>1 DEF TypesInv, PtyTypes
  <2>4. \A s \in Sessions : started'[s] = IF s = bound[c] THEN TRUE ELSE started[s]
    BY <2>1 DEF TypesInv, PtyTypes
  <2>5. own[p] = NoSession /\ \A q \in Pumps : own[q] # bound[c]
    BY <1>2, <2>1, <2>2 DEF TypesInv, Binding, OnePump
  <2>6. \A q, r \in Pumps : own'[q] = own'[r] /\ own'[q] # NoSession => q = r
    BY <2>3, <2>5 DEF OnePump
  <2>7. \A s \in Sessions : started'[s] <=> \E q \in Pumps : own'[q] = s
    <3> SUFFICES ASSUME NEW s \in Sessions PROVE started'[s] <=> \E q \in Pumps : own'[q] = s
      OBVIOUS
    <3>1. CASE s = bound[c]
      BY <2>3, <2>4, <3>1
    <3>2. CASE s # bound[c]
      <4>1. started'[s] = started[s]
        BY <2>4, <3>2
      <4>2. (\E q \in Pumps : own'[q] = s) <=> \E q \in Pumps : own[q] = s
        BY <2>3, <2>5, <3>2, SessionsAre
      <4> QED
        BY <4>1, <4>2, Zenon DEF OnePump
    <3> QED
      BY <3>1, <3>2
  <2> QED
    BY <2>6, <2>7 DEF OnePump
<1>3. ASSUME NEW p \in Pumps, StopPump(p) PROVE OnePump'
  <2>1. own' = [own EXCEPT ![p] = NoSession] /\ started' = [started EXCEPT ![own[p]] = FALSE]
    BY <1>3 DEF StopPump
  <2>2. own[p] \in Sessions
    BY <1>3, SessionsAre DEF StopPump, TypesInv, Binding, PtyTypes
  <2>3. \A q \in Pumps : own'[q] = IF q = p THEN NoSession ELSE own[q]
    BY <2>1 DEF TypesInv, PtyTypes
  <2>4. \A s \in Sessions : started'[s] = IF s = own[p] THEN FALSE ELSE started[s]
    BY <2>1, <2>2 DEF TypesInv, PtyTypes
  <2>5. \A q, r \in Pumps : own'[q] = own'[r] /\ own'[q] # NoSession => q = r
    BY <2>3 DEF OnePump
  <2>6. \A s \in Sessions : started'[s] <=> \E q \in Pumps : own'[q] = s
    <3> SUFFICES ASSUME NEW s \in Sessions PROVE started'[s] <=> \E q \in Pumps : own'[q] = s
      OBVIOUS
    <3>1. CASE s = own[p]
      <4>1. ~started'[s]
        BY <2>4, <3>1, Zenon
      <4>2. \A q \in Pumps : own'[q] # s
        BY <2>2, <2>3, <3>1, SessionsAre DEF OnePump
      <4> QED
        BY <4>1, <4>2
    <3>2. CASE s # own[p]
      <4>1. started'[s] = started[s]
        BY <2>4, <3>2
      <4>2. (\E q \in Pumps : own'[q] = s) <=> \E q \in Pumps : own[q] = s
        BY <2>3, <3>2, SessionsAre
      <4> QED
        BY <4>1, <4>2, Zenon DEF OnePump
    <3> QED
      BY <3>1, <3>2
  <2> QED
    BY <2>5, <2>6 DEF OnePump
<1> USE DEF storeVars, sessionVars, taskStates, clientVars
<1>4. ASSUME NEW x \in Callers, GetOrCreate(x) PROVE OnePump'
  BY <1>1, <1>4 DEF GetOrCreate, Lookup, CheckGrace, Expire, Create
<1>5. ASSUME NEW c \in Clients, Open(c) \/ ClientStep(c) \/ Leave(c) PROVE OnePump'
  BY <1>1, <1>2, <1>5 DEF Open, ClientStep, Leave, Replay, SubscribeLive, StartPump, Forward
<1>6. ASSUME NEW p \in Pumps, PumpStep(p) PROVE OnePump'
  BY <1>1, <1>3, <1>6 DEF PumpStep, PumpSubscribe, ClearGrace, AddWriter, PumpRecv, Fanout,
                          CheckAgent, PumpClosed, DropAttach
<1>7. ASSUME NEW s \in Sessions, Detach(s) \/ OpenGrace(s) \/ GracePasses(s) PROVE OnePump'
  BY <1>1, <1>7 DEF Detach, OpenGrace, GracePasses
<1>8. CASE UNCHANGED ptyVars
  BY <1>1, <1>8 DEF ptyVars
<1> QED
  BY NextCases, <1>4, <1>5, <1>6, <1>7, <1>8

LEMMA OnePumpFlag ==
  ASSUME TypesInv, OnePump
  PROVE  PumpFlagIsTrue
<1> SUFFICES ASSUME NEW s \in Sessions
             PROVE  Cardinality(PumpsOf(s)) = IF started[s] THEN 1 ELSE 0
  BY DEF PumpFlagIsTrue
<1>1. CASE started[s]
  <2>1. PICK p \in Pumps : own[p] = s
    BY <1>1 DEF OnePump
  <2>2. PumpsOf(s) = {p}
    BY <2>1, SessionsAre DEF PumpsOf, OnePump
  <2> QED
    BY <1>1, <2>2, FS_Singleton
<1>2. CASE ~started[s]
  <2>1. PumpsOf(s) = {}
    BY <1>2 DEF OnePump, PumpsOf
  <2> QED
    BY <1>2, <2>1, FS_EmptySet
<1> QED
  BY <1>1, <1>2

---------------------------------------------------------------------------------
(* The count of writers.                                                            *)

Attached == {"recv", "fanout", "agent", "end"}

LEMMA SameWriters ==
  ASSUME WritersAreCounted, UNCHANGED <<writers, detaching>>,
         \A p \in Pumps : \/ bound'[p] = bound[p] /\ (pc'[p] \in Attached <=> pc[p] \in Attached)
                          \/ pc[p] \notin Attached /\ pc'[p] \notin Attached
  PROVE  WritersAreCounted'
<1>1. \A s : WritersOf(s)' = WritersOf(s)
  BY DEF WritersOf, Attached, Pumps
<1> QED
  BY <1>1 DEF WritersAreCounted

LEMMA WritersFinite == \A s : IsFiniteSet(WritersOf(s)) /\ Cardinality(WritersOf(s)) \in Nat
<1>1. \A s : WritersOf(s) \subseteq Subscribers
  BY DEF WritersOf, Pumps
<1> QED
  BY <1>1, PtyAssumption, FS_Subset, FS_CardinalityType

LEMMA AddWriterCounts ==
  ASSUME TypesInv, WritersAreCounted, NEW p \in Pumps, AddWriter(p)
  PROVE  WritersAreCounted'
<1>1. /\ pc[p] = "writer" /\ pc' = [pc EXCEPT ![p] = "recv"] /\ UNCHANGED <<bound, detaching>>
      /\ writers' = [writers EXCEPT ![bound[p]] = @ + 1] /\ bound[p] \in Sessions
  BY NotBoth DEF AddWriter, Goto, TypesInv, Binding
<1>2. \A q \in Pumps : pc'[q] = IF q = p THEN "recv" ELSE pc[q]
  BY <1>1, NotBoth DEF TypesInv, PtyTypes
<1>3. ASSUME NEW s \in Sessions, s # bound[p] PROVE WritersOf(s)' = WritersOf(s)
  BY <1>1, <1>2, <1>3 DEF WritersOf, Pumps
<1>4. WritersOf(bound[p])' = WritersOf(bound[p]) \cup {p} /\ p \notin WritersOf(bound[p])
  BY <1>1, <1>2 DEF WritersOf, Pumps
<1>5. Cardinality(WritersOf(bound[p])') = Cardinality(WritersOf(bound[p])) + 1
  BY <1>4, WritersFinite, FS_AddElement
<1> SUFFICES ASSUME NEW s \in Sessions
             PROVE  writers'[s] = Cardinality(WritersOf(s)') + detaching'[s]
  BY DEF WritersAreCounted
<1>6. writers[s] \in Nat /\ detaching[s] \in Nat /\ writers[s] = Cardinality(WritersOf(s)) + detaching[s]
  BY DEF TypesInv, PtyTypes, WritersAreCounted
<1>7. writers'[s] = IF s = bound[p] THEN writers[s] + 1 ELSE writers[s]
  BY <1>1 DEF TypesInv, PtyTypes
<1>8. Cardinality(WritersOf(s)) \in Nat
  BY WritersFinite
<1>9. CASE s = bound[p]
  BY <1>1, <1>5, <1>6, <1>7, <1>8, <1>9
<1>10. CASE s # bound[p]
  BY <1>1, <1>3, <1>6, <1>7, <1>10
<1> QED
  BY <1>9, <1>10

LEMMA DropAttachCounts ==
  ASSUME TypesInv, WritersAreCounted, NEW p \in Pumps, DropAttach(p)
  PROVE  WritersAreCounted'
<1>0. bound[p] \in Sessions
  BY NotBoth DEF DropAttach, TypesInv, Binding
<1> PICK b \in Sessions : b = bound[p]
  BY <1>0
<1>1. /\ pc[p] = "end" /\ pc' = [pc EXCEPT ![p] = "stop"] /\ writers' = writers
      /\ bound' = [bound EXCEPT ![p] = NoSession]
      /\ detaching' = [detaching EXCEPT ![b] = @ + 1]
  BY DEF DropAttach, Goto
<1>2. \A q \in Pumps : /\ pc'[q] = IF q = p THEN "stop" ELSE pc[q]
                       /\ bound'[q] = IF q = p THEN NoSession ELSE bound[q]
  BY <1>1, NotBoth DEF TypesInv, PtyTypes
<1>3. ASSUME NEW s \in Sessions, s # b PROVE WritersOf(s)' = WritersOf(s)
  BY <1>1, <1>2, <1>3, SessionsAre DEF WritersOf, Pumps
<1>4. WritersOf(b)' = WritersOf(b) \ {p} /\ p \in WritersOf(b)
  BY <1>1, <1>2, SessionsAre DEF WritersOf, Pumps
<1>5. Cardinality(WritersOf(b)') = Cardinality(WritersOf(b)) - 1
  <2>1. IsFiniteSet(WritersOf(b))
    BY WritersFinite
  <2>2. Cardinality(WritersOf(b) \ {p}) = Cardinality(WritersOf(b)) - 1
    BY <1>4, <2>1, FS_RemoveElement
  <2> QED
    BY <1>4, <2>2
<1> SUFFICES ASSUME NEW s \in Sessions
             PROVE  writers'[s] = Cardinality(WritersOf(s)') + detaching'[s]
  BY DEF WritersAreCounted
<1>6. writers[s] \in Nat /\ detaching[s] \in Nat /\ writers[s] = Cardinality(WritersOf(s)) + detaching[s]
  BY DEF TypesInv, PtyTypes, WritersAreCounted
<1>7. detaching'[s] = IF s = b THEN detaching[s] + 1 ELSE detaching[s]
  BY <1>1 DEF TypesInv, PtyTypes
<1>8. Cardinality(WritersOf(s)) \in Nat
  BY WritersFinite
<1>9. CASE s = b
  BY <1>1, <1>5, <1>6, <1>7, <1>8, <1>9
<1>10. CASE s # b
  BY <1>1, <1>3, <1>6, <1>7, <1>10
<1> QED
  BY <1>9, <1>10

(* The count is never 0 when a detach task runs: saturating_sub takes one off.      *)
LEMMA DetachCounts ==
  ASSUME TypesInv, WritersAreCounted, NEW d \in Sessions, Detach(d)
  PROVE  WritersAreCounted'
<1>1. /\ detaching[d] > 0 /\ detaching' = [detaching EXCEPT ![d] = @ - 1]
      /\ writers' = [writers EXCEPT ![d] = IF writers[d] > 0 THEN writers[d] - 1 ELSE 0]
      /\ UNCHANGED <<pc, bound>>
  BY DEF Detach, taskStates
<1>2. \A s : WritersOf(s)' = WritersOf(s)
  BY <1>1 DEF WritersOf, Pumps
<1> SUFFICES ASSUME NEW s \in Sessions
             PROVE  writers'[s] = Cardinality(WritersOf(s)') + detaching'[s]
  BY DEF WritersAreCounted
<1>3. writers[s] \in Nat /\ detaching[s] \in Nat /\ writers[s] = Cardinality(WritersOf(s)) + detaching[s]
  BY DEF TypesInv, PtyTypes, WritersAreCounted
<1>4. /\ detaching'[s] = IF s = d THEN detaching[s] - 1 ELSE detaching[s]
      /\ writers'[s] = IF s = d THEN (IF writers[d] > 0 THEN writers[d] - 1 ELSE 0) ELSE writers[s]
  BY <1>1 DEF TypesInv, PtyTypes
<1>5. Cardinality(WritersOf(s)) \in Nat
  BY WritersFinite
<1> QED
  BY <1>1, <1>2, <1>3, <1>4, <1>5

LEMMA WritersStep ==
  ASSUME TypesInv, WritersAreCounted, [Next]_vars
  PROVE  WritersAreCounted'
<1> USE NotBoth DEF storeVars, sessionVars, taskStates, clientVars
<1>0. pc \in [Callers -> States] /\ bound \in [Callers -> 0..MaxSessions]
  BY DEF TypesInv, PtyTypes
<1>1. ASSUME NEW x \in Callers, GetOrCreate(x) PROVE WritersAreCounted'
  BY <1>0, <1>1, SameWriters DEF GetOrCreate, Lookup, CheckGrace, Expire, Create, Goto, Attached
<1>2. ASSUME NEW c \in Clients, Open(c) \/ ClientStep(c) \/ Leave(c) PROVE WritersAreCounted'
  <2>1. CASE StartPump(c) /\ ~started[bound[c]]
    BY <1>0, <1>2, <2>1, SameWriters DEF StartPump, Attached
  <2>2. CASE ~(StartPump(c) /\ ~started[bound[c]])
    BY <1>0, <1>2, <2>2, SameWriters DEF Open, ClientStep, Leave, Replay, SubscribeLive, StartPump, Forward, Goto
  <2> QED
    BY <2>1, <2>2
<1>3. ASSUME NEW p \in Pumps, PumpStep(p) PROVE WritersAreCounted'
  <2>1. CASE AddWriter(p)
    BY <1>3, <2>1, AddWriterCounts
  <2>2. CASE DropAttach(p)
    BY <1>3, <2>2, DropAttachCounts
  <2>3. CASE PumpSubscribe(p) \/ ClearGrace(p) \/ StopPump(p)
    BY <1>0, <1>3, <2>3, SameWriters DEF PumpSubscribe, ClearGrace, StopPump, Goto, Attached
  <2>4. CASE PumpRecv(p) \/ Fanout(p) \/ CheckAgent(p) \/ PumpClosed(p)
    BY <1>0, <1>3, <2>4, SameWriters DEF PumpRecv, Fanout, CheckAgent, PumpClosed, Goto, Attached
  <2> QED
    BY <1>3, <2>1, <2>2, <2>3, <2>4 DEF PumpStep
<1>4. ASSUME NEW s \in Sessions, Detach(s) \/ OpenGrace(s) \/ GracePasses(s) PROVE WritersAreCounted'
  BY <1>4, DetachCounts, SameWriters DEF OpenGrace, GracePasses
<1>5. CASE UNCHANGED ptyVars
  BY <1>5, SameWriters DEF ptyVars
<1> QED
  BY NextCases, <1>1, <1>2, <1>3, <1>4, <1>5

LEMMA WritersInitially == Init => WritersAreCounted
<1> SUFFICES ASSUME Init, NEW s \in Sessions
             PROVE  writers[s] = Cardinality(WritersOf(s)) + detaching[s]
  BY DEF WritersAreCounted
<1>1. WritersOf(s) = {}
  BY NotBoth DEF Init, WritersOf
<1> QED
  BY <1>1, FS_EmptySet DEF Init

---------------------------------------------------------------------------------
(* The scrollback.                                                                  *)

LEMMA ScrollbackInitially == Init => ScrollbackIsTail
<1> SUFFICES ASSUME Init, NEW s \in Sessions PROVE buffer[s] = TailOf(total[s])
  BY DEF ScrollbackIsTail, TailOf, TailFrom
<1>1. buffer[s] = <<>> /\ total[s] = 0
  BY DEF Init
<1>2. TailOf(0) \in Seq(Nat) /\ Len(TailOf(0)) = 0
  <2>1. TailOf(0) = Span(1, 0)
    BY PtyAssumption DEF TailOf, TailFrom
  <2> QED
    BY <2>1, SpanType
<1>3. TailOf(0) = <<>>
  BY <1>2
<1> QED
  BY <1>1, <1>3

LEMMA ScrollbackStep ==
  ASSUME TypesInv, PubSubInv, ScrollbackIsTail, [Next]_vars
  PROVE  ScrollbackIsTail'
<1>1. ASSUME UNCHANGED <<buffer, total>> PROVE ScrollbackIsTail'
  BY <1>1 DEF ScrollbackIsTail
<1>2. ASSUME NEW p \in Pumps, PumpRecv(p) PROVE ScrollbackIsTail'
  <2>1. PICK n \in Bytes :
            LET s == own[p]  bytes == Span(total[s] + 1, total[s] + n)
            IN  /\ s \in Sessions /\ total[s] \in Nat
                /\ bytes \in Seq(Nat) /\ Len(bytes) = n
                /\ buffer' = [buffer EXCEPT ![s] = PushBytes(@, bytes)]
                /\ total' = [total EXCEPT ![s] = @ + n]
                /\ chunk' = [chunk EXCEPT ![p] = bytes]
                /\ Goto(p, "fanout") /\ pc[p] = "recv"
    BY <1>2, PumpRecvFacts
  <2>2. ASSUME NEW s \in Sessions PROVE buffer'[s] = TailOf(total'[s])
    <3>1. buffer[s] = TailOf(total[s])
      BY DEF ScrollbackIsTail, TailOf, TailFrom
    <3>2. CASE s = own[p]
      <4>1. buffer'[s] = PushBytes(buffer[s], Span(total[s] + 1, total[s] + n)) /\ total'[s] = total[s] + n
        BY <2>1, <3>2 DEF TypesInv, PtyTypes
      <4> QED
        BY <2>1, <3>1, <3>2, <4>1, PushKeepsTail
    <3>3. CASE s # own[p]
      BY <2>1, <3>1, <3>3 DEF TypesInv, PtyTypes
    <3> QED
      BY <3>2, <3>3
  <2> QED
    BY <2>2 DEF ScrollbackIsTail, TailOf, TailFrom
<1> USE DEF storeVars, sessionVars, taskStates, clientVars
<1>3. ASSUME NEW x \in Callers, GetOrCreate(x) PROVE ScrollbackIsTail'
  BY <1>1, <1>3 DEF GetOrCreate, Lookup, CheckGrace, Expire, Create
<1>4. ASSUME NEW c \in Clients, Open(c) \/ ClientStep(c) \/ Leave(c) PROVE ScrollbackIsTail'
  BY <1>1, <1>4 DEF Open, ClientStep, Leave, Replay, SubscribeLive, StartPump, Forward
<1>5. ASSUME NEW p \in Pumps, PumpStep(p) PROVE ScrollbackIsTail'
  BY <1>1, <1>2, <1>5 DEF PumpStep, PumpSubscribe, ClearGrace, AddWriter, Fanout,
                          CheckAgent, PumpClosed, DropAttach, StopPump
<1>6. ASSUME NEW s \in Sessions, Detach(s) \/ OpenGrace(s) \/ GracePasses(s) PROVE ScrollbackIsTail'
  BY <1>1, <1>6 DEF Detach, OpenGrace, GracePasses
<1>7. CASE UNCHANGED ptyVars
  BY <1>1, <1>7 DEF ptyVars
<1> QED
  BY NextCases, <1>3, <1>4, <1>5, <1>6, <1>7

(* A client that replays has been sent every byte pushed so far.                    *)
LEMMA ReplayedAll ==
  ASSUME TypesInv, ScrollbackIsTail, NEW s \in Sessions, buffer[s] # <<>>
  PROVE  Last(buffer[s]) = total[s]
<1> DEFINE t == total[s]  from == TailFrom(total[s])
<1>1. t \in Nat /\ from \in Nat /\ from <= t + 1
  BY TailFromType DEF TypesInv, PtyTypes
<1>2. buffer[s] = Span(from, t)
  BY DEF ScrollbackIsTail, TailFrom
<1> HIDE DEF t, from
<1>3. /\ buffer[s] \in Seq(Nat) /\ Len(buffer[s]) = t - from + 1
      /\ \A i \in 1..(t - from + 1) : buffer[s][i] = from + i - 1
  BY <1>1, <1>2, SpanType
<1>4. Len(buffer[s]) >= 1
  BY <1>3
<1>5. buffer[s][Len(buffer[s])] = t
  BY <1>1, <1>3, <1>4
<1> QED
  BY <1>5 DEF Last, t

---------------------------------------------------------------------------------
(* The live output.                                                                 *)

(* Positions in a sequence, and the ends of a sequence of numbers.                  *)
LEMMA Positions ==
  ASSUME NEW m \in Nat
  PROVE  /\ \A i \in 1..m : i > 1 => i - 1 \in 1..m
         /\ \A i \in 1..(m + 1) : i # m + 1 => i \in 1..m
         /\ \A i \in 1..m : \A j \in 1..(m + 1) : j <= i => j \in 1..m
         /\ \A i \in 1..(m - 1) : i + 1 \in 1..m /\ (i + 1) - 1 = i /\ i + 1 > 1 /\ 1 <= i + 1
         /\ \A i \in 1..(m - 1) : 1 \in 1..m
         /\ \A i, j \in 1..(m - 1) : i <= j => i + 1 <= j + 1
         /\ \A i \in 1..(m - 1) : i > 1 => i - 1 \in 1..(m - 1) /\ (i - 1) + 1 = i
  OBVIOUS

LEMMA EndsAreNumbers ==
  ASSUME NEW s \in Seq(Nat), s # <<>>
  PROVE  Head(s) \in Nat /\ Last(s) \in Nat
  BY DEF Last

(* A client's queue of messages: consecutive bytes, none older than low.            *)
Queue(q, low) ==
    /\ \A i \in DOMAIN q :
          /\ q[i] # <<>>
          /\ q[i] = Span(Head(q[i]), Last(q[i]))
          /\ i > 1 => Head(q[i]) = Last(q[i - 1]) + 1
          /\ Last(q[i]) >= low
    /\ \A i, j \in DOMAIN q : i <= j => Last(q[i]) <= Last(q[j])

LEMMA QueueTail ==
  ASSUME NEW q \in Seq(Seq(Nat)), NEW low \in Nat, q # <<>>, Queue(q, low)
  PROVE  /\ Tail(q) \in Seq(Seq(Nat)) /\ Queue(Tail(q), low) /\ Queue(Tail(q), Last(Head(q)))
         /\ Tail(q) # <<>> => Last(Tail(q)) = Last(q)
<1> DEFINE r == Tail(q)
<1>1. /\ r \in Seq(Seq(Nat)) /\ Len(q) \in Nat /\ Len(q) >= 1 /\ Len(r) = Len(q) - 1
      /\ Head(q) = q[1] /\ DOMAIN q = 1..Len(q) /\ DOMAIN r = 1..(Len(q) - 1)
      /\ \A i \in 1..(Len(q) - 1) : r[i] = q[i + 1]
  OBVIOUS
<1> HIDE DEF r
<1>2. r # <<>> => Len(r) >= 1
  BY <1>1
<1>3. r # <<>> => Last(r) = Last(q)
  BY <1>1, <1>2 DEF Last
<1>4. ASSUME NEW i \in DOMAIN r
      PROVE  /\ r[i] # <<>> /\ r[i] = Span(Head(r[i]), Last(r[i]))
             /\ i > 1 => Head(r[i]) = Last(r[i - 1]) + 1
             /\ Last(r[i]) >= low /\ Last(r[i]) >= Last(Head(q))
  <2>0. i \in 1..(Len(q) - 1) /\ Len(q) \in Nat
    BY <1>1
  <2>a. i + 1 \in 1..Len(q) /\ 1 \in 1..Len(q) /\ 1 <= i + 1
    BY <2>0, Positions
  <2>1. i + 1 \in DOMAIN q /\ 1 \in DOMAIN q /\ 1 <= i + 1 /\ r[i] = q[i + 1]
    BY <1>1, <2>0, <2>a
  <2>2. q[i + 1] # <<>> /\ q[i + 1] = Span(Head(q[i + 1]), Last(q[i + 1])) /\ Last(q[i + 1]) >= low
    BY <2>1 DEF Queue
  <2>3. Last(q[1]) <= Last(q[i + 1])
    BY <2>1 DEF Queue
  <2>4. \A j \in DOMAIN q : Last(q[j]) \in Nat
    <3> SUFFICES ASSUME NEW j \in DOMAIN q PROVE Last(q[j]) \in Nat
      OBVIOUS
    <3>1. q[j] \in Seq(Nat) /\ q[j] # <<>>
      BY <1>1 DEF Queue
    <3> QED
      BY <3>1, EndsAreNumbers
  <2>5. i > 1 => Head(r[i]) = Last(r[i - 1]) + 1
    <3> SUFFICES ASSUME i > 1 PROVE Head(r[i]) = Last(r[i - 1]) + 1
      OBVIOUS
    <3>1. i - 1 \in 1..(Len(q) - 1) /\ (i - 1) + 1 = i /\ (i + 1) - 1 = i /\ i + 1 > 1
      BY <2>0, Positions
    <3>2. r[i - 1] = q[i]
      BY <1>1, <3>1
    <3>3. Head(q[i + 1]) = Last(q[(i + 1) - 1]) + 1
      BY <2>1, <3>1 DEF Queue
    <3> QED
      BY <2>1, <3>1, <3>2, <3>3
  <2> QED
    BY <1>1, <2>1, <2>2, <2>3, <2>4, <2>5
<1>5. ASSUME NEW i \in DOMAIN r, NEW j \in DOMAIN r, i <= j PROVE Last(r[i]) <= Last(r[j])
  <2>1. i + 1 \in DOMAIN q /\ j + 1 \in DOMAIN q /\ i + 1 <= j + 1 /\ r[i] = q[i + 1] /\ r[j] = q[j + 1]
    <3>1. i \in 1..(Len(q) - 1) /\ j \in 1..(Len(q) - 1) /\ Len(q) \in Nat
      BY <1>1
    <3>2. i + 1 \in 1..Len(q) /\ j + 1 \in 1..Len(q) /\ i + 1 <= j + 1
      BY <1>5, <3>1, Positions
    <3> QED
      BY <1>1, <3>1, <3>2
  <2> QED
    BY <2>1 DEF Queue
<1>6. Queue(r, low) /\ Queue(r, Last(Head(q)))
  BY <1>4, <1>5 DEF Queue
<1> QED
  BY <1>1, <1>3, <1>6 DEF r

LEMMA QueueAppend ==
  ASSUME NEW q \in Seq(Seq(Nat)), NEW low \in Nat, Queue(q, low),
         NEW b \in Seq(Nat), b # <<>>, b = Span(Head(b), Last(b)), Last(b) >= low, Head(b) <= Last(b),
         q # <<>> => Head(b) = Last(Last(q)) + 1
  PROVE  Queue(Append(q, b), low)
<1> DEFINE r == Append(q, b)  n == Len(q)
<1>1. /\ n \in Nat /\ r \in Seq(Seq(Nat)) /\ DOMAIN q = 1..n /\ DOMAIN r = 1..(n + 1)
      /\ r[n + 1] = b /\ \A i \in 1..n : r[i] = q[i]
      /\ n = 0 <=> q = <<>>
  OBVIOUS
<1> HIDE DEF r, n
<1>0. n \in Nat
  BY <1>1
<1>2. q # <<>> => n \in DOMAIN q /\ Last(q) = q[n]
  BY <1>1 DEF Last, n
<1>3. \A i \in DOMAIN q : q[i] \in Seq(Nat) /\ q[i] # <<>> /\ Last(q[i]) \in Nat
  <2> SUFFICES ASSUME NEW i \in DOMAIN q
               PROVE  q[i] \in Seq(Nat) /\ q[i] # <<>> /\ Last(q[i]) \in Nat
    OBVIOUS
  <2>1. q[i] \in Seq(Nat) /\ q[i] # <<>>
    BY DEF Queue
  <2> QED
    BY <2>1, EndsAreNumbers
<1>4. Head(b) \in Nat /\ Last(b) \in Nat
  BY EndsAreNumbers
<1>5. \A i \in DOMAIN q : Last(q[i]) <= Last(b)
  <2> SUFFICES ASSUME NEW i \in DOMAIN q PROVE Last(q[i]) <= Last(b)
    OBVIOUS
  <2>1. q # <<>> /\ i <= n /\ n \in DOMAIN q
    BY <1>1, <1>2
  <2>2. Last(q[i]) <= Last(q[n]) /\ Head(b) = Last(q[n]) + 1
    BY <1>2, <2>1 DEF Queue
  <2>3. Last(q[i]) \in Nat /\ Last(q[n]) \in Nat /\ Last(b) \in Nat
    BY <1>3, <1>4, <2>1
  <2>4. \A x, y, z \in Nat : x <= y /\ y + 1 <= z => x <= z
    OBVIOUS
  <2> QED
    BY <2>2, <2>3, <2>4
<1>6. ASSUME NEW i \in DOMAIN r
      PROVE  /\ r[i] # <<>> /\ r[i] = Span(Head(r[i]), Last(r[i])) /\ Last(r[i]) >= low
             /\ i > 1 => Head(r[i]) = Last(r[i - 1]) + 1
  <2>1. i \in 1..(n + 1)
    BY <1>1
  <2>2. CASE i = n + 1
    <3>1. i > 1 => q # <<>> /\ i - 1 = n /\ i - 1 \in 1..n
      BY <1>1, <2>2
    <3>2. i > 1 => Head(r[i]) = Last(r[i - 1]) + 1
      <4> SUFFICES ASSUME i > 1 PROVE Head(r[i]) = Last(r[i - 1]) + 1
        OBVIOUS
      <4>1. r[i] = b /\ r[i - 1] = q[n] /\ Last(q) = q[n]
        BY <1>1, <1>2, <2>2, <3>1
      <4> QED
        BY <3>1, <4>1
    <3> QED
      BY <1>1, <2>2, <3>2
  <2>3. CASE i # n + 1
    <3>1. i \in 1..n /\ (i > 1 => i - 1 \in 1..n)
      BY <1>0, <2>1, <2>3, Positions
    <3>2. r[i] = q[i] /\ (i > 1 => r[i - 1] = q[i - 1])
      BY <1>1, <3>1
    <3> QED
      BY <1>1, <3>1, <3>2 DEF Queue
  <2> QED
    BY <2>2, <2>3
<1>7. ASSUME NEW i \in DOMAIN r, NEW j \in DOMAIN r, i <= j PROVE Last(r[i]) <= Last(r[j])
  <2>1. i \in 1..(n + 1) /\ j \in 1..(n + 1)
    BY <1>1
  <2>2. CASE j # n + 1
    <3>1. i \in 1..n /\ j \in 1..n
      BY <1>0, <1>7, <2>1, <2>2, Positions
    <3> QED
      BY <1>1, <1>7, <3>1 DEF Queue
  <2>3. CASE j = n + 1 /\ i # n + 1
    <3>1. i \in 1..n
      BY <1>0, <2>1, <2>3, Positions
    <3> QED
      BY <1>1, <1>5, <2>3, <3>1
  <2>4. CASE j = n + 1 /\ i = n + 1
    BY <1>1, <1>4, <2>4
  <2> QED
    BY <2>2, <2>3, <2>4
<1>8. Queue(r, low)
  BY <1>6, <1>7 DEF Queue
<1> QED
  BY <1>8 DEF r

LEMMA QueueOffer ==
  ASSUME NEW q \in Seq(Seq(Nat)), NEW low \in Nat, Queue(q, low),
         NEW b \in Seq(Nat), b # <<>>, b = Span(Head(b), Last(b)), Last(b) >= low, Head(b) <= Last(b),
         q # <<>> => Head(b) = Last(Last(q)) + 1
  PROVE  Queue(Offer(q, b), low) /\ Last(Offer(q, b)) = b
<1> DEFINE r == IF Len(q) = FanoutBacklog THEN Tail(q) ELSE q
<1>1. Len(q) = FanoutBacklog => q # <<>>
  BY PtyAssumption
<1>2. r \in Seq(Seq(Nat)) /\ Queue(r, low) /\ (r # <<>> => Head(b) = Last(Last(r)) + 1)
  <2>1. CASE Len(q) = FanoutBacklog
    <3>1. Tail(q) \in Seq(Seq(Nat)) /\ Queue(Tail(q), low) /\ (Tail(q) # <<>> => Last(Tail(q)) = Last(q))
      BY <1>1, <2>1, QueueTail
    <3> QED
      BY <1>1, <2>1, <3>1
  <2>2. CASE Len(q) # FanoutBacklog
    BY <2>2
  <2> QED
    BY <2>1, <2>2
<1> HIDE DEF r
<1>3. Queue(Append(r, b), low)
  BY <1>2, QueueAppend
<1>4. Last(Append(r, b)) = b
  BY <1>2 DEF Last
<1> QED
  BY <1>3, <1>4 DEF Offer, r

(* While a pump is between push and fan-out it holds the newest bytes of its        *)
(* session, and otherwise none.                                                     *)
ChunkOK(p) ==
    IF pc[p] = "fanout"
    THEN \E t \in Nat : \E n \in Bytes : total[own[p]] = t + n /\ chunk[p] = Span(t + 1, t + n)
    ELSE chunk[p] = <<>>

(* A client has not been sent more than was pushed, and its queue is a run of bytes *)
(* up to the last one handed out.                                                   *)
ClientOK(c) ==
    /\ pc[c] \in {"replayed", "start", "live"} => seen[c] <= total[bound[c]]
    /\ pc[c] \in {"start", "live"} =>
          /\ Queue(live[c], seen[c])
          /\ live[c] # <<>> => HandedOut(bound[c], Last(Last(live[c])))

LiveInv == (\A p \in Pumps : ChunkOK(p)) /\ (\A c \in Clients : ClientOK(c))

LEMMA LiveMeans == LiveInv => StreamIsContiguous
  BY DEF LiveInv, ClientOK, Queue, StreamIsContiguous

LEMMA LiveInitially == Init => LiveInv
  BY NotBoth DEF Init, LiveInv, ChunkOK, ClientOK

LEMMA EmptyQueue == \A low : Queue(<<>>, low)
  BY DEF Queue

(* A client that the step leaves alone.                                             *)
LEMMA ClientAside ==
  ASSUME TypesInv, NEW c \in Clients, ClientOK(c), NEW b, b = bound[c],
         pc'[c] = pc[c] \/ (pc[c] = "start" /\ pc'[c] = "live"),
         bound'[c] = bound[c], live'[c] = live[c], seen'[c] = seen[c],
         b \in Sessions => total'[b] \in Nat /\ total'[b] >= total[b],
         b \in Sessions => \A n : HandedOut(b, n) => HandedOut(b, n)'
  PROVE  ClientOK(c)'
<1>1. pc[c] \in {"replayed", "start", "live"} => b \in Sessions /\ total[b] \in Nat /\ seen[c] \in Nat
  BY NotBoth DEF TypesInv, Binding, PtyTypes
<1>2. pc[c] \in {"replayed", "start", "live"} => seen'[c] <= total'[bound'[c]]
  BY <1>1 DEF ClientOK
<1>3. pc[c] \in {"start", "live"} => Queue(live'[c], seen'[c])
  BY DEF ClientOK
<1>4. pc[c] \in {"start", "live"} /\ live'[c] # <<>> => HandedOut(b, Last(Last(live[c])))'
  BY <1>1 DEF ClientOK
<1>5. HandedOut(b, Last(Last(live[c])))' => HandedOut(bound[c], Last(Last(live[c])))'
  BY DEF HandedOut, PumpsOf
<1> QED
  BY <1>2, <1>3, <1>4, <1>5 DEF ClientOK, Queue

(* Steps that do not touch what was pushed or fanned out.                           *)
LEMMA LiveFrame ==
  ASSUME TypesInv, LiveInv, UNCHANGED <<total, own, chunk>>,
         \A p \in Pumps : pc'[p] = "fanout" <=> pc[p] = "fanout",
         \A c \in Clients :
            \/ pc'[c] = pc[c] /\ bound'[c] = bound[c] /\ live'[c] = live[c] /\ seen'[c] = seen[c]
            \/ ClientOK(c)'
  PROVE  LiveInv'
<1>1. \A p \in Pumps : ChunkOK(p)'
  BY DEF LiveInv, ChunkOK
<1>2. \A b, n : HandedOut(b, n) => HandedOut(b, n)'
  BY DEF HandedOut, PumpsOf
<1>3. \A b \in Sessions : total'[b] \in Nat /\ total'[b] >= total[b]
  BY DEF TypesInv, PtyTypes
<1>4. ASSUME NEW c \in Clients PROVE ClientOK(c)'
  <2>1. CASE pc'[c] = pc[c] /\ bound'[c] = bound[c] /\ live'[c] = live[c] /\ seen'[c] = seen[c]
    <3>1. ClientOK(c)
      BY DEF LiveInv
    <3> QED
      BY <1>2, <1>3, <2>1, <3>1, ClientAside
  <2> QED
    BY <2>1
<1> QED
  BY <1>1, <1>4 DEF LiveInv

LEMMA LookupLive ==
  ASSUME TypesInv, LiveInv, NEW x \in Callers, GetOrCreate(x)
  PROVE  LiveInv'
<1> USE NotBoth DEF storeVars, sessionVars, clientVars
<1>1. UNCHANGED <<total, own, chunk, live, seen>>
  BY DEF GetOrCreate, Lookup, CheckGrace, Expire, Create
<1>2. \A y \in Callers \ {x} : bound'[y] = bound[y] /\ pc'[y] = pc[y]
  BY DEF GetOrCreate, Lookup, CheckGrace, Expire, Create, Goto, TypesInv, PtyTypes
<1>3. pc[x] # "fanout" /\ pc'[x] \notin {"fanout", "replayed", "start", "live"}
  BY DEF GetOrCreate, Lookup, CheckGrace, Expire, Create, Goto, TypesInv, PtyTypes
<1>4. \A c \in Clients : c = x => ClientOK(c)'
  BY <1>3 DEF ClientOK
<1> QED
  BY <1>1, <1>2, <1>3, <1>4, LiveFrame

(* Client c moves to a new place with a new session, queue and position.            *)
LEMMA ClientMoves ==
  ASSUME TypesInv, LiveInv, UNCHANGED <<total, own, chunk>>, NEW c \in Clients, ClientOK(c)',
         \A x \in Callers \ {c} : pc'[x] = pc[x] /\ bound'[x] = bound[x],
         \A d \in Clients \ {c} : live'[d] = live[d] /\ seen'[d] = seen[d]
  PROVE  LiveInv'
<1>1. \A p \in Pumps : pc'[p] = pc[p]
  BY NotBoth
<1> QED
  BY <1>1, NotBoth, LiveFrame

LEMMA ClientLive ==
  ASSUME TypesInv, LiveInv, ScrollbackIsTail, NEW c \in Clients,
         Open(c) \/ Replay(c) \/ SubscribeLive(c) \/ Forward(c) \/ Leave(c)
  PROVE  LiveInv'
<1> USE NotBoth DEF storeVars, sessionVars, taskStates, clientVars
<1>0. /\ pc \in [Callers -> States] /\ bound \in [Callers -> 0..MaxSessions]
      /\ live \in [Clients -> Seq(Seq(Nat))] /\ seen \in [Clients -> Nat]
      /\ c \in Callers /\ ClientOK(c)
  BY DEF TypesInv, PtyTypes, LiveInv
<1>1. UNCHANGED <<total, own, chunk>>
  BY DEF Open, Replay, SubscribeLive, Forward, Leave
<1>2. \A x \in Callers \ {c} : pc'[x] = pc[x] /\ bound'[x] = bound[x]
  BY <1>0 DEF Open, Replay, SubscribeLive, Forward, Leave, Goto
<1>3. \A d \in Clients \ {c} : live'[d] = live[d] /\ seen'[d] = seen[d]
  BY <1>0 DEF Open, Replay, SubscribeLive, Forward, Leave
<1>4. ClientOK(c)'
  <2>1. CASE Open(c) \/ Leave(c)
    <3>1. pc'[c] \in {"lookup", "off"}
      BY <1>0, <2>1 DEF Open, Leave, Goto
    <3> QED
      BY <3>1 DEF ClientOK
  <2>2. CASE Replay(c)
    <3>1. bound[c] \in Sessions /\ bound' = bound /\ pc'[c] = "replayed"
      BY <1>0, <2>2 DEF Replay, Goto, TypesInv, Binding
    <3>2. seen'[c] = IF buffer[bound[c]] = <<>> THEN 0 ELSE Last(buffer[bound[c]])
      BY <1>0, <2>2 DEF Replay
    <3>3. total[bound[c]] \in Nat
      BY <3>1 DEF TypesInv, PtyTypes
    <3>4. seen'[c] <= total[bound[c]]
      BY <3>1, <3>2, <3>3, ReplayedAll
    <3> QED
      BY <1>1, <3>1, <3>4 DEF ClientOK
  <2>3. CASE SubscribeLive(c)
    <3>1. pc[c] = "replayed" /\ live'[c] = <<>> /\ seen' = seen /\ bound' = bound
      BY <1>0, <2>3 DEF SubscribeLive
    <3> QED
      BY <1>0, <1>1, <3>1, EmptyQueue DEF ClientOK
  <2>4. CASE Forward(c)
    <3>1. /\ pc[c] = "live" /\ live[c] # <<>> /\ UNCHANGED <<pc, bound>>
          /\ seen'[c] = Last(Head(live[c])) /\ live'[c] = Tail(live[c])
      BY <1>0, <2>4 DEF Forward
    <3>2. Queue(live[c], seen[c]) /\ HandedOut(bound[c], Last(Last(live[c])))
      BY <1>0, <3>1 DEF ClientOK
    <3>3. Queue(live'[c], seen'[c]) /\ (live'[c] # <<>> => Last(live'[c]) = Last(live[c]))
      BY <1>0, <3>1, <3>2, QueueTail
    <3>4. \A b, n : HandedOut(b, n) => HandedOut(b, n)'
      BY <1>1 DEF HandedOut, PumpsOf
    <3>5. live'[c] # <<>> => HandedOut(bound[c], Last(Last(live[c])))'
      <4> SUFFICES ASSUME live'[c] # <<>> PROVE HandedOut(bound[c], Last(Last(live[c])))'
        OBVIOUS
      <4>1. Last(Last(live'[c])) = Last(Last(live[c])) /\ bound'[c] = bound[c]
        BY <3>1, <3>3
      <4> QED
        BY <1>1, <3>2, <4>1 DEF HandedOut, PumpsOf
    <3>6. seen'[c] <= total'[bound'[c]]
      <4>1. bound[c] \in Sessions /\ total[bound[c]] \in Nat
        BY <1>0, <3>1 DEF TypesInv, Binding, PtyTypes
      <4>2. /\ live[c] \in Seq(Seq(Nat)) /\ Len(live[c]) \in Nat /\ Head(live[c]) = live[c][1]
            /\ 1 \in DOMAIN live[c] /\ Len(live[c]) \in DOMAIN live[c] /\ 1 <= Len(live[c])
        BY <1>0, <3>1
      <4>3. Last(Head(live[c])) <= Last(Last(live[c]))
        BY <3>2, <4>2 DEF Queue, Last
      <4>4. live[c][1] \in Seq(Nat) /\ live[c][1] # <<>> /\ Last(live[c]) \in Seq(Nat) /\ Last(live[c]) # <<>>
        BY <3>2, <4>2 DEF Queue, Last
      <4>5. Last(Head(live[c])) \in Nat /\ Last(Last(live[c])) \in Nat
        BY <4>2, <4>4, EndsAreNumbers
      <4>6. Last(Last(live[c])) <= total[bound[c]]
        <5>1. \A p \in Pumps : chunk[p] \in Seq(Nat) /\ Len(chunk[p]) \in Nat
          BY DEF TypesInv, PtyTypes
        <5> QED
          BY <3>2, <4>1, <5>1 DEF HandedOut, PumpsOf
      <4> QED
        BY <1>1, <3>1, <4>1, <4>3, <4>5, <4>6
    <3> QED
      BY <3>3, <3>5, <3>6 DEF ClientOK, Queue
  <2> QED
    BY <2>1, <2>2, <2>3, <2>4
<1> QED
  BY <1>1, <1>2, <1>3, <1>4, ClientMoves

LEMMA StartPumpLive ==
  ASSUME TypesInv, LiveInv, OnePump, NEW c \in Clients, StartPump(c)
  PROVE  LiveInv'
<1> USE NotBoth DEF storeVars, sessionVars, taskStates, clientVars
<1>0. /\ pc \in [Callers -> States] /\ own \in [Pumps -> 0..MaxSessions] /\ chunk \in [Pumps -> Seq(Nat)]
      /\ total \in [Sessions -> Nat] /\ pc[c] = "start" /\ bound[c] \in Sessions
      /\ UNCHANGED <<total, bound, chunk, live, seen>>
  BY DEF TypesInv, PtyTypes, Binding, StartPump
<1>1. \A b \in Sessions : total'[b] \in Nat /\ total'[b] >= total[b]
  BY <1>0
<1>2. CASE started[bound[c]]
  <2>1. pc' = [pc EXCEPT ![c] = "live"] /\ own' = own
    BY <1>2 DEF StartPump, Goto
  <2>2. \A x \in Callers : pc'[x] = IF x = c THEN "live" ELSE pc[x]
    BY <1>0, <2>1
  <2>3. \A p \in Pumps : ChunkOK(p)'
    BY <1>0, <2>1, <2>2 DEF LiveInv, ChunkOK
  <2>4. \A b, n : HandedOut(b, n) => HandedOut(b, n)'
    BY <1>0, <2>1 DEF HandedOut, PumpsOf
  <2>5. ASSUME NEW d \in Clients PROVE ClientOK(d)'
    <3>1. ClientOK(d) /\ (pc'[d] = pc[d] \/ (pc[d] = "start" /\ pc'[d] = "live"))
      BY <1>0, <2>2 DEF LiveInv
    <3> QED
      BY <1>0, <1>1, <2>4, <3>1, ClientAside
  <2> QED
    BY <2>3, <2>5 DEF LiveInv
<1>3. CASE ~started[bound[c]]
  <2>1. PICK p \in Pumps : /\ pc[p] = "off"
                           /\ pc' = [pc EXCEPT ![c] = "live", ![p] = "sub"]
                           /\ own' = [own EXCEPT ![p] = bound[c]]
    BY <1>3 DEF StartPump
  <2>2. \A x \in Callers : pc'[x] = IF x = p THEN "sub" ELSE IF x = c THEN "live" ELSE pc[x]
    BY <1>0, <2>1
  <2>3. \A q \in Pumps : own'[q] = IF q = p THEN bound[c] ELSE own[q]
    BY <1>0, <2>1
  <2>4. own[p] = NoSession /\ chunk[p] = <<>> /\ \A q \in Pumps : own[q] # bound[c]
    BY <1>0, <1>3, <2>1 DEF TypesInv, Binding, LiveInv, ChunkOK, OnePump
  <2>5. ASSUME NEW q \in Pumps PROVE ChunkOK(q)'
    <3>1. CASE q = p
      BY <1>0, <2>2, <2>4, <3>1 DEF ChunkOK
    <3>2. CASE q # p
      <4>1. pc'[q] = pc[q] /\ own'[q] = own[q] /\ ChunkOK(q)
        BY <2>2, <2>3, <3>2 DEF LiveInv
      <4> QED
        BY <1>0, <4>1 DEF ChunkOK
    <3> QED
      BY <3>1, <3>2
  <2>6. ASSUME NEW b \in Sessions, NEW n, HandedOut(b, n) PROVE HandedOut(b, n)'
    <3>1. CASE b = bound[c]
      <4>1. PumpsOf(b) = {} /\ PumpsOf(b)' = {p}
        BY <2>3, <2>4, <3>1 DEF PumpsOf, Pumps
      <4>2. n = total[b] /\ Len(chunk[p]) = 0
        BY <2>4, <2>6, <4>1 DEF HandedOut
      <4> QED
        BY <1>0, <4>1, <4>2 DEF HandedOut
    <3>2. CASE b # bound[c]
      <4>1. PumpsOf(b)' = PumpsOf(b)
        BY <2>3, <2>4, <3>2, SessionsAre DEF PumpsOf, Pumps
      <4> QED
        BY <1>0, <2>6, <4>1 DEF HandedOut
    <3> QED
      BY <3>1, <3>2
  <2>7. ASSUME NEW d \in Clients PROVE ClientOK(d)'
    <3>1. ClientOK(d) /\ (pc'[d] = pc[d] \/ (pc[d] = "start" /\ pc'[d] = "live"))
      BY <1>0, <2>2 DEF LiveInv
    <3> QED
      BY <1>0, <1>1, <2>6, <3>1, ClientAside
  <2> QED
    BY <2>5, <2>7 DEF LiveInv
<1> QED
  BY <1>2, <1>3

LEMMA PumpRecvLive ==
  ASSUME TypesInv, PubSubInv, LiveInv, OnePump, NEW p \in Pumps, PumpRecv(p)
  PROVE  LiveInv'
<1> USE NotBoth DEF storeVars, sessionVars, taskStates, clientVars
<1> DEFINE s == own[p]  t == total[s]
<1>1. PICK n \in Bytes :
          LET bytes == Span(total[own[p]] + 1, total[own[p]] + n)
          IN  /\ own[p] \in Sessions /\ total[own[p]] \in Nat
              /\ bytes \in Seq(Nat) /\ Len(bytes) = n
              /\ buffer' = [buffer EXCEPT ![own[p]] = PushBytes(@, bytes)]
              /\ total' = [total EXCEPT ![own[p]] = @ + n]
              /\ chunk' = [chunk EXCEPT ![p] = bytes]
              /\ Goto(p, "fanout") /\ pc[p] = "recv"
  BY PumpRecvFacts
<1>2. UNCHANGED <<own, bound, live, seen>>
  BY DEF PumpRecv
<1>3. /\ \A x \in Callers : pc'[x] = IF x = p THEN "fanout" ELSE pc[x]
      /\ \A q \in Pumps : chunk'[q] = IF q = p THEN Span(t + 1, t + n) ELSE chunk[q]
      /\ \A b \in Sessions : total'[b] = IF b = s THEN t + n ELSE total[b]
  BY <1>1 DEF Goto, TypesInv, PtyTypes
<1>4. n \in Nat /\ \A b \in Sessions : total[b] \in Nat
  BY DEF Bytes, TypesInv, PtyTypes
<1>5. \A b \in Sessions : total'[b] \in Nat /\ total'[b] >= total[b]
  BY <1>3, <1>4
<1>6. ASSUME NEW q \in Pumps PROVE ChunkOK(q)'
  <2>1. CASE q = p
    BY <1>1, <1>2, <1>3, <2>1 DEF ChunkOK
  <2>2. CASE q # p
    <3>1. pc'[q] = pc[q] /\ chunk'[q] = chunk[q] /\ own'[q] = own[q] /\ ChunkOK(q)
      BY <1>2, <1>3, <2>2 DEF LiveInv
    <3>2. pc[q] = "fanout" => own[q] \in Sessions /\ own[q] # own[p]
      BY <1>1, <2>2, SessionsAre DEF TypesInv, PtyTypes, Binding, OnePump
    <3>3. pc[q] = "fanout" => total'[own[q]] = total[own[q]]
      BY <1>3, <3>2
    <3> QED
      BY <3>1, <3>3 DEF ChunkOK
  <2> QED
    BY <2>1, <2>2
<1>7. ASSUME NEW b \in Sessions, NEW k, HandedOut(b, k) PROVE HandedOut(b, k)'
  <2>1. PumpsOf(b)' = PumpsOf(b)
    BY <1>2 DEF PumpsOf
  <2>2. CASE b = s
    <3>1. PumpsOf(b) = {p}
      BY <1>1, <2>2, SessionsAre DEF OnePump, PumpsOf
    <3>2. chunk[p] = <<>>
      BY <1>1 DEF LiveInv, ChunkOK
    <3>3. k = total[b] - 0
      BY <1>7, <3>1, <3>2 DEF HandedOut
    <3>4. total'[b] = total[b] + n /\ Len(chunk'[p]) = n
      BY <1>1, <1>3, <2>2
    <3>5. k = total'[b] - Len(chunk'[p])
      BY <1>4, <3>3, <3>4
    <3> QED
      BY <2>1, <3>1, <3>5 DEF HandedOut
  <2>3. CASE b # s
    <3>1. \A q \in PumpsOf(b) : chunk'[q] = chunk[q]
      BY <1>3, <2>3 DEF PumpsOf
    <3>2. total'[b] = total[b]
      BY <1>3, <2>3
    <3> QED
      BY <1>7, <2>1, <3>1, <3>2 DEF HandedOut
  <2> QED
    BY <2>2, <2>3
<1>8. ASSUME NEW d \in Clients PROVE ClientOK(d)'
  <2>1. ClientOK(d) /\ pc'[d] = pc[d]
    BY <1>3 DEF LiveInv
  <2> QED
    BY <1>2, <1>5, <1>7, <2>1, ClientAside
<1> QED
  BY <1>6, <1>8 DEF LiveInv

LEMMA StopPumpLive ==
  ASSUME TypesInv, LiveInv, OnePump, NEW p \in Pumps, StopPump(p)
  PROVE  LiveInv'
<1> USE NotBoth DEF storeVars, sessionVars, taskStates, clientVars
<1>1. /\ pc[p] = "stop" /\ pc' = [pc EXCEPT ![p] = "off"] /\ own' = [own EXCEPT ![p] = NoSession]
      /\ UNCHANGED <<total, bound, chunk, live, seen>>
  BY DEF StopPump, Goto
<1>2. /\ \A x \in Callers : pc'[x] = IF x = p THEN "off" ELSE pc[x]
      /\ \A q \in Pumps : own'[q] = IF q = p THEN NoSession ELSE own[q]
  BY <1>1 DEF TypesInv, PtyTypes
<1>3. own[p] \in Sessions /\ chunk[p] = <<>> /\ \A b \in Sessions : total[b] \in Nat
  BY <1>1, SessionsAre DEF TypesInv, PtyTypes, Binding, LiveInv, ChunkOK
<1>4. \A q \in Pumps : ChunkOK(q)'
  BY <1>1, <1>2, <1>3 DEF LiveInv, ChunkOK
<1>5. ASSUME NEW b \in Sessions, NEW k, HandedOut(b, k) PROVE HandedOut(b, k)'
  <2>1. CASE b = own[p]
    <3>1. PumpsOf(b) = {p} /\ PumpsOf(b)' = {}
      BY <1>2, <1>3, <2>1, SessionsAre DEF OnePump, PumpsOf, Pumps
    <3>2. k = total[b]
      BY <1>3, <1>5, <3>1 DEF HandedOut
    <3> QED
      BY <1>1, <3>1, <3>2 DEF HandedOut
  <2>2. CASE b # own[p]
    <3>1. PumpsOf(b)' = PumpsOf(b)
      BY <1>2, <2>2, SessionsAre DEF PumpsOf, Pumps
    <3> QED
      BY <1>1, <1>5, <3>1 DEF HandedOut
  <2> QED
    BY <2>1, <2>2
<1>6. ASSUME NEW d \in Clients PROVE ClientOK(d)'
  <2>1. ClientOK(d) /\ pc'[d] = pc[d]
    BY <1>2 DEF LiveInv
  <2> QED
    BY <1>1, <1>3, <1>5, <2>1, ClientAside
<1> QED
  BY <1>4, <1>6 DEF LiveInv

LEMMA FanoutLive ==
  ASSUME TypesInv, LiveInv, OnePump, NEW p \in Pumps, Fanout(p)
  PROVE  LiveInv'
<1> USE NotBoth DEF storeVars, sessionVars, taskStates, clientVars
<1>1. /\ pc[p] = "fanout" /\ pc' = [pc EXCEPT ![p] = "agent"] /\ chunk' = [chunk EXCEPT ![p] = <<>>]
      /\ UNCHANGED <<total, bound, own, seen>>
      /\ live' = [c \in Clients |-> IF bound[c] = own[p] /\ pc[c] \in {"start", "live"}
                                    THEN Offer(live[c], chunk[p]) ELSE live[c]]
  BY DEF Fanout, Goto
<1>2. /\ \A x \in Callers : pc'[x] = IF x = p THEN "agent" ELSE pc[x]
      /\ \A q \in Pumps : chunk'[q] = IF q = p THEN <<>> ELSE chunk[q]
  BY <1>1 DEF TypesInv, PtyTypes
<1>3. own[p] \in Sessions /\ \A b \in Sessions : total[b] \in Nat
  BY <1>1, SessionsAre DEF TypesInv, PtyTypes, Binding
<1>4. \A q \in Pumps : ChunkOK(q)'
  BY <1>1, <1>2 DEF LiveInv, ChunkOK
<1>5. PICK t \in Nat, n \in Bytes : total[own[p]] = t + n /\ chunk[p] = Span(t + 1, t + n)
  BY <1>1 DEF LiveInv, ChunkOK
<1> DEFINE b == chunk[p]
<1>6. b \in Seq(Nat) /\ Len(b) = n /\ Head(b) = t + 1 /\ Last(b) = t + n
  BY <1>5, SpanBytes
<1>7. b # <<>> /\ b = Span(Head(b), Last(b)) /\ Head(b) <= Last(b) /\ n \in Nat
  BY <1>5, <1>6 DEF Bytes
<1>8. PumpsOf(own[p]) = {p} /\ \A x : PumpsOf(x)' = PumpsOf(x)
  BY <1>1, <1>3, SessionsAre DEF OnePump, PumpsOf
<1>9. ASSUME NEW c \in Clients PROVE ClientOK(c)'
  <2>0. ClientOK(c) /\ pc'[c] = pc[c]
    BY <1>2 DEF LiveInv
  <2>1. CASE bound[c] = own[p] /\ pc[c] \in {"start", "live"}
    <3>1. /\ Queue(live[c], seen[c]) /\ seen[c] <= total[bound[c]] /\ seen[c] \in Nat
          /\ live[c] \in Seq(Seq(Nat)) /\ live'[c] = Offer(live[c], b)
      BY <1>1, <2>0, <2>1 DEF ClientOK, TypesInv, PtyTypes
    <3>2. live[c] # <<>> => Head(b) = Last(Last(live[c])) + 1
      <4> SUFFICES ASSUME live[c] # <<>> PROVE Head(b) = Last(Last(live[c])) + 1
        OBVIOUS
      <4>1. HandedOut(own[p], Last(Last(live[c])))
        BY <2>0, <2>1 DEF ClientOK
      <4>2. Last(Last(live[c])) = total[own[p]] - Len(chunk[p])
        BY <1>8, <4>1 DEF HandedOut
      <4> QED
        BY <1>5, <1>6, <1>7, <4>2
    <3>3. Last(b) >= seen[c]
      BY <1>5, <1>6, <1>7, <2>1, <3>1
    <3>4. Queue(live'[c], seen[c]) /\ Last(live'[c]) = b
      BY <1>6, <1>7, <3>1, <3>2, <3>3, QueueOffer
    <3>5. Last(Last(live'[c])) = total[own[p]] - 0
      BY <1>5, <1>6, <1>7, <3>4
    <3>6. HandedOut(bound[c], Last(Last(live[c])))'
      <4>1. PumpsOf(bound[c])' = {p} /\ chunk'[p] = <<>>
        BY <1>1, <1>2, <1>8, <2>1 DEF PumpsOf
      <4>2. Last(Last(live'[c])) = total'[bound'[c]] - Len(chunk'[p])
        BY <1>1, <2>1, <3>5, <4>1
      <4> QED
        BY <4>1, <4>2 DEF HandedOut
    <3> QED
      BY <1>1, <2>0, <3>1, <3>4, <3>6 DEF ClientOK, Queue
  <2>2. CASE pc[c] \notin {"start", "live"}
    <3>1. live'[c] = live[c]
      BY <1>1, <2>2
    <3> QED
      BY <1>1, <2>0, <2>2 DEF ClientOK
  <2>3. CASE bound[c] # own[p]
    <3>1. live'[c] = live[c]
      BY <1>1, <2>3
    <3>2. ASSUME NEW k, HandedOut(bound[c], k) PROVE \A x : x = bound[c] => HandedOut(x, k)'
      <4>1. \A q \in PumpsOf(bound[c]) : chunk'[q] = chunk[q]
        BY <1>2, <2>3 DEF PumpsOf
      <4> QED
        BY <1>1, <1>8, <3>2, <4>1 DEF HandedOut
    <3> QED
      BY <1>1, <1>3, <2>0, <3>1, <3>2, ClientAside
  <2> QED
    BY <2>1, <2>2, <2>3
<1> QED
  BY <1>4, <1>9 DEF LiveInv

LEMMA LiveStep ==
  ASSUME TypesInv, PubSubInv, OnePump, ScrollbackIsTail, LiveInv, [Next]_vars
  PROVE  LiveInv'
<1> USE NotBoth DEF storeVars, sessionVars, taskStates, clientVars
<1>1. ASSUME NEW c \in Clients, Open(c) \/ ClientStep(c) \/ Leave(c) PROVE LiveInv'
  BY <1>1, ClientLive, StartPumpLive DEF ClientStep
<1>2. ASSUME NEW p \in Pumps, PumpStep(p) PROVE LiveInv'
  <2>1. CASE \/ PumpSubscribe(p) \/ ClearGrace(p) \/ AddWriter(p) \/ CheckAgent(p)
             \/ PumpClosed(p) \/ DropAttach(p)
    <3>1. UNCHANGED <<total, own, chunk, live, seen>> /\ pc[p] # "fanout"
      BY <2>1 DEF PumpSubscribe, ClearGrace, AddWriter, CheckAgent, PumpClosed, DropAttach
    <3>2. pc'[p] # "fanout" /\ \A x \in Callers \ {p} : pc'[x] = pc[x] /\ bound'[x] = bound[x]
      BY <1>2, <2>1 DEF PumpSubscribe, ClearGrace, AddWriter, CheckAgent, PumpClosed, DropAttach,
                        Goto, TypesInv, PtyTypes
    <3> QED
      BY <1>2, <3>1, <3>2, LiveFrame
  <2> QED
    BY <1>2, <2>1, PumpRecvLive, FanoutLive, StopPumpLive DEF PumpStep
<1>3. ASSUME NEW s \in Sessions, Detach(s) \/ OpenGrace(s) \/ GracePasses(s) PROVE LiveInv'
  BY <1>3, LiveFrame DEF Detach, OpenGrace, GracePasses
<1>4. CASE UNCHANGED ptyVars
  BY <1>4, LiveFrame DEF ptyVars
<1> QED
  BY NextCases, LookupLive, <1>1, <1>2, <1>3, <1>4

---------------------------------------------------------------------------------
(* The invariants rest on each other and hold together.                             *)
PtyInv ==
    /\ TypesInv /\ PubSubInv
    /\ OnePump /\ WritersAreCounted /\ ScrollbackIsTail /\ LiveInv

LEMMA PtyInvariant == Spec => []PtyInv
<1>1. Init => PtyInv
  BY TypesInitially, PubSubInitially, OnePumpInitially, WritersInitially, ScrollbackInitially, LiveInitially
  DEF PtyInv
<1>2. PtyInv /\ [Next]_vars => PtyInv'
  BY TypesStep, PubSubStep, OnePumpStep, WritersStep, ScrollbackStep, LiveStep, LiveMeans DEF PtyInv
<1> QED
  BY <1>1, <1>2, PTL DEF Spec

(* A session has one pump task exactly while its flag says so, through every early  *)
(* return of the pump (start_pump_once, mark_pump_stopped).                         *)
THEOREM FlagIsTrue == Spec => []PumpFlagIsTrue
<1>1. PtyInv => PumpFlagIsTrue
  BY OnePumpFlag DEF PtyInv
<1> QED
  BY PtyInvariant, <1>1, PTL

(* The writers of a session are counted right although pumps attach to whichever    *)
(* session the map holds and detach in tasks of their own (attach_agent, Drop for   *)
(* AgentAttach).                                                                    *)
THEOREM WritersCounted == Spec => []WritersAreCounted
  BY PtyInvariant, PTL DEF PtyInv

(* The ring holds the last Capacity bytes for messages of any size                  *)
(* (RingBuffer::push).                                                              *)
THEOREM RingKeepsTail == Spec => []ScrollbackIsTail
  BY PtyInvariant, PTL DEF PtyInv

(* From its subscription on a client's output has no hole and does not go back      *)
(* (push_output, the handler's live_rx).                                            *)
THEOREM StreamHasNoHole == Spec => []StreamIsContiguous
<1>1. PtyInv => StreamIsContiguous
  BY LiveMeans DEF PtyInv
<1> QED
  BY PtyInvariant, <1>1, PTL
==================================================================================
