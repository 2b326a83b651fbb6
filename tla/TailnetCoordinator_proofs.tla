---------------------- MODULE TailnetCoordinator_proofs ----------------------
(***************************************************************************)
(* The coordinator's tunnels are consistent and its sessions know the      *)
(* current nodes, for any number of peers, connections and requests of any *)
(* parts.  Each operation on the coordinator's state is shown to keep      *)
(* Good; the actions are compositions of these operations.                 *)
(***************************************************************************)
EXTENDS TailnetCoordinator, TLAPS

-----------------------------------------------------------------------------
(* The tunnel store.                                                       *)

\* The tunnels of u are those of t, and one more.
Added(t, u, a, b) ==
    /\ u \in TunnelStores /\ Mirrored(u)
    /\ \A p, q \in Peers : q \in TunnelPeers(u, p) <=>
           \/ q \in TunnelPeers(t, p)
           \/ p = a /\ q = b
           \/ p = b /\ q = a

LEMMA AddFacts ==
  ASSUME NEW t \in TunnelStores, Mirrored(t), NEW a \in Peers, NEW b \in Peers
  PROVE  Added(t, AddTunnel(t, a, b), a, b)
  BY DEF Added, TunnelStores, Mirrored, AddTunnel, TunnelPeers

\* ... without the one between a and b.
Removed(t, u, a, b) ==
    /\ u \in TunnelStores /\ Mirrored(u)
    /\ \A p, q \in Peers : q \in TunnelPeers(u, p) <=>
           /\ q \in TunnelPeers(t, p)
           /\ ~(p = a /\ q = b)
           /\ ~(p = b /\ q = a)

LEMMA RemoveFacts ==
  ASSUME NEW t \in TunnelStores, Mirrored(t), NEW a \in Peers, NEW b \in Peers
  PROVE  Removed(t, RemoveTunnel(t, a, b), a, b)
  BY DEF Removed, TunnelStores, Mirrored, RemoveTunnel, Without, TunnelPeers

\* ... without those of id.
Cleared(t, u, id) ==
    /\ u \in TunnelStores /\ Mirrored(u)
    /\ \A p, q \in Peers : q \in TunnelPeers(u, p) <=>
           q \in TunnelPeers(t, p) /\ p # id /\ q # id

LEMMA RemoveAllFacts ==
  ASSUME NEW t \in TunnelStores, Mirrored(t), NEW id \in Peers
  PROVE  Cleared(t, RemoveAll(t, id), id)
  BY DEF Cleared, TunnelStores, Mirrored, RemoveAll, RemoveOutgoing, Without, TunnelPeers

LEMMA BothEnds ==
  ASSUME NEW t \in TunnelStores, Mirrored(t)
  PROVE  /\ \A p, q \in Peers : q \in TunnelPeers(t, p) <=> p \in TunnelPeers(t, q)
         /\ \A p \in Peers : TunnelPeers(t, p) \subseteq Peers
         /\ \A p, q \in Peers : TunnelExists(t, p, q) <=> q \in TunnelPeers(t, p)
  BY DEF TunnelStores, Mirrored, TunnelPeers, TunnelExists

-----------------------------------------------------------------------------
(* The invariant, as a predicate of the coordinator's state.               *)

Tunnelled(s, p) == TunnelPeers(s.tunnels, p)

Current(s) ==
    \A p \in Peers : Registered(s, p) =>
        \A q \in Interest(s, p) :
            s.node[q] # NoNode => s.told[s.session[p]][q] = s.node[q]

NoGhost(s) ==
    \A p \in WsPeers : Registered(s, p) =>
        \A q \in Peers : s.told[s.session[p]][q] # NoNode => q \in Tunnelled(s, p)

Good(s) ==
    /\ s \in Inners
    /\ Mirrored(s.tunnels)
    /\ \A p \in Peers : Tunnelled(s, p) # {} => Registered(s, p)
    /\ \A p \in Peers : p \notin Tunnelled(s, p)
    /\ \A p \in Proxies : Tunnelled(s, p) = {}
    /\ \A p \in Peers : Registered(s, p) => Owner[s.session[p]] = p
    /\ Current(s)
    /\ NoGhost(s)

\* What the states of the connections add.
Linked(s, cs) ==
    \A c \in Conns :
        /\ s.session[Owner[c]] = c => cs[c] = "open"
        /\ cs[c] = "new" =>
              /\ s.told[c] = Blank
              /\ Owner[c] \in Proxies => s.subscriptions[Owner[c]] = {}

TailnetInv == Good(inner) /\ Linked(inner, conn) /\ conn \in [Conns -> {"new", "open", "closed"}]

\* t is s after sending; sessions and maps are the same.
Sent(s, t, to, p, n) ==
    /\ t \in Inners
    /\ t.session = s.session /\ t.node = s.node /\ t.tunnels = s.tunnels
    /\ t.subscriptions = s.subscriptions
    /\ \A c \in Conns, q \in Peers :
         t.told[c][q] = IF Owner[c] \in to /\ s.session[Owner[c]] = c /\ q = p
                        THEN n ELSE s.told[c][q]
    /\ \A c \in Conns : s.session[Owner[c]] # c => t.told[c] = s.told[c]

LEMMA SendFacts ==
  ASSUME NEW s \in Inners, NEW to, NEW p \in Peers, NEW n \in Nodes \cup {NoNode}
  PROVE  Sent(s, Send(s, to, p, n), to, p, n)
  BY DEF Sent, Send, Inners, Views

-----------------------------------------------------------------------------
(* The operations.  None but RemovePeer and Coordinate changes a session,  *)
(* none but Coordinate sends to a connection that has none.                *)

\* What a request leaves alone.
Kept(s, t) ==
    /\ t.session = s.session
    /\ \A c \in Conns : s.session[Owner[c]] # c => t.told[c] = s.told[c]

LEMMA UpdateSelfGood ==
  ASSUME NEW s, Good(s), NEW p \in Peers, NEW n \in Nodes \cup {NoNode}
  PROVE  /\ Good(UpdateSelf(s, p, n)) /\ Kept(s, UpdateSelf(s, p, n))
         /\ UpdateSelf(s, p, n).subscriptions = s.subscriptions
<1>1. CASE n = NoNode
  BY <1>1 DEF UpdateSelf, Kept
<1>2. CASE n # NoNode
  <2> DEFINE m == [s EXCEPT !.node[p] = n]
             to == Tunnelled(s, p) \cup Subscribers(s, p)
             t == Send(m, to, p, n)
  <2>1. UpdateSelf(s, p, n) = t
    BY <1>2 DEF UpdateSelf, Tunnelled
  <2>2. /\ m \in Inners /\ m.session = s.session /\ m.tunnels = s.tunnels /\ m.told = s.told
        /\ m.subscriptions = s.subscriptions /\ m.node = [s.node EXCEPT ![p] = n]
    BY DEF Good, Inners
  <2> HIDE DEF m, to
  <2>3. /\ t \in Inners
        /\ t.session = s.session /\ t.node = [s.node EXCEPT ![p] = n] /\ t.tunnels = s.tunnels
        /\ t.subscriptions = s.subscriptions
        /\ \A c \in Conns, q \in Peers :
             t.told[c][q] = IF Owner[c] \in to /\ s.session[Owner[c]] = c /\ q = p
                            THEN n ELSE s.told[c][q]
        /\ \A c \in Conns : s.session[Owner[c]] # c => t.told[c] = s.told[c]
    <3>1. Sent(m, t, to, p, n)
      BY <2>2, SendFacts
    <3> HIDE DEF t
    <3> QED
      BY <2>2, <3>1 DEF Sent
  <2> HIDE DEF t
  <2> USE DEF to
  <2>4. s.node \in [Peers -> Nodes \cup {NoNode}] /\ s.session \in [Peers -> Conns \cup {Nobody}]
        /\ s.tunnels \in TunnelStores /\ Mirrored(s.tunnels)
    BY DEF Good, Inners
  <2>5. Current(t)
    <3> SUFFICES ASSUME NEW x \in Peers, Registered(t, x), NEW q \in Interest(t, x),
                        t.node[q] # NoNode
                 PROVE  t.told[t.session[x]][q] = t.node[q]
      BY DEF Current
    <3>1. /\ Registered(s, x) /\ Interest(t, x) = Interest(s, x) /\ s.session[x] \in Conns
          /\ Owner[s.session[x]] = x /\ q \in Interest(s, x) /\ q \in Peers
      BY <2>3, <2>4, BothEnds DEF Registered, Interest, Good, Inners, Peers, Tunnelled
    <3>2. CASE q # p
      BY <2>3, <2>4, <3>1, <3>2 DEF Good, Current
    <3>3. CASE q = p
      <4>1. x \in to
        BY <2>4, <3>1, <3>3, BothEnds DEF Interest, Subscribers, Tunnelled
      <4> QED
        BY <2>3, <2>4, <3>1, <3>3, <4>1
    <3> QED
      BY <3>2, <3>3
  <2>6. NoGhost(t)
    <3> SUFFICES ASSUME NEW x \in WsPeers, Registered(t, x), NEW q \in Peers,
                        t.told[t.session[x]][q] # NoNode
                 PROVE  q \in Tunnelled(t, x)
      BY DEF NoGhost
    <3>1. /\ Registered(s, x) /\ s.session[x] \in Conns /\ x \in Peers /\ x \notin Proxies
          /\ Owner[s.session[x]] = x /\ Tunnelled(t, x) = Tunnelled(s, x)
      BY <2>3, <2>4, TailnetAssumption DEF Registered, Good, Peers, Tunnelled
    <3>2. CASE q # p \/ x \notin to
      BY <2>3, <3>1, <3>2 DEF Good, NoGhost
    <3>3. CASE q = p /\ x \in to
      BY <2>4, <3>1, <3>3, BothEnds DEF Subscribers, Tunnelled
    <3> QED
      BY <3>2, <3>3
  <2>7. Good(t)
    BY <2>3, <2>5, <2>6 DEF Good, Registered, Tunnelled
  <2> QED
    BY <2>1, <2>3, <2>7 DEF Kept
<1> QED
  BY <1>1, <1>2

\* Pushing a known node to an end of a tunnel, or to a subscriber.
SentNode(s, t, x, p) ==
    /\ t \in Inners
    /\ t.session = s.session /\ t.node = s.node /\ t.tunnels = s.tunnels
    /\ t.subscriptions = s.subscriptions
    /\ \A c \in Conns, q \in Peers :
         t.told[c][q] = IF /\ Owner[c] = x /\ s.session[x] = c /\ q = p
                           /\ s.node[p] # NoNode
                        THEN s.node[p] ELSE s.told[c][q]
    /\ \A c \in Conns : s.session[Owner[c]] # c => t.told[c] = s.told[c]

LEMMA SendNodeFacts ==
  ASSUME NEW s \in Inners, NEW x \in Peers, NEW p \in Peers
  PROVE  SentNode(s, SendNode(s, x, p), x, p)
<1>1. s.node[p] \in Nodes \cup {NoNode}
  BY DEF Inners
<1>2. CASE s.node[p] = NoNode
  BY <1>2 DEF SendNode, SentNode
<1>3. CASE s.node[p] # NoNode
  <2> DEFINE t == Send(s, {x}, p, s.node[p])
  <2>1. Sent(s, t, {x}, p, s.node[p])
    BY <1>1, SendFacts
  <2>2. SendNode(s, x, p) = t
    BY <1>3 DEF SendNode
  <2> HIDE DEF t
  <2> QED
    BY <1>3, <2>1, <2>2 DEF Sent, SentNode
<1> QED
  BY <1>2, <1>3

LEMMA RequestTunnelGood ==
  ASSUME NEW s, Good(s), NEW p \in WsPeers, Registered(s, p), NEW d \in WsPeers \cup {Nobody}
  PROVE  /\ Good(RequestTunnel(s, p, d)) /\ Kept(s, RequestTunnel(s, p, d))
         /\ RequestTunnel(s, p, d).subscriptions = s.subscriptions
<1>1. CASE d \in {Nobody, p} \/ ~Registered(s, d)
  BY <1>1 DEF RequestTunnel, Kept
<1>2. CASE ~(d \in {Nobody, p} \/ ~Registered(s, d))
  <2> DEFINE m == [s EXCEPT !.tunnels = AddTunnel(@, p, d)]
             v == SendNode(m, p, d)
             t == SendNode(v, d, p)
  <2>0. p \in Peers /\ d \in Peers /\ p # d /\ Registered(s, d) /\ p \notin Proxies /\ d \notin Proxies
    BY <1>2, TailnetAssumption DEF Peers
  <2>1. RequestTunnel(s, p, d) = t
    BY <1>2 DEF RequestTunnel
  <2>2. Added(s.tunnels, AddTunnel(s.tunnels, p, d), p, d)
    BY <2>0, AddFacts DEF Good, Inners
  <2>3. /\ m \in Inners /\ m.session = s.session /\ m.told = s.told /\ m.node = s.node
        /\ m.subscriptions = s.subscriptions /\ Added(s.tunnels, m.tunnels, p, d)
    BY <2>2 DEF Good, Inners, Added
  <2> HIDE DEF m
  <2>4. SentNode(m, v, p, d)
    BY <2>0, <2>3, SendNodeFacts
  <2> HIDE DEF v
  <2>5. SentNode(v, t, d, p)
    BY <2>0, <2>4, SendNodeFacts DEF SentNode
  <2> HIDE DEF t
  <2>6. /\ t \in Inners /\ t.session = s.session /\ t.node = s.node
        /\ t.subscriptions = s.subscriptions /\ Added(s.tunnels, t.tunnels, p, d)
        /\ \A c \in Conns : s.session[Owner[c]] # c => t.told[c] = s.told[c]
    BY <2>3, <2>4, <2>5 DEF SentNode
  <2>7. \A c \in Conns, q \in Peers :
           t.told[c][q] = IF s.session[Owner[c]] = c /\ Owner[c] = p /\ q = d /\ s.node[d] # NoNode
                          THEN s.node[d]
                          ELSE IF s.session[Owner[c]] = c /\ Owner[c] = d /\ q = p /\ s.node[p] # NoNode
                          THEN s.node[p] ELSE s.told[c][q]
    BY <2>0, <2>3, <2>4, <2>5 DEF SentNode
  <2>8. \A x \in Peers : Tunnelled(t, x) \subseteq Peers /\ Tunnelled(s, x) \subseteq Peers
    BY <2>6, BothEnds DEF Good, Inners, Tunnelled, Added
  <2>9. \A x \in Peers : Registered(s, x) => s.session[x] \in Conns /\ Owner[s.session[x]] = x
    BY DEF Good, Inners, Registered
  <2>10. Current(t)
    <3> SUFFICES ASSUME NEW x \in Peers, Registered(t, x), NEW q \in Interest(t, x),
                        t.node[q] # NoNode
                 PROVE  t.told[t.session[x]][q] = t.node[q]
      BY DEF Current
    <3>1. /\ Registered(s, x) /\ q \in Peers
          /\ q \in Interest(s, x) \/ (x = p /\ q = d) \/ (x = d /\ q = p)
      BY <2>0, <2>6, <2>8 DEF Registered, Interest, Added, Tunnelled, Inners, Peers
    <3>2. q \in Interest(s, x) => s.told[s.session[x]][q] = s.node[q]
      BY <2>6, <3>1 DEF Good, Current
    <3> QED
      BY <2>0, <2>6, <2>7, <2>9, <3>1, <3>2
  <2>11. NoGhost(t)
    <3> SUFFICES ASSUME NEW x \in WsPeers, Registered(t, x), NEW q \in Peers,
                        t.told[t.session[x]][q] # NoNode
                 PROVE  q \in Tunnelled(t, x)
      BY DEF NoGhost
    <3>1. Registered(s, x) /\ x \in Peers
      BY <2>6 DEF Registered, Peers
    <3>2. s.told[s.session[x]][q] # NoNode => q \in Tunnelled(s, x)
      BY <3>1 DEF Good, NoGhost
    <3> QED
      BY <2>0, <2>6, <2>7, <2>9, <3>1, <3>2 DEF Tunnelled, Added
  <2>12. \A x \in Peers : /\ Tunnelled(t, x) # {} => Registered(t, x)
                          /\ x \notin Tunnelled(t, x)
                          /\ x \in Proxies => Tunnelled(t, x) = {}
    <3> SUFFICES ASSUME NEW x \in Peers
                 PROVE  /\ \A q \in Peers : q \in Tunnelled(t, x) => Registered(t, x)
                        /\ x \notin Tunnelled(t, x)
                        /\ x \in Proxies => \A q \in Peers : q \notin Tunnelled(t, x)
      BY <2>8
    <3> QED
      BY <2>0, <2>6 DEF Good, Added, Tunnelled, Registered
  <2>13. Good(t)
    BY <2>6, <2>9, <2>10, <2>11, <2>12 DEF Good, Registered, Peers, Added
  <2> QED
    BY <2>1, <2>6, <2>13 DEF Kept
<1> QED
  BY <1>1, <1>2

LEMMA DropTunnelGood ==
  ASSUME NEW s, Good(s), NEW p \in WsPeers, NEW d \in WsPeers \cup {Nobody}
  PROVE  /\ Good(DropTunnel(s, p, d)) /\ Kept(s, DropTunnel(s, p, d))
         /\ DropTunnel(s, p, d).subscriptions = s.subscriptions
<1>1. CASE d = Nobody \/ ~TunnelExists(s.tunnels, p, d)
  BY <1>1 DEF DropTunnel, Kept
<1>2. CASE ~(d = Nobody \/ ~TunnelExists(s.tunnels, p, d))
  <2> DEFINE v == Send(s, {p}, d, NoNode)
             w == Send(v, {d}, p, NoNode)
             t == [w EXCEPT !.tunnels = RemoveTunnel(@, p, d)]
  <2>0. p \in Peers /\ d \in Peers /\ p \notin Proxies /\ d \notin Proxies
    BY <1>2, TailnetAssumption DEF Peers
  <2>1. DropTunnel(s, p, d) = t
    BY <1>2 DEF DropTunnel
  <2>2. Sent(s, v, {p}, d, NoNode)
    BY <2>0, SendFacts DEF Good
  <2> HIDE DEF v
  <2>3. Sent(v, w, {d}, p, NoNode)
    <3>1. v \in Inners
      BY <2>2 DEF Sent
    <3> QED
      BY <2>0, <3>1, SendFacts
  <2> HIDE DEF w
  <2>4. w \in Inners /\ w.tunnels = s.tunnels
    BY <2>2, <2>3 DEF Sent
  <2>5. Removed(s.tunnels, RemoveTunnel(s.tunnels, p, d), p, d)
    BY <2>0, RemoveFacts DEF Good, Inners
  <2>6. /\ t \in Inners /\ t.session = w.session /\ t.told = w.told /\ t.node = w.node
        /\ t.subscriptions = w.subscriptions /\ Removed(s.tunnels, t.tunnels, p, d)
    BY <2>4, <2>5 DEF Inners, Removed
  <2> HIDE DEF t
  <2>7. /\ t.session = s.session /\ t.node = s.node /\ t.subscriptions = s.subscriptions
        /\ \A c \in Conns : s.session[Owner[c]] # c => t.told[c] = s.told[c]
    BY <2>2, <2>3, <2>6 DEF Sent
  <2>8. \A c \in Conns, q \in Peers :
           t.told[c][q] = IF /\ s.session[Owner[c]] = c
                             /\ (Owner[c] = p /\ q = d) \/ (Owner[c] = d /\ q = p)
                          THEN NoNode ELSE s.told[c][q]
    BY <2>0, <2>2, <2>3, <2>6 DEF Sent
  <2>9. \A x \in Peers : Tunnelled(t, x) \subseteq Peers
    BY <2>6, BothEnds DEF Inners, Tunnelled, Removed
  <2>10. \A x \in Peers : Registered(s, x) => s.session[x] \in Conns /\ Owner[s.session[x]] = x
    BY DEF Good, Inners, Registered
  <2>11. Current(t)
    <3> SUFFICES ASSUME NEW x \in Peers, Registered(t, x), NEW q \in Interest(t, x),
                        t.node[q] # NoNode
                 PROVE  t.told[t.session[x]][q] = t.node[q]
      BY DEF Current
    <3>1. /\ Registered(s, x) /\ q \in Peers /\ q \in Interest(s, x)
          /\ ~(x = p /\ q = d) /\ ~(x = d /\ q = p)
      BY <2>0, <2>6, <2>7, <2>9 DEF Registered, Interest, Removed, Tunnelled, Inners, Peers
    <3> QED
      BY <2>7, <2>8, <2>10, <3>1 DEF Good, Current
  <2>12. NoGhost(t)
    <3> SUFFICES ASSUME NEW x \in WsPeers, Registered(t, x), NEW q \in Peers,
                        t.told[t.session[x]][q] # NoNode
                 PROVE  q \in Tunnelled(t, x)
      BY DEF NoGhost
    <3>1. Registered(s, x) /\ x \in Peers
      BY <2>7 DEF Registered, Peers
    <3>2. s.told[s.session[x]][q] # NoNode => q \in Tunnelled(s, x)
      BY <3>1 DEF Good, NoGhost
    <3> QED
      BY <2>6, <2>7, <2>8, <2>10, <3>1, <3>2 DEF Tunnelled, Removed
  <2>13. \A x \in Peers : /\ Tunnelled(t, x) # {} => Registered(t, x)
                          /\ x \notin Tunnelled(t, x)
                          /\ x \in Proxies => Tunnelled(t, x) = {}
    BY <2>6, <2>7, <2>9 DEF Good, Removed, Tunnelled, Registered
  <2>14. Good(t)
    BY <2>6, <2>7, <2>10, <2>11, <2>12, <2>13 DEF Good, Registered, Peers, Removed
  <2> QED
    BY <2>1, <2>7, <2>14 DEF Kept
<1> QED
  BY <1>1, <1>2

\* What is left when peer p is gone.
Gone(s, t, p) ==
    /\ Good(t) /\ ~Registered(t, p)
    /\ \A x \in Peers \ {p} : t.session[x] = s.session[x]
    /\ \A x \in Proxies : t.subscriptions[x] \in {{}, s.subscriptions[x]}
    /\ \A c \in Conns : s.session[Owner[c]] # c => t.told[c] = s.told[c]

LEMMA RemovePeerGood ==
  ASSUME NEW s, Good(s), NEW p \in Peers
  PROVE  Gone(s, RemovePeer(s, p), p)
<1> DEFINE to == Tunnelled(s, p)
           w == Send(s, to, p, NoNode)
           t == [w EXCEPT !.tunnels = RemoveAll(@, p),
                          !.session[p] = Nobody,
                          !.node[p] = NoNode,
                          !.subscriptions = [x \in Proxies |-> IF x = p THEN {} ELSE @[x]]]
<1>1. RemovePeer(s, p) = t
  BY DEF RemovePeer, Tunnelled
<1>2. Sent(s, w, to, p, NoNode)
  BY SendFacts DEF Good
<1> HIDE DEF w, to
<1>3. w \in Inners /\ w.tunnels = s.tunnels /\ w.subscriptions = s.subscriptions
      /\ w.session = s.session /\ w.node = s.node
  BY <1>2 DEF Sent
<1>4. Cleared(s.tunnels, RemoveAll(s.tunnels, p), p)
  BY RemoveAllFacts DEF Good, Inners
<1>5. /\ t \in Inners /\ t.session = [s.session EXCEPT ![p] = Nobody] /\ t.told = w.told
      /\ t.node = [s.node EXCEPT ![p] = NoNode] /\ Cleared(s.tunnels, t.tunnels, p)
      /\ t.subscriptions = [x \in Proxies |-> IF x = p THEN {} ELSE s.subscriptions[x]]
  BY <1>3, <1>4 DEF Inners, Cleared
<1> HIDE DEF t
<1> USE DEF to
<1>6. /\ s.session \in [Peers -> Conns \cup {Nobody}] /\ s.node \in [Peers -> Nodes \cup {NoNode}]
      /\ s.tunnels \in TunnelStores /\ Mirrored(s.tunnels)
      /\ s.subscriptions \in [Proxies -> SUBSET WsPeers]
  BY DEF Good, Inners
<1>7. \A c \in Conns, q \in Peers :
         t.told[c][q] = IF Owner[c] \in Tunnelled(s, p) /\ s.session[Owner[c]] = c /\ q = p
                        THEN NoNode ELSE s.told[c][q]
  BY <1>2, <1>5 DEF Sent
<1>8. \A x \in Peers : Registered(t, x) =>
         x # p /\ Registered(s, x) /\ t.session[x] = s.session[x]
         /\ s.session[x] \in Conns /\ Owner[s.session[x]] = x
  BY <1>5, <1>6 DEF Good, Registered
<1>9. \A x \in Peers : Tunnelled(t, x) \subseteq Peers
  BY <1>5, BothEnds DEF Inners, Tunnelled, Cleared
<1>10. Current(t)
  <2> SUFFICES ASSUME NEW x \in Peers, Registered(t, x), NEW q \in Interest(t, x),
                      t.node[q] # NoNode
               PROVE  t.told[t.session[x]][q] = t.node[q]
    BY DEF Current
  <2>1. q \in Peers /\ q \in Interest(s, x) /\ q # p /\ t.node[q] = s.node[q]
    BY <1>5, <1>6, <1>8, <1>9 DEF Interest, Cleared, Tunnelled, Peers
  <2> QED
    BY <1>7, <1>8, <2>1 DEF Good, Current
<1>11. NoGhost(t)
  <2> SUFFICES ASSUME NEW x \in WsPeers, Registered(t, x), NEW q \in Peers,
                      t.told[t.session[x]][q] # NoNode
               PROVE  q \in Tunnelled(t, x)
    BY DEF NoGhost
  <2>1. x \in Peers /\ x # p /\ Registered(s, x)
    BY <1>8 DEF Peers
  <2>2. s.told[s.session[x]][q] # NoNode => q \in Tunnelled(s, x)
    BY <2>1 DEF Good, NoGhost
  <2>3. q = p => x \notin Tunnelled(s, p)
    BY <1>7, <1>8, <2>1
  <2> QED
    BY <1>5, <1>6, <1>7, <1>8, <2>1, <2>2, <2>3, BothEnds DEF Tunnelled, Cleared
<1>12. \A x \in Peers : /\ Tunnelled(t, x) # {} => Registered(t, x)
                        /\ x \notin Tunnelled(t, x)
                        /\ x \in Proxies => Tunnelled(t, x) = {}
  BY <1>5, <1>6, <1>9 DEF Good, Cleared, Tunnelled, Registered
<1>13. Good(t)
  BY <1>5, <1>8, <1>10, <1>11, <1>12 DEF Good, Peers, Cleared
<1> QED
  BY <1>1, <1>2, <1>5, <1>6, <1>13 DEF Gone, Registered, Sent

LEMMA SubscribeGood ==
  ASSUME NEW s, Good(s), NEW x \in Proxies, NEW p \in WsPeers \cup {Nobody}
  PROVE  /\ Good(Subscribe(s, x, p)) /\ Kept(s, Subscribe(s, x, p))
         /\ \A y \in Proxies \ {x} : Subscribe(s, x, p).subscriptions[y] = s.subscriptions[y]
<1>1. CASE p = Nobody
  BY <1>1 DEF Subscribe, Kept
<1>2. CASE p # Nobody
  <2> DEFINE m == [s EXCEPT !.subscriptions[x] = @ \cup {p}]
             t == SendNode(m, x, p)
  <2>0. p \in Peers /\ x \in Peers /\ p \in WsPeers
    BY <1>2 DEF Peers
  <2>1. Subscribe(s, x, p) = t
    BY <1>2 DEF Subscribe
  <2>2. /\ m \in Inners /\ m.session = s.session /\ m.told = s.told /\ m.node = s.node
        /\ m.tunnels = s.tunnels
        /\ m.subscriptions = [s.subscriptions EXCEPT ![x] = @ \cup {p}]
    BY <2>0 DEF Good, Inners
  <2> HIDE DEF m
  <2>3. SentNode(m, t, x, p)
    BY <2>0, <2>2, SendNodeFacts
  <2> HIDE DEF t
  <2>4. /\ t \in Inners /\ t.session = s.session /\ t.node = s.node /\ t.tunnels = s.tunnels
        /\ t.subscriptions = [s.subscriptions EXCEPT ![x] = @ \cup {p}]
        /\ \A c \in Conns : s.session[Owner[c]] # c => t.told[c] = s.told[c]
    BY <2>2, <2>3 DEF SentNode
  <2>5. \A c \in Conns, q \in Peers :
           t.told[c][q] = IF Owner[c] = x /\ s.session[x] = c /\ q = p /\ s.node[p] # NoNode
                          THEN s.node[p] ELSE s.told[c][q]
    BY <2>2, <2>3 DEF SentNode
  <2>6. \A y \in Peers : Registered(s, y) => s.session[y] \in Conns /\ Owner[s.session[y]] = y
    BY DEF Good, Inners, Registered
  <2>7. s.subscriptions \in [Proxies -> SUBSET WsPeers] /\ s.tunnels \in TunnelStores
        /\ Mirrored(s.tunnels)
    BY DEF Good, Inners
  <2>8. Current(t)
    <3> SUFFICES ASSUME NEW y \in Peers, Registered(t, y), NEW q \in Interest(t, y),
                        t.node[q] # NoNode
                 PROVE  t.told[t.session[y]][q] = t.node[q]
      BY DEF Current
    <3>1. /\ Registered(s, y) /\ q \in Peers
          /\ q \in Interest(s, y) \/ (y = x /\ q = p)
      BY <2>0, <2>4, <2>7, BothEnds DEF Registered, Interest, Peers
    <3>2. q \in Interest(s, y) => s.told[s.session[y]][q] = s.node[q]
      BY <2>4, <3>1 DEF Good, Current
    <3> QED
      BY <2>4, <2>5, <2>6, <3>1, <3>2
  <2>9. NoGhost(t)
    <3>1. \A y \in WsPeers : y \in Peers /\ y # x
      BY TailnetAssumption DEF Peers
    <3>2. \A y \in WsPeers : Registered(s, y) =>
            \A q \in Peers : t.told[s.session[y]][q] = s.told[s.session[y]][q]
      BY <2>5, <2>6, <3>1
    <3> QED
      BY <2>4, <3>2 DEF Good, NoGhost, Registered, Tunnelled
  <2>10. Good(t)
    BY <2>4, <2>8, <2>9 DEF Good, Registered, Tunnelled
  <2> QED
    BY <2>1, <2>4, <2>7, <2>10 DEF Kept
<1> QED
  BY <1>1, <1>2

LEMMA UnsubscribeGood ==
  ASSUME NEW s, Good(s), NEW x \in Proxies, NEW p
  PROVE  /\ Good(Unsubscribe(s, x, p)) /\ Kept(s, Unsubscribe(s, x, p))
         /\ \A y \in Proxies \ {x} : Unsubscribe(s, x, p).subscriptions[y] = s.subscriptions[y]
<1> DEFINE t == Unsubscribe(s, x, p)
<1>1. /\ t \in Inners /\ t.session = s.session /\ t.told = s.told /\ t.node = s.node
      /\ t.tunnels = s.tunnels
      /\ t.subscriptions = [s.subscriptions EXCEPT ![x] = @ \ {p}]
      /\ s.subscriptions \in [Proxies -> SUBSET WsPeers]
  BY DEF Good, Inners, Unsubscribe
<1> HIDE DEF t
<1>2. \A y \in Peers : Interest(t, y) \subseteq Interest(s, y)
  BY <1>1 DEF Interest
<1>3. Current(t)
  BY <1>1, <1>2 DEF Good, Current, Registered
<1>4. NoGhost(t)
  BY <1>1 DEF Good, NoGhost, Registered, Tunnelled
<1>5. Good(t)
  BY <1>1, <1>3, <1>4 DEF Good, Registered, Tunnelled
<1> QED
  BY <1>1, <1>5 DEF Kept, t

\* A new session starts with the nodes of the tunnels that were kept.
LEMMA CoordinateGood ==
  ASSUME NEW s, Good(s), NEW c \in Conns, s.told[c] = Blank,
         \A x \in Peers : s.session[x] # c,
         Owner[c] \in Proxies => s.subscriptions[Owner[c]] = {}
  PROVE  LET t == Coordinate(s, Owner[c], c)
         IN  /\ Good(t) /\ t.session = [s.session EXCEPT ![Owner[c]] = c]
             /\ t.subscriptions = s.subscriptions
             /\ \A d \in Conns \ {c} : t.told[d] = s.told[d]
<1> DEFINE p == Owner[c]
           t == Coordinate(s, p, c)
           first == [q \in Peers |-> IF q \in Tunnelled(s, p) \ {p} THEN s.node[q] ELSE NoNode]
<1>1. p \in Peers /\ s.tunnels \in TunnelStores /\ Mirrored(s.tunnels) /\ s \in Inners
      /\ s.session \in [Peers -> Conns \cup {Nobody}] /\ s.node \in [Peers -> Nodes \cup {NoNode}]
      /\ s.told \in [Conns -> Views] /\ s.subscriptions \in [Proxies -> SUBSET WsPeers]
  BY TailnetAssumption DEF Good, Inners
<1>2. first \in Views
  BY <1>1 DEF Views
<1>3. [q \in Peers |-> IF q \in TunnelPeers(s.tunnels, p) \ {p} THEN s.node[q] ELSE s.told[c][q]]
        = first
  BY DEF Blank, Tunnelled
<1>4. /\ t.session = [s.session EXCEPT ![p] = c] /\ t.node = [s.node EXCEPT ![p] = NoNode]
      /\ t.tunnels = s.tunnels /\ t.subscriptions = s.subscriptions
      /\ t.told = [s.told EXCEPT ![c] = first] /\ t \in Inners
  BY <1>1, <1>2, <1>3 DEF Coordinate, Inners
<1> HIDE DEF t
<1>5. \A x \in Peers : x # p /\ Registered(t, x) =>
         /\ Registered(s, x) /\ t.session[x] = s.session[x] /\ s.session[x] # c
         /\ s.session[x] \in Conns /\ t.told[s.session[x]] = s.told[s.session[x]]
  BY <1>1, <1>4 DEF Registered
<1>6. Registered(t, p) /\ t.session[p] = c /\ t.told[c] = first
  BY <1>1, <1>4, TailnetAssumption DEF Registered
<1>7. \A x \in Peers : Interest(t, x) = Interest(s, x) /\ Interest(s, x) \subseteq Peers
                       /\ Tunnelled(t, x) = Tunnelled(s, x)
  BY <1>1, <1>4, BothEnds DEF Interest, Tunnelled, Peers
<1>8. Current(t)
  <2> SUFFICES ASSUME NEW x \in Peers, Registered(t, x), NEW q \in Interest(t, x),
                      t.node[q] # NoNode
               PROVE  t.told[t.session[x]][q] = t.node[q]
    BY DEF Current
  <2>1. q \in Peers /\ q # p /\ t.node[q] = s.node[q] /\ q \in Interest(s, x)
    BY <1>1, <1>4, <1>7
  <2>2. CASE x # p
    BY <1>5, <2>1, <2>2 DEF Good, Current
  <2>3. CASE x = p
    <3>1. q \in Tunnelled(s, p)
      BY <2>1, <2>3 DEF Interest, Tunnelled
    <3> QED
      BY <1>6, <2>1, <2>3, <3>1
  <2> QED
    BY <2>2, <2>3
<1>9. NoGhost(t)
  <2> SUFFICES ASSUME NEW x \in WsPeers, Registered(t, x), NEW q \in Peers,
                      t.told[t.session[x]][q] # NoNode
               PROVE  q \in Tunnelled(t, x)
    BY DEF NoGhost
  <2>1. CASE x # p
    BY <1>5, <1>7, <2>1 DEF Good, NoGhost, Peers
  <2>2. CASE x = p
    BY <1>1, <1>6, <1>7, <2>2
  <2> QED
    BY <2>1, <2>2
<1>10. Good(t)
  <2>1. \A x \in Peers : Tunnelled(t, x) # {} => Registered(t, x)
    BY <1>1, <1>4, <1>6, <1>7 DEF Good, Registered
  <2>2. \A x \in Peers : Registered(t, x) => Owner[t.session[x]] = x
    BY <1>5, <1>6 DEF Good
  <2> QED
    BY <1>1, <1>4, <1>7, <1>8, <1>9, <2>1, <2>2 DEF Good, Peers
<1> QED
  BY <1>1, <1>4, <1>10 DEF t

-----------------------------------------------------------------------------
(* The actions.                                                            *)

LEMMA TailnetInit == Init => TailnetInv
<1> SUFFICES ASSUME Init PROVE TailnetInv
  OBVIOUS
<1>1. NoTunnels \in TunnelStores /\ Mirrored(NoTunnels)
      /\ \A p \in Peers : TunnelPeers(NoTunnels, p) = {}
  BY DEF NoTunnels, TunnelStores, Mirrored, TunnelPeers
<1>2. inner \in Inners /\ inner.tunnels = NoTunnels
  BY <1>1 DEF Init, Inners, Views, Blank
<1>3. \A p \in Peers : inner.session[p] = Nobody
  BY DEF Init
<1>4. Good(inner)
  BY <1>1, <1>2, <1>3 DEF Good, Current, NoGhost, Registered, Tunnelled, Peers
<1>5. Linked(inner, conn)
  <2> SUFFICES ASSUME NEW c \in Conns
               PROVE  /\ inner.session[Owner[c]] # c
                      /\ inner.told[c] = Blank
                      /\ Owner[c] \in Proxies => inner.subscriptions[Owner[c]] = {}
    BY DEF Linked
  <2> QED
    BY <1>3, TailnetAssumption DEF Init
<1> QED
  BY <1>4, <1>5 DEF Init, TailnetInv

LEMMA ConnectKeeps ==
  ASSUME TailnetInv, NEW c \in Conns, Connect(c)
  PROVE  TailnetInv'
<1>1. conn[c] = "new" /\ conn' = [conn EXCEPT ![c] = "open"]
      /\ inner' = Coordinate(inner, Owner[c], c)
  BY DEF Connect
<1>2. \A x \in Peers : inner.session[x] # c
  BY <1>1, TailnetAssumption DEF TailnetInv, Linked, Good, Registered
<1>3. inner.told[c] = Blank /\ (Owner[c] \in Proxies => inner.subscriptions[Owner[c]] = {})
  BY <1>1 DEF TailnetInv, Linked
<1>4. /\ Good(inner') /\ inner'.session = [inner.session EXCEPT ![Owner[c]] = c]
      /\ inner'.subscriptions = inner.subscriptions
      /\ \A d \in Conns \ {c} : inner'.told[d] = inner.told[d]
  BY <1>1, <1>2, <1>3, CoordinateGood DEF TailnetInv
<1>5. conn' \in [Conns -> {"new", "open", "closed"}]
  BY <1>1 DEF TailnetInv
<1>6. Linked(inner', conn')
  <2> SUFFICES ASSUME NEW d \in Conns
               PROVE  /\ inner'.session[Owner[d]] = d => conn'[d] = "open"
                      /\ conn'[d] = "new" =>
                           /\ inner'.told[d] = Blank
                           /\ Owner[d] \in Proxies => inner'.subscriptions[Owner[d]] = {}
    BY DEF Linked
  <2>1. inner.session \in [Peers -> Conns \cup {Nobody}] /\ Owner[c] \in Peers /\ Owner[d] \in Peers
    BY TailnetAssumption DEF TailnetInv, Good, Inners
  <2> QED
    BY <1>1, <1>4, <2>1 DEF TailnetInv, Linked
<1> QED
  BY <1>4, <1>5, <1>6 DEF TailnetInv

\* A step of an open connection that keeps sessions, or removes one.
LEMMA LinkedKept ==
  ASSUME TailnetInv, NEW t, Kept(inner, t),
         \A d \in Conns : conn[d] = "new" /\ Owner[d] \in Proxies => t.subscriptions[Owner[d]] = {}
  PROVE  Linked(t, conn)
  BY DEF TailnetInv, Linked, Kept

LEMMA LinkedGone ==
  ASSUME TailnetInv, NEW s, NEW t, NEW p \in Peers, Gone(s, t, p), Kept(inner, s),
         s.subscriptions = inner.subscriptions
  PROVE  Linked(t, conn)
<1> SUFFICES ASSUME NEW d \in Conns
             PROVE  /\ t.session[Owner[d]] = d => conn[d] = "open"
                    /\ conn[d] = "new" =>
                         /\ t.told[d] = Blank
                         /\ Owner[d] \in Proxies => t.subscriptions[Owner[d]] = {}
  BY DEF Linked
<1>1. Owner[d] \in Peers
  BY TailnetAssumption
<1>2. t.session[Owner[d]] = d => inner.session[Owner[d]] = d
  BY <1>1, TailnetAssumption DEF Gone, Kept, Registered
<1>3. conn[d] = "new" => inner.session[Owner[d]] # d
  BY DEF TailnetInv, Linked
<1> QED
  BY <1>2, <1>3 DEF TailnetInv, Linked, Gone, Kept

LEMMA RequestKeeps ==
  ASSUME TailnetInv, NEW c \in Conns, Request(c)
  PROVE  TailnetInv'
<1>1. PICK r \in Requests : inner' = ProcessRequest(inner, Owner[c], r)
  BY DEF Request
<1> DEFINE p == Owner[c]
<1>2. conn' = conn /\ p \in WsPeers /\ p \in Peers /\ Good(inner)
  BY DEF Request, TailnetInv, Peers
<1>3. /\ r.update_self \in Nodes \cup {NoNode} /\ r.add_tunnel \in WsPeers \cup {Nobody}
      /\ r.remove_tunnel \in WsPeers \cup {Nobody}
  BY TailnetAssumption DEF AllRequests
<1>4. CASE ~Registered(inner, p)
  BY <1>1, <1>2, <1>4 DEF ProcessRequest, TailnetInv
<1>5. CASE Registered(inner, p)
  <2> DEFINE updated == UpdateSelf(inner, p, r.update_self)
             added == RequestTunnel(updated, p, r.add_tunnel)
             dropped == DropTunnel(added, p, r.remove_tunnel)
  <2>1. inner' = IF r.disconnect THEN RemovePeer(dropped, p) ELSE dropped
    BY <1>1, <1>5 DEF ProcessRequest
  <2>2. Good(updated) /\ Kept(inner, updated) /\ updated.subscriptions = inner.subscriptions
    BY <1>2, <1>3, UpdateSelfGood
  <2> HIDE DEF updated
  <2>3. Registered(updated, p)
    BY <1>5, <2>2 DEF Kept, Registered
  <2>4. Good(added) /\ Kept(updated, added) /\ added.subscriptions = updated.subscriptions
    BY <1>2, <1>3, <2>2, <2>3, RequestTunnelGood
  <2> HIDE DEF added
  <2>5. Good(dropped) /\ Kept(added, dropped) /\ dropped.subscriptions = added.subscriptions
    BY <1>2, <1>3, <2>4, DropTunnelGood
  <2> HIDE DEF dropped
  <2>6. Kept(inner, dropped) /\ dropped.subscriptions = inner.subscriptions
    BY <2>2, <2>4, <2>5 DEF Kept
  <2>7. CASE ~r.disconnect
    <3>1. Linked(dropped, conn)
      BY <2>6, LinkedKept DEF TailnetInv, Linked
    <3> QED
      BY <1>2, <2>1, <2>5, <2>7, <3>1 DEF TailnetInv
  <2>8. CASE r.disconnect
    <3>1. Gone(dropped, RemovePeer(dropped, p), p)
      BY <1>2, <2>5, RemovePeerGood
    <3>2. Linked(RemovePeer(dropped, p), conn)
      BY <1>2, <2>6, <3>1, LinkedGone
    <3> QED
      BY <1>2, <2>1, <2>8, <3>1, <3>2 DEF TailnetInv, Gone
  <2> QED
    BY <2>7, <2>8
<1> QED
  BY <1>4, <1>5

LEMMA ProxyRequestKeeps ==
  ASSUME TailnetInv, NEW c \in Conns, ProxyRequest(c)
  PROVE  TailnetInv'
<1> DEFINE x == Owner[c]
           updated(r) == IF Registered(inner, x) THEN UpdateSelf(inner, x, r.update_self) ELSE inner
           subscribed(r) == Subscribe(updated(r), x, r.add_tunnel)
<1>1. PICK r \in Requests : inner' = Unsubscribe(subscribed(r), x, r.remove_tunnel)
  BY DEF ProxyRequest
<1>2. conn' = conn /\ conn[c] = "open" /\ x \in Proxies /\ x \in Peers /\ Good(inner)
  BY DEF ProxyRequest, TailnetInv, Peers
<1>3. r.update_self \in Nodes \cup {NoNode} /\ r.add_tunnel \in WsPeers \cup {Nobody}
  BY TailnetAssumption DEF AllRequests
<1>4. Good(updated(r)) /\ Kept(inner, updated(r)) /\ updated(r).subscriptions = inner.subscriptions
  BY <1>2, <1>3, UpdateSelfGood DEF Kept
<1> HIDE DEF updated
<1>5. /\ Good(subscribed(r)) /\ Kept(updated(r), subscribed(r))
      /\ \A y \in Proxies \ {x} : subscribed(r).subscriptions[y] = updated(r).subscriptions[y]
  BY <1>2, <1>3, <1>4, SubscribeGood
<1> HIDE DEF subscribed
<1>6. /\ Good(inner') /\ Kept(subscribed(r), inner')
      /\ \A y \in Proxies \ {x} : inner'.subscriptions[y] = subscribed(r).subscriptions[y]
  BY <1>1, <1>2, <1>5, UnsubscribeGood
<1>7. Kept(inner, inner')
  BY <1>4, <1>5, <1>6 DEF Kept
<1>8. ASSUME NEW d \in Conns, conn[d] = "new", Owner[d] \in Proxies
      PROVE  inner'.subscriptions[Owner[d]] = {}
  <2>1. Owner[d] # x
    BY <1>2, <1>8, TailnetAssumption
  <2> QED
    BY <1>4, <1>5, <1>6, <1>8, <2>1 DEF TailnetInv, Linked
<1>9. Linked(inner', conn)
  BY <1>7, <1>8, LinkedKept
<1> QED
  BY <1>2, <1>6, <1>9 DEF TailnetInv

LEMMA LeaveLoopKeeps ==
  ASSUME TailnetInv, NEW c \in Conns, LeaveLoop(c)
  PROVE  TailnetInv'
<1> DEFINE p == Owner[c]
           s == CloseCoordination(inner, p, c)
<1>1. /\ conn[c] = "open" /\ conn' = [conn EXCEPT ![c] = "closed"]
      /\ inner' = [s EXCEPT !.told[c] = Blank]
      /\ p \in Peers /\ Good(inner) /\ conn \in [Conns -> {"new", "open", "closed"}]
  BY TailnetAssumption DEF LeaveLoop, TailnetInv
<1>2. Good(s) /\ Linked(s, conn) /\ s.session[p] # c
  <2>1. CASE inner.session[p] # c
    BY <2>1 DEF CloseCoordination, TailnetInv
  <2>2. CASE inner.session[p] = c
    <3>1. Gone(inner, RemovePeer(inner, p), p)
      BY <1>1, RemovePeerGood
    <3>2. Linked(RemovePeer(inner, p), conn)
      BY <1>1, <3>1, LinkedGone DEF Kept
    <3> QED
      BY <2>2, <3>1, <3>2, TailnetAssumption DEF CloseCoordination, Gone, Registered
  <2> QED
    BY <2>1, <2>2
<1> HIDE DEF s
<1>3. /\ inner' \in Inners /\ inner'.session = s.session /\ inner'.node = s.node
      /\ inner'.tunnels = s.tunnels /\ inner'.subscriptions = s.subscriptions
      /\ inner'.told = [s.told EXCEPT ![c] = Blank]
      /\ s.told \in [Conns -> Views] /\ s.session \in [Peers -> Conns \cup {Nobody}]
  BY <1>1, <1>2 DEF Good, Inners, Views, Blank
<1>4. \A x \in Peers : Registered(s, x) =>
         s.session[x] \in Conns /\ s.session[x] # c
         /\ inner'.told[s.session[x]] = s.told[s.session[x]]
  BY <1>2, <1>3 DEF Good, Registered
<1>5. \A x \in Peers : Interest(inner', x) = Interest(s, x)
  BY <1>3 DEF Interest
<1>6. Current(inner')
  BY <1>2, <1>3, <1>4, <1>5 DEF Good, Current, Registered
<1>7. NoGhost(inner')
  BY <1>2, <1>3, <1>4 DEF Good, NoGhost, Registered, Tunnelled, Peers
<1>8. Good(inner')
  BY <1>2, <1>3, <1>6, <1>7 DEF Good, Registered, Tunnelled
<1>9. Linked(inner', conn')
  BY <1>1, <1>2, <1>3 DEF Linked
<1>10. conn' \in [Conns -> {"new", "open", "closed"}]
  BY <1>1
<1> QED
  BY <1>8, <1>9, <1>10 DEF TailnetInv

LEMMA TailnetNext == TailnetInv /\ [Next]_vars => TailnetInv'
<1> SUFFICES ASSUME TailnetInv, [Next]_vars PROVE TailnetInv'
  OBVIOUS
<1>1. CASE UNCHANGED vars
  BY <1>1 DEF vars, TailnetInv
<1>2. ASSUME NEW c \in Conns, SocketCloses(c) \/ Evicted(c) PROVE TailnetInv'
  BY <1>2, LeaveLoopKeeps DEF SocketCloses, Evicted
<1> QED
  BY <1>1, <1>2, ConnectKeeps, RequestKeeps, ProxyRequestKeeps DEF Next

LEMMA TailnetInvHolds == Spec => []TailnetInv
  BY TailnetInit, TailnetNext, PTL DEF Spec

-----------------------------------------------------------------------------
\* by_src and by_dst stay each other's inverse and never name a peer that is
\* not registered, whatever connections and requests come.
THEOREM TunnelsStayConsistent == Spec => []TunnelsConsistent
<1>1. TailnetInv => TunnelsConsistent
  BY DEF TailnetInv, Good, TunnelsConsistent, Tunnelled
<1> QED
  BY <1>1, TailnetInvHolds, PTL

\* Every session has been sent the current node of each of its tunnel peers
\* and subscriptions, also when it has overwritten an older session.
THEOREM ViewStaysCurrent == Spec => []ViewIsCurrent
<1>1. TailnetInv => ViewIsCurrent
  BY DEF TailnetInv, Good, Current, ViewIsCurrent
<1> QED
  BY <1>1, TailnetInvHolds, PTL

\* No agent or user keeps the node of a peer that left or closed the tunnel.
THEOREM NoGhostNodeStays == Spec => []NoGhostNode
<1>1. TailnetInv => NoGhostNode
  BY DEF TailnetInv, Good, NoGhost, NoGhostNode, Tunnelled
<1> QED
  BY <1>1, TailnetInvHolds, PTL

\* The end of an overwritten connection changes nothing of the session that
\* replaced it.
THEOREM StaleCloseChangesNothing == Spec => StaleCloseIsHarmless
<1> DEFINE Step == \A c, d \in Conns :
        /\ Owner[c] = Owner[d] /\ c # d
        /\ conn[c] = "open" /\ conn'[c] = "closed"
        /\ inner.session[Owner[d]] = d
        => /\ inner'.session = inner.session /\ inner'.tunnels = inner.tunnels
           /\ inner'.told[d] = inner.told[d]
<1>1. TailnetInv /\ [Next]_vars => [Step]_vars
  <2> SUFFICES ASSUME TailnetInv, Next, NEW c \in Conns, NEW d \in Conns,
                      Owner[c] = Owner[d], c # d, conn[c] = "open", conn'[c] = "closed",
                      inner.session[Owner[d]] = d
               PROVE  /\ inner'.session = inner.session /\ inner'.tunnels = inner.tunnels
                      /\ inner'.told[d] = inner.told[d]
    BY DEF vars
  <2>1. LeaveLoop(c)
    BY DEF Next, Connect, Request, ProxyRequest, SocketCloses, Evicted, LeaveLoop, TailnetInv
  <2>2. inner' = [inner EXCEPT !.told[c] = Blank]
    BY <2>1 DEF LeaveLoop, CloseCoordination
  <2> QED
    BY <2>2 DEF TailnetInv, Good, Inners
<1> QED
  BY <1>1, TailnetInvHolds, PTL DEF Spec, StaleCloseIsHarmless
=============================================================================
