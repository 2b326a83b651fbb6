-------------------------- MODULE TailnetCoordinator --------------------------
(***************************************************************************)
(* The in-memory coordinator of crates/coder-connectivity/src/tailnet.rs   *)
(* and the WebSocket handlers that drive it (agents.rs, deployment.rs,     *)
(* workspaceproxies.rs).  A connection registers its peer, sends requests  *)
(* and is pushed the nodes of the peers it shares a tunnel with or is      *)
(* subscribed to.  A peer that connects again overwrites its session.      *)
(*                                                                         *)
(* All state is behind one mutex, so a handler's call is one step.  The    *)
(* response channel is unbounded and in order; told is the sum of what was *)
(* sent over it: the node that the far end holds for each peer once it has *)
(* read everything.  Error answers and ready-for-handshake are messages    *)
(* that change neither the coordinator nor that view.                      *)
(***************************************************************************)
EXTENDS Naturals

CONSTANTS
    WsPeers,  \* ids of agents and users, which connect by WebSocket
    Proxies,  \* ids of workspace proxies' connections, fresh for each
    Conns,    \* connections; also the session ids
    Owner,    \* the peer a connection belongs to
    Nodes,    \* node infos
    Requests, \* the requests that connections send
    NoNode,   \* the peer has not told its node
    Nobody    \* no peer, no session

Peers == WsPeers \cup Proxies

\* CoordinateRequest, whose parts are optional.  The id of a proxy's
\* connection is drawn by the server and told to nobody: no request names it.
AllRequests ==
    [update_self : Nodes \cup {NoNode}, add_tunnel : WsPeers \cup {Nobody},
     remove_tunnel : WsPeers \cup {Nobody}, disconnect : BOOLEAN]

ASSUME TailnetAssumption ==
    /\ Requests \subseteq AllRequests
    /\ WsPeers \cap Proxies = {}
    /\ Owner \in [Conns -> Peers]
    /\ \A c, d \in Conns : Owner[c] \in Proxies /\ Owner[c] = Owner[d] => c = d
    /\ NoNode \notin Nodes /\ Nobody \notin Conns /\ Nobody \notin Peers

INSTANCE TunnelStore

VARIABLES
    inner, \* CoordinatorInner, and what was sent to each connection
    conn   \* the connections: "new", "open", "closed"

vars == <<inner, conn>>

Views == [Peers -> Nodes \cup {NoNode}]
Blank == [p \in Peers |-> NoNode]

Inners ==
    [session : [Peers -> Conns \cup {Nobody}],     \* peers, by session_id
     node : [Peers -> Nodes \cup {NoNode}],
     tunnels : TunnelStores,
     subscriptions : [Proxies -> SUBSET WsPeers],
     told : [Conns -> Views]]

TypeOK == inner \in Inners /\ conn \in [Conns -> {"new", "open", "closed"}]

Init ==
    /\ inner = [session |-> [p \in Peers |-> Nobody],
                node |-> [p \in Peers |-> NoNode],
                tunnels |-> NoTunnels,
                subscriptions |-> [p \in Proxies |-> {}],
                told |-> [c \in Conns |-> Blank]]
    /\ conn = [c \in Conns |-> "new"]

Registered(s, p) == s.session[p] # Nobody

-----------------------------------------------------------------------------
(* What the coordinator does to its state s.                               *)

\* send_to_peer, for every peer in to: their sessions hear that the node of
\* peer p is n.
Send(s, to, p, n) ==
    [s EXCEPT !.told =
        [c \in Conns |-> IF Owner[c] \in to /\ s.session[Owner[c]] = c
                         THEN [s.told[c] EXCEPT ![p] = n]
                         ELSE s.told[c]]]

\* The node of p, if it is known.
SendNode(s, to, p) == IF s.node[p] = NoNode THEN s ELSE Send(s, {to}, p, s.node[p])

Subscribers(s, p) == {x \in Proxies : p \in s.subscriptions[x]}

\* coordinate: the old session is dropped, the tunnels are kept, and their
\* known nodes are sent to the new session.
Coordinate(s, p, c) ==
    [s EXCEPT !.session[p] = c,
              !.node[p] = NoNode,
              !.told[c] = [q \in Peers |-> IF q \in TunnelPeers(s.tunnels, p) \ {p}
                                           THEN s.node[q] ELSE @[q]]]

\* MUTANT: subscribers are not told.
UpdateTunnelPeers(s, p, n) ==
    IF n = NoNode THEN s
    ELSE Send([s EXCEPT !.node[p] = n], TunnelPeers(s.tunnels, p), p, n)

UpdateSelf(s, p, n) ==
    IF n = NoNode THEN s
    ELSE Send([s EXCEPT !.node[p] = n], TunnelPeers(s.tunnels, p) \cup Subscribers(s, p), p, n)

RequestTunnel(s, p, dst) ==
    IF dst \in {Nobody, p} \/ ~Registered(s, dst) THEN s
    ELSE SendNode(SendNode([s EXCEPT !.tunnels = AddTunnel(@, p, dst)], p, dst), dst, p)

\* MUTANT: only the other end hears that the tunnel is gone.
DropTunnelOneEnd(s, p, dst) ==
    IF dst = Nobody \/ ~TunnelExists(s.tunnels, p, dst) THEN s
    ELSE [Send(s, {dst}, p, NoNode) EXCEPT !.tunnels = RemoveTunnel(@, p, dst)]

DropTunnel(s, p, dst) ==
    IF dst = Nobody \/ ~TunnelExists(s.tunnels, p, dst) THEN s
    ELSE [Send(Send(s, {p}, dst, NoNode), {dst}, p, NoNode)
            EXCEPT !.tunnels = RemoveTunnel(@, p, dst)]

\* Disconnect, and the end of close_coordination: the tunnel peers are told
\* (Disconnected or Lost), subscribers are not.
RemovePeer(s, p) ==
    [Send(s, TunnelPeers(s.tunnels, p), p, NoNode)
        EXCEPT !.tunnels = RemoveAll(@, p),
               !.session[p] = Nobody,
               !.node[p] = NoNode,
               !.subscriptions = [x \in Proxies |-> IF x = p THEN {} ELSE @[x]]]

\* process_request: the parts of a request in this order.  The peer is found
\* by its id: the session that sent the request is not looked at.
ProcessRequest(s, p, r) ==
    IF ~Registered(s, p) THEN s
    ELSE LET updated == UpdateSelf(s, p, r.update_self)
             added   == RequestTunnel(updated, p, r.add_tunnel)
             dropped == DropTunnel(added, p, r.remove_tunnel)
         IN  IF r.disconnect THEN RemovePeer(dropped, p) ELSE dropped

\* MultiAgentConn::subscribe, unsubscribe.
Subscribe(s, x, p) ==
    IF p = Nobody THEN s
    ELSE SendNode([s EXCEPT !.subscriptions[x] = @ \cup {p}], x, p)

Unsubscribe(s, x, p) == [s EXCEPT !.subscriptions[x] = @ \ {p}]

\* MUTANT: any connection of the peer ends its session.
CloseAnySession(s, p, c) == IF ~Registered(s, p) THEN s ELSE RemovePeer(s, p)

\* close_coordination: only the session that is current.
CloseCoordination(s, p, c) == IF s.session[p] # c THEN s ELSE RemovePeer(s, p)

-----------------------------------------------------------------------------
(* The handlers.                                                           *)

Connect(c) ==
    /\ conn[c] = "new"
    /\ conn' = [conn EXCEPT ![c] = "open"]
    /\ inner' = Coordinate(inner, Owner[c], c)

Request(c) ==
    /\ conn[c] = "open" /\ Owner[c] \in WsPeers
    /\ \E r \in Requests : inner' = ProcessRequest(inner, Owner[c], r)
    /\ UNCHANGED conn

\* apply_proxy_coordinate_request: a tunnel is a subscription.  Each part takes
\* the lock anew; requests of a single part give what may come between.
ProxyRequest(c) ==
    /\ conn[c] = "open" /\ Owner[c] \in Proxies
    /\ \E r \in Requests :
         LET updated    == IF Registered(inner, Owner[c])
                           THEN UpdateSelf(inner, Owner[c], r.update_self) ELSE inner
             subscribed == Subscribe(updated, Owner[c], r.add_tunnel)
         IN  inner' = Unsubscribe(subscribed, Owner[c], r.remove_tunnel)
    /\ UNCHANGED conn

\* The handler's loop ends; nobody reads the channel any more.
LeaveLoop(c) ==
    /\ conn[c] = "open"
    /\ conn' = [conn EXCEPT ![c] = "closed"]
    /\ inner' = [CloseCoordination(inner, Owner[c], c) EXCEPT !.told[c] = Blank]

SocketCloses(c) == LeaveLoop(c)

\* MUTANT: the handler of an overwritten session waits for its socket.
NeverEvicted(c) == FALSE /\ LeaveLoop(c)

\* The sender was dropped with the session: recv returns None.
Evicted(c) == inner.session[Owner[c]] # c /\ LeaveLoop(c)

Next ==
    \E c \in Conns :
        Connect(c) \/ Request(c) \/ ProxyRequest(c) \/ SocketCloses(c) \/ Evicted(c)

Spec == Init /\ [][Next]_vars

\* Every handler's task is polled: a recv that can return does.
FairSpec == Spec /\ \A c \in Conns : WF_vars(Evicted(c))

-----------------------------------------------------------------------------
(* Properties.                                                             *)

\* The two maps of the tunnel store agree, and both ends of a tunnel are
\* registered, after any mix of requests, reconnects and disconnects.
TunnelsConsistent ==
    /\ Mirrored(inner.tunnels)
    /\ \A p \in Peers : TunnelPeers(inner.tunnels, p) # {} => Registered(inner, p)

\* The peers whose node p is to know.
Interest(s, p) ==
    TunnelPeers(s.tunnels, p) \cup (IF p \in Proxies THEN s.subscriptions[p] ELSE {})

\* A session that has read its channel holds the current node of every peer
\* it shares a tunnel with or is subscribed to: no update overtakes another,
\* and a session that overwrote an older one lacks none.
ViewIsCurrent ==
    \A p \in Peers : Registered(inner, p) =>
        \A q \in Interest(inner, p) :
            inner.node[q] # NoNode => inner.told[inner.session[p]][q] = inner.node[q]

\* An agent's or user's session holds a node only of peers it shares a
\* tunnel with: whoever is removed or leaves is taken back from it.
NoGhostNode ==
    \A p \in WsPeers : Registered(inner, p) =>
        \A q \in Peers :
            inner.told[inner.session[p]][q] # NoNode => q \in TunnelPeers(inner.tunnels, p)

\* The end of an overwritten connection leaves the newer session alone.
StaleCloseIsHarmless ==
    [][\A c, d \in Conns :
        /\ Owner[c] = Owner[d] /\ c # d
        /\ conn[c] = "open" /\ conn'[c] = "closed"
        /\ inner.session[Owner[d]] = d
        => /\ inner'.session = inner.session /\ inner'.tunnels = inner.tunnels
           /\ inner'.told[d] = inner.told[d]]_vars

\* A connection whose session was overwritten or disconnected ends.
OverwrittenEnds ==
    \A c \in Conns :
        (conn[c] = "open" /\ inner.session[Owner[c]] # c) ~> conn[c] = "closed"
=============================================================================
