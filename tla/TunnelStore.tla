----------------------------- MODULE TunnelStore -----------------------------
(***************************************************************************)
(* The two maps in which the coordinator keeps the tunnels between peers,  *)
(* TunnelStore of crates/coder-connectivity/src/tailnet.rs: a record t of  *)
(* by_src and by_dst, where a peer without an entry has the empty set.     *)
(***************************************************************************)
CONSTANT Peers

TunnelStores == [by_src : [Peers -> SUBSET Peers], by_dst : [Peers -> SUBSET Peers]]

NoTunnels == [by_src |-> [p \in Peers |-> {}], by_dst |-> [p \in Peers |-> {}]]

\* The entry of every peer in from loses those in gone.
Without(map, from, gone) == [p \in Peers |-> IF p \in from THEN map[p] \ gone ELSE map[p]]

AddTunnel(t, src, dst) ==
    [by_src |-> [t.by_src EXCEPT ![src] = @ \cup {dst}],
     by_dst |-> [t.by_dst EXCEPT ![dst] = @ \cup {src}]]

\* Both directions, whoever added the tunnel.
RemoveTunnel(t, a, b) ==
    [by_src |-> Without(Without(t.by_src, {a}, {b}), {b}, {a}),
     by_dst |-> Without(Without(t.by_dst, {b}, {a}), {a}, {b})]

\* MUTANT: the tunnels that others opened to the peer are forgotten.
RemoveOutgoing(t, id) ==
    [by_src |-> [t.by_src EXCEPT ![id] = {}],
     by_dst |-> Without(t.by_dst, t.by_src[id], {id})]

\* First what id opened, then what was opened to it: the second half reads
\* by_dst as the first one left it.
RemoveAll(t, id) ==
    LET out == RemoveOutgoing(t, id)
    IN  [by_src |-> Without(out.by_src, out.by_dst[id], {id}),
         by_dst |-> [out.by_dst EXCEPT ![id] = {}]]

TunnelPeers(t, id) == t.by_src[id] \cup t.by_dst[id]       \* find_tunnel_peers

TunnelExists(t, a, b) == b \in t.by_src[a] \/ b \in t.by_dst[a]

\* One map is the inverse of the other.
Mirrored(t) == \A a, b \in Peers : b \in t.by_src[a] <=> a \in t.by_dst[b]
=============================================================================
