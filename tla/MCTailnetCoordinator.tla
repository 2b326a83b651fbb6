----------------------- MODULE MCTailnetCoordinator -----------------------
(* TailnetCoordinator on a small instance: an agent that reconnects, a     *)
(* user, and a workspace proxy.                                            *)
EXTENDS TailnetCoordinator, FiniteSets, TLC
CONSTANTS agent, user, proxy, a1, a2, u1, x1
MCOwner == a1 :> agent @@ a2 :> agent @@ u1 :> user @@ x1 :> proxy

\* Requests of at most two parts.
Parts(r) ==
    {"u" : x \in {r.update_self} \ {NoNode}} \cup {"a" : x \in {r.add_tunnel} \ {Nobody}}
      \cup {"r" : x \in {r.remove_tunnel} \ {Nobody}} \cup {"d" : x \in {r.disconnect} \ {FALSE}}
MCRequests == {r \in AllRequests : Cardinality(Parts(r)) <= 2}
=============================================================================
