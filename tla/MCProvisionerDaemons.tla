---------------------------- MODULE MCProvisionerDaemons ---------------------------
(* Small instances of ProvisionerDaemons for TLC.                                   *)
EXTENDS ProvisionerDaemons, TLC

CONSTANTS j1, j2, w1, w2

Scope == {"scope=organization", "owner="}
Gpu == {"scope=organization", "owner=", "gpu=yes"}

(* j1 is an untagged job and the older one, j2 asks for a GPU.  w1 has the          *)
(* untagged scope only; w2 has the GPU tag, so that it may take j2 but, by the      *)
(* exact-match rule, not j1.                                                        *)
MCCreatedAt == j1 :> 1 @@ j2 :> 2
MCJobOrg == [j \in {j1, j2} |-> "org"]
MCJobType == [j \in {j1, j2} |-> "terraform"]
MCJobTags == j1 :> Scope @@ j2 :> Gpu
MCWorkerOrg == [w \in {w1, w2} |-> "org"]
MCWorkerTypes == [w \in {w1, w2} |-> {"terraform"}]
MCWorkerTags == w1 :> Scope @@ w2 :> Gpu
====================================================================================
