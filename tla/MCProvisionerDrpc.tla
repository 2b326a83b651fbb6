------------------------------ MODULE MCProvisionerDrpc -----------------------------
(* Small instances of ProvisionerDrpc for TLC: two untagged jobs of the nil         *)
(* organization, the only ones the nil worker may take.                             *)
EXTENDS ProvisionerDrpc

CONSTANTS j1, j2

MCCreatedAt == [j \in {j1, j2} |-> 1]
MCJobOrg == [j \in {j1, j2} |-> "nil"]
MCJobType == [j \in {j1, j2} |-> "terraform"]
MCJobTags == [j \in {j1, j2} |-> {}]
MCWorkerOrg == [w \in {NilWorker} |-> "nil"]
MCWorkerTypes == [w \in {NilWorker} |-> {"terraform", "echo"}]
MCWorkerTags == [w \in {NilWorker} |-> {}]
Scope == {"scope=organization", "owner="}
====================================================================================
