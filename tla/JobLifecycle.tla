------------------------------- MODULE JobLifecycle --------------------------------
(* What the provisioner promises of a job, whoever writes the row: a status that    *)
(* moves along the lifecycle, a cancellation that is never undone, and one owner    *)
(* for the job's whole life, given to it when it starts.  The documented statuses   *)
(* are ProvisionerJobStatus of crates/coder-core/src/provisioner.rs.                *)
CONSTANTS Jobs, Workers, NoWorker

VARIABLES status, owner

lifecycleVars == <<status, owner>>

Terminal == {"succeeded", "failed", "canceled"}
Statuses == {"absent", "pending", "running", "canceling"} \cup Terminal

LifecycleInit ==
    /\ status = [j \in Jobs |-> "absent"]
    /\ owner = [j \in Jobs |-> NoWorker]

Submit(j) ==
    /\ status[j] = "absent"
    /\ status' = [status EXCEPT ![j] = "pending"]
    /\ UNCHANGED owner

Start(j, w) ==
    /\ status[j] = "pending" /\ owner[j] = NoWorker
    /\ status' = [status EXCEPT ![j] = "running"]
    /\ owner' = [owner EXCEPT ![j] = w]

(* A job nobody owns is over at once, an owned one is asked to stop.                *)
RequestCancel(j) ==
    /\ status[j] \in {"pending", "running"}
    /\ status' = [status EXCEPT ![j] = IF owner[j] = NoWorker THEN "canceled"
                                                              ELSE "canceling"]
    /\ UNCHANGED owner

(* A verdict, the daemon's or the reaper's.  A requested cancellation turns every   *)
(* verdict into "canceled"; a job that is over may get a later verdict.             *)
Conclude(j, verdict) ==
    /\ status[j] # "absent"
    /\ status' = [status EXCEPT ![j] =
                    IF status[j] \in {"canceling", "canceled"} THEN "canceled" ELSE verdict]
    /\ UNCHANGED owner

LifecycleNext ==
    \E j \in Jobs :
        \/ Submit(j)
        \/ \E w \in Workers : Start(j, w)
        \/ RequestCancel(j)
        \/ \E verdict \in Terminal : Conclude(j, verdict)

LifecycleSpec == LifecycleInit /\ [][LifecycleNext]_lifecycleVars
====================================================================================
