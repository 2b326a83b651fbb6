---------------------------- MODULE MCWorkspaceLifecycle ---------------------------
(* Small instance of WorkspaceLifecycle for TLC: one worker of each kind.           *)
EXTENDS WorkspaceLifecycle, TLC

CONSTANTS scheduler, executor, bumper, checker

MCKind == scheduler :> "scheduler" @@ executor :> "executor" @@ bumper :> "bumper"
          @@ checker :> "checker"

(* A pass of the checker may take a tick.                                           *)
MCMaxPass == [w \in DOMAIN MCKind |-> IF w = checker THEN 1 ELSE 0]
====================================================================================
