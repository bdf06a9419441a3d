---------------------------- MODULE MCDeployment ----------------------------
(* A small deployment for TLC. *)
EXTENDS DeploymentProperties

MCAppList == <<"lido">>
MCHolderList == <<"ann", "bob">>
MCVestedAmount == [h \in Holders |-> IF h = "ann" THEN 2 ELSE 1]
=============================================================================
