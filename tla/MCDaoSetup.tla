----------------------------- MODULE MCDaoSetup -----------------------------
(* A small DAO for TLC. *)
EXTENDS DaoSetupProperties

MCAppList == <<"lido", "oracle", "node-operators-registry">>
MCEntity(address) == ToString(address)
MCCampaigns ==
    {{"upgrades", "depositors"}, {"depositors", "guardians"}, {"coverage", "rewards", "start"}}
MCMaxInstances ==
    [lido |-> 1, oracle |-> 0, depositor |-> 2, composite |-> 2, burner |-> 2, vault |-> 1]
        @@ ("node-operators-registry" :> 0)
MCVestedAmount == [h \in Holders |-> 1]
=============================================================================
