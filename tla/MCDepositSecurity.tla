-------------------------- MODULE MCDepositSecurity -------------------------
(***************************************************************************)
(* The committee and the registry, from a state they are configured in: an *)
(* operator with two keys it may use, two guardians, a quorum of two.      *)
(***************************************************************************)
EXTENDS DepositSecurityProperties, TLC

CONSTANTS k1, k2, p

ConfiguredInit ==
    /\ operators = <<[NewOperator(p) EXCEPT !.stakingLimit = 2, !.total = 2,
                                            !.keys = [s \in Slots |-> IF s = 0 THEN k1 ELSE k2]]>>
    /\ activeCount = 1
    /\ keysOpIndex = 2
    /\ guardians = <<1, 2>>
    /\ guardianIndicesOneBased = [a \in Addresses |-> a]
    /\ quorum = 2
    /\ paused = FALSE
    /\ lastDepositBlock = 0
    /\ maxDepositsPerBlock \in MaxDepositsChoices
    /\ minDepositBlockDistance \in Distances
    /\ pauseIntentValidityPeriodBlocks \in Validities
    /\ blockNumber = 1
    /\ depositRoot = 0
    /\ attestations = {}
    /\ pauseIntents = {}

ConfiguredSpec == ConfiguredInit /\ [][NextDSM]_allVars

MCSymmetry == Permutations({k1, k2})
=============================================================================
