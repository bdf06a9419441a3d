------------------------------- MODULE MCLido -------------------------------
EXTENDS LidoProperties

CONSTANTS
    alice, bob, lido, dao, operator, oracle, vault,
    MaxShares            \* bound on the shares a behaviour follows

MCContracts == {[oracle |-> oracle, treasury |-> dao, insuranceFund |-> dao]}

MCStakeLimits == {<<2, 1>>}

\* The second does not add up and is refused.
MCFeeDistributions ==
    {[treasury |-> 5, insurance |-> 0, operators |-> 5],
     [treasury |-> 5, insurance |-> 5, operators |-> 5]}

\* The pool as governance leaves it before it resumes it for the first time:
\* nine tenths of the profit are the fee, half of the fee is the operators', and the
\* vault may give half of the pool at once.
MCConfig ==
    [Unconfigured([oracle |-> oracle, treasury |-> dao, insuranceFund |-> dao])
        EXCEPT !.fee = 9, !.hasCredentials = TRUE,
               !.feeDistribution = [treasury |-> 2, insurance |-> 3, operators |-> 5],
               !.elRewardsVault = vault, !.elRewardsLimit = 5]

ConfiguredInit == EmptyPool /\ config = MCConfig

ConfiguredSpec == ConfiguredInit /\ [][Next]_lidoVars

NotGoverned == config = MCConfig /\ staking.maxStakeLimit = 0 /\ blockNumber = 1
NothingAllowed == SupplyOf(allowances[dao]) + SupplyOf(allowances[alice]) = 0

\* The treasury and the operators have their parts of fees, within rounding.
FeesOnly == shares[lido] = 0 /\ shares[dao] - shares[operator] \in 0 .. 1

Small ==
    /\ totalShares <= 2
    /\ outside >= MaxEther - 2
    /\ depositedValidators <= 1
    /\ beaconBalance <= DEPOSIT_SIZE

\* Governance and allowances are followed in smaller pools, one at a time.
MCBound ==
    /\ totalShares <= MaxShares
    /\ \/ NotGoverned /\ NothingAllowed /\ FeesOnly
       \/ NotGoverned /\ Small
       \/ NothingAllowed /\ Small /\ beaconBalance = 0
=============================================================================
