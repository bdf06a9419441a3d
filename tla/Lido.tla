-------------------------------- MODULE Lido --------------------------------
(***************************************************************************)
(* The pool (src/contracts/0.4.24/Lido.sol): it takes ether and mints      *)
(* shares, deposits buffered ether 32 at a time, and follows the oracle's  *)
(* reports of what became of it on the beacon chain.  `contract Lido is    *)
(* StETH, Pausable' becomes EXTENDS; the slot that paces new stake is      *)
(* StakingRateLimit.  A transaction is one action.                         *)
(*                                                                         *)
(* Governance may call anything at any time: the roles of _auth are kept   *)
(* by the Aragon ACL, outside this code.  The node operators registry is   *)
(* seen through its two results, how many keys it hands out and how it     *)
(* divides a reward among operators; both are free within its promise.     *)
(***************************************************************************)
EXTENDS StETH, StakingRateLimit

CONSTANTS
    LidoAddress,          \* the contract's own account, address(this)
    DEPOSIT_SIZE,         \* ether of one validator deposit
    TOTAL_BASIS_POINTS,   \* 100%
    OperatorAccounts,     \* reward addresses of the node operators
    Spenders,             \* bound: accounts that are approved and spend
    BurnableAccounts,     \* accounts the ACL lets burnShares name
    Vaults,               \* contracts that may be set as rewards vault
    NoVault,              \* address(0) in the place of a vault
    RecoveryVault,        \* where recovered tokens go
    ProtocolContracts,    \* records setProtocolContracts may be given
    MaxEther,             \* bound: all the ether there is
    MaxBeaconBalance,     \* bound: the largest balance an oracle reports
    MaxDeposits,          \* bound: deposits requested in one call
    CredentialChoices,    \* whether setWithdrawalCredentials is given non-zero ones
    VaultChoices,         \* what setELRewardsVault may be given
    FeeValues,            \* basis points setFee may be given
    FeeDistributions,     \* records setFeeDistribution may be given
    RewardsLimits,        \* basis points setELRewardsWithdrawalLimit may be given
    TransferValues,       \* token or share amounts that holders move
    BurnValues            \* share amounts burnShares may be given

\* Who calls: the pool itself never stakes nor approves.
Holders == Accounts \ {LidoAddress}

ASSUME LidoAssumption ==
    /\ LidoAddress \in Accounts
    /\ RecoveryVault \in Accounts
    /\ OperatorAccounts \subseteq Accounts
    /\ Spenders \subseteq Holders
    /\ BurnableAccounts \subseteq Accounts
    /\ NoVault \notin Vaults
    /\ VaultChoices \subseteq Vaults \cup {NoVault}
    /\ CredentialChoices \subseteq BOOLEAN
    /\ DEPOSIT_SIZE \in Nat \ {0}
    /\ TOTAL_BASIS_POINTS \in Nat \ {0}
    /\ {MaxEther, MaxBeaconBalance, MaxDeposits} \subseteq Nat
    /\ FeeValues \subseteq Nat
    /\ RewardsLimits \subseteq Nat
    /\ FeeDistributions \subseteq [treasury: Nat, insurance: Nat, operators: Nat]
    /\ \A p \in ProtocolContracts : {p.treasury, p.insuranceFund} \subseteq Accounts
    /\ ProtocolContracts # {}
    /\ TransferValues \subseteq Nat
    /\ BurnValues \subseteq Nat
    /\ AllowanceValues \subseteq Nat

VARIABLES
    balance,              \* address(this).balance
    bufferedEther,        \* BUFFERED_ETHER_POSITION
    depositedValidators,  \* DEPOSITED_VALIDATORS_POSITION
    beaconValidators,     \* BEACON_VALIDATORS_POSITION
    beaconBalance,        \* BEACON_BALANCE_POSITION
    totalELRewards,       \* TOTAL_EL_REWARDS_COLLECTED_POSITION
    vaultBalance,         \* ether of each rewards vault
    outside,              \* ether of everyone else
    config                \* what governance has set

etherVars == <<balance, bufferedEther, totalELRewards, vaultBalance, outside>>
beaconVars == <<depositedValidators, beaconValidators, beaconBalance>>
lidoVars == <<tokenVars, active, rateLimitVars, etherVars, beaconVars, config>>

Config ==
    [fee: 0 .. TOTAL_BASIS_POINTS,
     feeDistribution: [treasury: 0 .. TOTAL_BASIS_POINTS, insurance: 0 .. TOTAL_BASIS_POINTS,
                       operators: 0 .. TOTAL_BASIS_POINTS],
     contracts: ProtocolContracts,
     hasCredentials: BOOLEAN,
     elRewardsVault: Vaults \cup {NoVault},
     elRewardsLimit: 0 .. TOTAL_BASIS_POINTS]

LidoTypeOK ==
    /\ StETHTypeOK
    /\ RateLimitTypeOK
    /\ {balance, bufferedEther, totalELRewards, outside} \subseteq Nat
    /\ {depositedValidators, beaconValidators, beaconBalance} \subseteq Nat
    /\ vaultBalance \in [Vaults -> Nat]
    /\ config \in Config

\* The state initialize leaves: stopped, staking paused, nothing pooled...
EmptyPool ==
    /\ StETHInit
    /\ RateLimitInit
    /\ balance = 0
    /\ bufferedEther = 0
    /\ depositedValidators = 0
    /\ beaconValidators = 0
    /\ beaconBalance = 0
    /\ totalELRewards = 0
    /\ vaultBalance = [v \in Vaults |-> 0]
    /\ outside = MaxEther

\* ... and no setting but the contracts it is given.
Unconfigured(contracts) ==
    [fee |-> 0, feeDistribution |-> [treasury |-> 0, insurance |-> 0, operators |-> 0],
     contracts |-> contracts, hasCredentials |-> FALSE,
     elRewardsVault |-> NoVault, elRewardsLimit |-> 0]

Init ==
    /\ EmptyPool
    /\ \E contracts \in ProtocolContracts : config = Unconfigured(contracts)

-----------------------------------------------------------------------------
(* Views *)

\* Mutant: deposits are not pooled until they appear on the beacon chain.
TransientBalance_Ignored == 0

TransientBalance == (depositedValidators - beaconValidators) * DEPOSIT_SIZE

TotalPooledEther == bufferedEther + beaconBalance + TransientBalance

\* Mutant: all the ether of the contract.
UnaccountedEther_Whole == balance

UnaccountedEther == balance - bufferedEther

\* Mutant: the price before the rewards.
SharesForFee_OldPrice(rewards, pooled) ==
    (rewards * config.fee * totalShares) \div ((pooled - rewards) * TOTAL_BASIS_POINTS)

\* Shares whose cost, once minted, is the fee's part of the rewards.
SharesForFee(rewards, pooled) ==
    (rewards * config.fee * totalShares)
        \div (pooled * TOTAL_BASIS_POINTS - config.fee * rewards)

Portion(amount, basisPoints) == (amount * basisPoints) \div TOTAL_BASIS_POINTS

-----------------------------------------------------------------------------
(* Stakers *)

\* submit and the fallback function: _submit
Submit(staker, value) ==
    LET converted == SharesByPooledEth(value, TotalPooledEther)
    IN  /\ value <= outside
        /\ TakeStake(value)
        /\ MintShares(staker, IF converted = 0 THEN value ELSE converted)
        /\ bufferedEther' = bufferedEther + value
        /\ balance' = balance + value
        /\ outside' = outside - value
        /\ UNCHANGED <<allowances, active, totalELRewards, vaultBalance, beaconVars, config>>

\* Ether arrives without a call: selfdestruct, coinbase.
ForceEther(value) ==
    /\ value <= outside
    /\ balance' = balance + value
    /\ outside' = outside - value
    /\ UNCHANGED <<tokenVars, active, rateLimitVars, bufferedEther, totalELRewards,
                   vaultBalance, beaconVars, config>>

\* Block proposers pay tips and MEV to a vault.
PayVault(vault, value) ==
    /\ value <= outside
    /\ vaultBalance' = [vaultBalance EXCEPT ![vault] = @ + value]
    /\ outside' = outside - value
    /\ UNCHANGED <<tokenVars, active, rateLimitVars, balance, bufferedEther,
                   totalELRewards, beaconVars, config>>

\* What holders do with the token (StETH), and what its burner role does.
MoveTokens(from, to, n) ==
    \/ Transfer(from, to, n, TotalPooledEther)
    \/ TransferShares(from, to, n)
    \/ \E spender \in Spenders : TransferFrom(spender, from, to, n, TotalPooledEther)

ChangeAllowance(owner, spender, n) ==
    \/ Approve(owner, spender, n)
    \/ /\ allowances[owner][spender] + n \in AllowanceValues
       /\ IncreaseAllowance(owner, spender, n)
    \/ DecreaseAllowance(owner, spender, n)

HolderStep ==
    /\ \/ \E from \in Holders, to \in Accounts, n \in TransferValues : MoveTokens(from, to, n)
       \/ \E owner \in Holders, spender \in Spenders, n \in AllowanceValues :
             ChangeAllowance(owner, spender, n)
       \/ \E a \in BurnableAccounts, n \in BurnValues : BurnShares(a, n)
    /\ UNCHANGED <<rateLimitVars, etherVars, beaconVars, config>>

-----------------------------------------------------------------------------
(* Deposits *)

\* Mutant: one deposit at a time.
MarkAsUnbuffered_One(amount) == bufferedEther' = bufferedEther - DEPOSIT_SIZE

MarkAsUnbuffered(amount) == bufferedEther' = bufferedEther - amount

\* depositBufferedEther: the registry hands out `keys' signing keys.
DepositBufferedEther(maxDeposits, keys) ==
    /\ active
    /\ bufferedEther >= DEPOSIT_SIZE
    /\ keys <= bufferedEther \div DEPOSIT_SIZE
    /\ keys <= maxDeposits
    /\ keys > 0 => config.hasCredentials
    /\ balance' = balance - keys * DEPOSIT_SIZE
    /\ MarkAsUnbuffered(keys * DEPOSIT_SIZE)
    /\ depositedValidators' = depositedValidators + keys
    /\ UNCHANGED <<tokenVars, active, rateLimitVars, totalELRewards, vaultBalance, outside,
                   beaconValidators, beaconBalance, config>>

-----------------------------------------------------------------------------
(* The oracle's report *)

\* Mutant: not limited by what the vault has.
ELRewardsFor_Unlimited(pooled) ==
    IF config.elRewardsVault = NoVault THEN 0 ELSE Portion(pooled, config.elRewardsLimit)

\* withdrawRewards of the vault, asked for at most a part of the pool as it is
\* after the new beacon balance is stored.
ELRewardsFor(pooled) ==
    IF config.elRewardsVault = NoVault THEN 0
    ELSE LET available == vaultBalance[config.elRewardsVault]
             allowed == Portion(pooled, config.elRewardsLimit)
         IN  IF available > allowed THEN allowed ELSE available

\* getRewardsDistribution: any division of at most `amount' shares.
OperatorRewards(amount) ==
    {r \in [OperatorAccounts -> 0 .. amount] : SupplyOf(r) <= amount}

\* The parts of a fee; the treasury also gets what the others' roundings leave.
ToInsurance(minted) == Portion(minted, config.feeDistribution.insurance)

ToTreasury(minted, operatorRewards) == minted - ToInsurance(minted) - SupplyOf(operatorRewards)

\* What distributeFee leaves account a with: the fee is minted to the pool's
\* own account and transferred from there, to accounts that may coincide.
FeeTo(a, minted, operatorRewards) ==
    LET part(recipient, n) == IF a = recipient THEN n ELSE 0
        toInsurance == ToInsurance(minted)
        toTreasury == ToTreasury(minted, operatorRewards)
    IN  part(LidoAddress, minted - toInsurance - SupplyOf(operatorRewards) - toTreasury)
        + part(config.contracts.insuranceFund, toInsurance)
        + (IF a \in OperatorAccounts THEN operatorRewards[a] ELSE 0)
        + part(config.contracts.treasury, toTreasury)

DistributeFee(rewards, pooled) ==
    LET minted == SharesForFee(rewards, pooled)
    IN  /\ pooled * TOTAL_BASIS_POINTS > config.fee * rewards
        /\ totalShares' = totalShares + minted
        /\ \E r \in OperatorRewards(Portion(minted, config.feeDistribution.operators)) :
              shares' = [a \in Accounts |-> shares[a] + FeeTo(a, minted, r)]

\* What the new balance is compared with: the old one and 32 for each
\* validator that appeared on the beacon chain since.
RewardBase(validators) ==
    (validators - beaconValidators) * DEPOSIT_SIZE + beaconBalance

HandleOracleReport(caller, validators, reported) ==
    LET rewardBase == RewardBase(validators)
        elRewards == ELRewardsFor(bufferedEther + reported
                                   + (depositedValidators - validators) * DEPOSIT_SIZE)
    IN  /\ active
        /\ caller = config.contracts.oracle
        /\ validators <= depositedValidators
        /\ validators >= beaconValidators
        /\ UNCHANGED <<allowances, active, rateLimitVars, depositedValidators, outside, config>>
        /\ beaconBalance' = reported
        /\ beaconValidators' = validators
        /\ bufferedEther' = bufferedEther + elRewards
        /\ balance' = balance + elRewards
        /\ totalELRewards' = totalELRewards + elRewards
        /\ vaultBalance' = [v \in Vaults |-> IF v = config.elRewardsVault
                                             THEN vaultBalance[v] - elRewards
                                             ELSE vaultBalance[v]]
        /\ \/ /\ reported > rewardBase
              /\ DistributeFee(reported - rewardBase + elRewards, TotalPooledEther')
           \/ /\ reported <= rewardBase
              /\ UNCHANGED <<shares, totalShares>>

-----------------------------------------------------------------------------
(* Governance *)

\* stop and resume: each also switches staking.
Stop ==
    /\ active
    /\ active' = FALSE
    /\ PauseStaking
    /\ UNCHANGED <<tokenVars, etherVars, beaconVars, config>>

Resume ==
    /\ ~active
    /\ active' = TRUE
    /\ ResumeStaking
    /\ UNCHANGED <<tokenVars, etherVars, beaconVars, config>>

\* pauseStaking, resumeStaking, setStakingLimit, removeStakingLimit; and time.
StakingControl ==
    /\ \/ PauseStaking
       \/ ResumeStaking
       \/ \E l \in StakeLimits : SetStakingLimit(l[1], l[2])
       \/ RemoveStakingLimit
       \/ NextBlock
    /\ UNCHANGED <<tokenVars, active, etherVars, beaconVars, config>>

SetFee(basisPoints) ==
    /\ basisPoints <= TOTAL_BASIS_POINTS
    /\ config' = [config EXCEPT !.fee = basisPoints]

SetFeeDistribution(d) ==
    /\ d.treasury + d.insurance + d.operators = TOTAL_BASIS_POINTS
    /\ config' = [config EXCEPT !.feeDistribution = d]

SetProtocolContracts(contracts) ==
    config' = [config EXCEPT !.contracts = contracts]

\* Zero credentials may be set as well; the registry's unused keys are trimmed.
SetWithdrawalCredentials(nonZero) ==
    config' = [config EXCEPT !.hasCredentials = nonZero]

SetELRewardsVault(vault) ==
    config' = [config EXCEPT !.elRewardsVault = vault]

SetELRewardsWithdrawalLimit(basisPoints) ==
    /\ basisPoints <= TOTAL_BASIS_POINTS
    /\ config' = [config EXCEPT !.elRewardsLimit = basisPoints]

Configure ==
    /\ \/ \E bp \in FeeValues : SetFee(bp)
       \/ \E d \in FeeDistributions : SetFeeDistribution(d)
       \/ \E contracts \in ProtocolContracts : SetProtocolContracts(contracts)
       \/ \E nonZero \in CredentialChoices : SetWithdrawalCredentials(nonZero)
       \/ \E vault \in VaultChoices : SetELRewardsVault(vault)
       \/ \E bp \in RewardsLimits : SetELRewardsWithdrawalLimit(bp)
    /\ UNCHANGED <<tokenVars, active, rateLimitVars, etherVars, beaconVars>>

\* transferToVault(ETH): anyone may move the ether that is not accounted for.
RecoverEther ==
    /\ balance' = balance - UnaccountedEther
    /\ outside' = outside + UnaccountedEther
    /\ UNCHANGED <<tokenVars, active, rateLimitVars, bufferedEther, totalELRewards,
                   vaultBalance, beaconVars, config>>

\* transferToVault(stETH): the pool's own tokens, at the current conversion.
RecoverStETH ==
    /\ Transfer(LidoAddress, RecoveryVault,
                BalanceOf(LidoAddress, TotalPooledEther), TotalPooledEther)
    /\ UNCHANGED <<rateLimitVars, etherVars, beaconVars, config>>

-----------------------------------------------------------------------------
Next ==
    \/ \E staker \in Holders, value \in Amounts : Submit(staker, value)
    \/ \E value \in Amounts : ForceEther(value)
    \/ \E vault \in Vaults, value \in Amounts : PayVault(vault, value)
    \/ HolderStep
    \/ \E maxDeposits \in 0 .. MaxDeposits :
          \E keys \in 0 .. maxDeposits : DepositBufferedEther(maxDeposits, keys)
    \/ \E p \in ProtocolContracts, validators \in 0 .. depositedValidators + 1,
          reported \in 0 .. MaxBeaconBalance :
          /\ validators = 0 => reported = 0    \* no validators, no balance
          /\ HandleOracleReport(p.oracle, validators, reported)
    \/ Stop
    \/ Resume
    \/ StakingControl
    \/ Configure
    \/ RecoverEther
    \/ RecoverStETH

Spec == Init /\ [][Next]_lidoVars

=============================================================================
