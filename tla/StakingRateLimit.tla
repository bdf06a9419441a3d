-------------------------- MODULE StakingRateLimit --------------------------
(***************************************************************************)
(* The part of Lido that paces new stake: the slot STAKING_STATE_POSITION  *)
(* and the calls that read or write it.  Lido extends this module, so each *)
(* of its calls contains the action below that touches the slot; alone,    *)
(* with RateLimitNext, the module is the pacing with nothing behind it.    *)
(***************************************************************************)
EXTENDS StakeLimitUtils

CONSTANTS
    Amounts,         \* the wei a caller may send along
    StakeLimits,     \* pairs <<max, increase per block>> governance may set
    MaxBlock         \* bound: the last block

ASSUME RateLimitAssumption ==
    /\ Amounts \subseteq Nat
    /\ StakeLimits \subseteq Nat \X Nat
    /\ MaxBlock \in Nat \ {0}
    /\ MaxBlock <= UINT32_MAX

VARIABLES
    staking,         \* StakeLimitState.Data
    blockNumber      \* block.number of the transaction being executed

rateLimitVars == <<staking, blockNumber>>

CurrentStakeLimit == CalculateCurrentStakeLimit(staking, blockNumber)

RateLimitInit ==
    /\ staking = EmptyStakeLimit
    /\ blockNumber = 1

RateLimitTypeOK ==
    /\ staking \in StakeLimitData
    /\ blockNumber \in 1 .. MaxBlock

-----------------------------------------------------------------------------

\* The head of _submit: refused while paused, then taken from the limit.
TakeStake(value) ==
    /\ value # 0
    /\ ~IsStakingPaused(staking)
    /\ \/ /\ ~IsStakingLimitSet(staking)
          /\ UNCHANGED staking
       \/ /\ IsStakingLimitSet(staking)
          /\ value <= CurrentStakeLimit
          /\ staking' = UpdatePrevStakeLimitIn(staking, CurrentStakeLimit - value, blockNumber)
    /\ UNCHANGED blockNumber

PauseStaking ==
    /\ staking' = SetStakeLimitPauseStateIn(staking, TRUE, blockNumber)
    /\ UNCHANGED blockNumber

ResumeStaking ==
    /\ staking' = SetStakeLimitPauseStateIn(staking, FALSE, blockNumber)
    /\ UNCHANGED blockNumber

SetStakingLimit(max, inc) ==
    /\ StakingLimitAllowed(max, inc)
    /\ staking' = SetStakingLimitIn(staking, max, inc, blockNumber)
    /\ UNCHANGED blockNumber

RemoveStakingLimit ==
    /\ staking' = RemoveStakingLimitIn(staking)
    /\ UNCHANGED blockNumber

\* Later transactions may be in a later block.
NextBlock ==
    /\ blockNumber < MaxBlock
    /\ blockNumber' = blockNumber + 1
    /\ UNCHANGED staking

RateLimitNext ==
    \/ \E value \in Amounts : TakeStake(value)
    \/ PauseStaking
    \/ ResumeStaking
    \/ \E l \in StakeLimits : SetStakingLimit(l[1], l[2])
    \/ RemoveStakingLimit
    \/ NextBlock

RateLimitSpec == RateLimitInit /\ [][RateLimitNext]_rateLimitVars

=============================================================================
