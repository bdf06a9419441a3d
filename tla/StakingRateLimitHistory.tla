----------------------- MODULE StakingRateLimitHistory ----------------------
(***************************************************************************)
(* StakingRateLimit with a history of the stake accepted since governance  *)
(* last chose the limit, and what the limit promises about it.             *)
(***************************************************************************)
EXTENDS StakingRateLimit

VARIABLES
    accepted,    \* wei accepted since the limit was last set
    granted,     \* limit left right after it was set
    since        \* block in which it was set

historyVars == <<accepted, granted, since>>
pacingVars == <<staking, blockNumber, accepted, granted, since>>

PacingInit ==
    /\ RateLimitInit
    /\ accepted = 0
    /\ granted = 0
    /\ since = blockNumber

AcceptStake(value) ==
    /\ TakeStake(value)
    /\ accepted' = IF IsStakingLimitSet(staking) THEN accepted + value ELSE accepted
    /\ UNCHANGED <<granted, since>>

ChooseLimit(max, inc) ==
    /\ SetStakingLimit(max, inc)
    /\ accepted' = 0
    /\ granted' = staking'.prevStakeLimit
    /\ since' = blockNumber

PacingNext ==
    \/ \E value \in Amounts : AcceptStake(value)
    \/ \E l \in StakeLimits : ChooseLimit(l[1], l[2])
    \/ /\ PauseStaking \/ ResumeStaking \/ RemoveStakingLimit \/ NextBlock
       /\ UNCHANGED historyVars

PacingSpec == PacingInit /\ [][PacingNext]_pacingVars

-----------------------------------------------------------------------------
PacingTypeOK ==
    /\ RateLimitTypeOK
    /\ accepted \in Nat
    /\ granted \in Nat
    /\ since \in 1 .. MaxBlock

\* While a limit is set, what has been accepted and what is still on offer
\* never exceed what was left when the limit was set plus the growth of every
\* block since: pausing, resuming and submitting cannot mint capacity.  What is
\* on offer never exceeds the maximum governance chose either, although the slot
\* of a removed limit may keep a previous limit above the next maximum.
StakeIsPaced ==
    IsStakingLimitSet(staking) =>
        /\ accepted + (IF IsStakingPaused(staking) THEN staking.prevStakeLimit
                       ELSE CurrentStakeLimit)
             <= granted + (blockNumber - since) * StakeLimitIncPerBlock(staking)
        /\ {staking.prevStakeLimit, CurrentStakeLimit} \subseteq 0 .. staking.maxStakeLimit

\* Choosing a limit over a running one never raises, at once, what is on offer.
SettingNeverRaises ==
    [][ (\E l \in StakeLimits : ChooseLimit(l[1], l[2])) /\ IsStakingLimitSet(staking)
          /\ ~IsStakingPaused(staking)
        => CurrentStakeLimit' <= CurrentStakeLimit ]_pacingVars

=============================================================================
