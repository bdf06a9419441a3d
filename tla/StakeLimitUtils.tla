--------------------------- MODULE StakeLimitUtils --------------------------
(***************************************************************************)
(* The staking rate limit (src/contracts/0.4.24/lib/StakeLimitUtils.sol):  *)
(* pure functions on the record Lido keeps in one storage slot.            *)
(*   prevStakeBlockNumber       0 while staking is paused                  *)
(*   prevStakeLimit             the limit left at that block               *)
(*   maxStakeLimitGrowthBlocks  maxStakeLimit div the configured increase  *)
(*   maxStakeLimit              0 while staking is unlimited               *)
(***************************************************************************)
EXTENDS Naturals

CONSTANTS
    UINT32_MAX,   \* uint32(-1), the largest block number the slot can hold
    UINT96_MAX    \* uint96(-1), the largest limit the slot can hold

ASSUME WidthAssumption == UINT32_MAX \in Nat \ {0} /\ UINT96_MAX \in Nat \ {0}

StakeLimitData ==
    [prevStakeBlockNumber: Nat, prevStakeLimit: Nat,
     maxStakeLimitGrowthBlocks: Nat, maxStakeLimit: Nat]

\* The slot before anything is written: paused and without a limit.
EmptyStakeLimit ==
    [prevStakeBlockNumber |-> 0, prevStakeLimit |-> 0,
     maxStakeLimitGrowthBlocks |-> 0, maxStakeLimit |-> 0]

IsStakingPaused(data) == data.prevStakeBlockNumber = 0

IsStakingLimitSet(data) == data.maxStakeLimit # 0

\* Growth per block, recomputed from the number of blocks that is stored.
StakeLimitIncPerBlock(data) ==
    IF data.maxStakeLimitGrowthBlocks = 0 THEN 0
    ELSE data.maxStakeLimit \div data.maxStakeLimitGrowthBlocks

\* Mutant: grows past the maximum.
CalculateCurrentStakeLimit_Uncapped(data, block) ==
    data.prevStakeLimit + (block - data.prevStakeBlockNumber) * StakeLimitIncPerBlock(data)

CalculateCurrentStakeLimit(data, block) ==
    LET grown == data.prevStakeLimit
                   + (block - data.prevStakeBlockNumber) * StakeLimitIncPerBlock(data)
    IN  IF grown > data.maxStakeLimit THEN data.maxStakeLimit ELSE grown

\* What the storage keeps of a block number.
StoredBlock(block) == block % (UINT32_MAX + 1)

\* The requires of setStakingLimit.
StakingLimitAllowed(max, inc) ==
    /\ max # 0
    /\ max <= UINT96_MAX
    /\ max >= inc
    /\ inc # 0 => max \div inc <= UINT32_MAX

\* Mutant: every new limit starts full.
SetStakingLimitIn_Full(data, max, inc, block) ==
    [prevStakeBlockNumber |->
        IF IsStakingPaused(data) THEN 0 ELSE StoredBlock(block),
     prevStakeLimit |-> max,
     maxStakeLimitGrowthBlocks |-> IF inc = 0 THEN 0 ELSE max \div inc,
     maxStakeLimit |-> max]

SetStakingLimitIn(data, max, inc, block) ==
    [prevStakeBlockNumber |->
        IF IsStakingPaused(data) THEN 0 ELSE StoredBlock(block),
     prevStakeLimit |->
        IF ~IsStakingLimitSet(data) \/ max < data.prevStakeLimit
        THEN max ELSE data.prevStakeLimit,
     maxStakeLimitGrowthBlocks |-> IF inc = 0 THEN 0 ELSE max \div inc,
     maxStakeLimit |-> max]

RemoveStakingLimitIn(data) == [data EXCEPT !.maxStakeLimit = 0]

\* Mutant: the block of the update is not stored.
UpdatePrevStakeLimitIn_OldBlock(data, newLimit, block) ==
    [data EXCEPT !.prevStakeLimit = newLimit]

UpdatePrevStakeLimitIn(data, newLimit, block) ==
    [data EXCEPT !.prevStakeLimit = newLimit,
                 !.prevStakeBlockNumber = StoredBlock(block)]

SetStakeLimitPauseStateIn(data, isPaused, block) ==
    [data EXCEPT !.prevStakeBlockNumber = IF isPaused THEN 0 ELSE StoredBlock(block)]

=============================================================================
