----------------------------- MODULE LidoProof ------------------------------
(***************************************************************************)
(* Proofs that the staking rate limit paces, for any amounts, limits and   *)
(* numbers of blocks, and about the two books of Lido, the shares and the  *)
(* ether, for any accounts, amounts, fees and settings.                    *)
(*                                                                         *)
(* What is promised of the stake accepted is nearly inductive: it has to   *)
(* be known besides that the slot was written in no later block than the   *)
(* present one, and neither was the limit chosen.                          *)
(*                                                                         *)
(* The inductive invariant of Lido has three parts that hardly depend on   *)
(* each other: the token, the rate limit, and the ether with the settings. *)
(* The last part is about steps: what a call may do to the price of a      *)
(* share and to ether that is not accounted for, and that what holders see *)
(* of it is the pool of claims of RebasingPool.                            *)
(***************************************************************************)
EXTENDS LidoProperties, StakingRateLimitHistory, SharedLemmas

BlocksInOrder ==
    /\ staking.prevStakeBlockNumber <= blockNumber
    /\ since <= blockNumber

PacingInv == PacingTypeOK /\ BlocksInOrder /\ StakeIsPaced

-----------------------------------------------------------------------------
(* Arithmetic *)

\* Quotients and products of natural numbers.
LEMMA DivTimesNat ==
    ASSUME NEW a \in Nat, NEW b \in Nat
    PROVE  a * b \in Nat /\ (b # 0 => a \div b \in Nat)
OBVIOUS

\* One more block adds the increase once more.
LEMMA OneMoreBlock ==
    ASSUME NEW n \in Nat, NEW inc \in Nat
    PROVE  (n + 1) * inc = n * inc + inc
OBVIOUS

-----------------------------------------------------------------------------
(* The limit on offer *)

\* The fields of the slot.
LEMMA SlotNat ==
    ASSUME RateLimitTypeOK
    PROVE  /\ staking.prevStakeBlockNumber \in Nat /\ staking.prevStakeLimit \in Nat
           /\ staking.maxStakeLimitGrowthBlocks \in Nat /\ staking.maxStakeLimit \in Nat
           /\ blockNumber \in Nat /\ blockNumber >= 1
           /\ StakeLimitIncPerBlock(staking) \in Nat
           /\ StoredBlock(blockNumber) = blockNumber
<1>1. /\ staking.prevStakeBlockNumber \in Nat /\ staking.prevStakeLimit \in Nat
      /\ staking.maxStakeLimitGrowthBlocks \in Nat /\ staking.maxStakeLimit \in Nat
  BY DEF RateLimitTypeOK, StakeLimitData
<1>2. blockNumber \in Nat /\ blockNumber >= 1 /\ blockNumber <= UINT32_MAX /\ UINT32_MAX \in Nat
  BY RateLimitAssumption, WidthAssumption DEF RateLimitTypeOK
<1>3. StakeLimitIncPerBlock(staking) \in Nat
  BY <1>1, DivTimesNat DEF StakeLimitIncPerBlock
<1>4. StoredBlock(blockNumber) = blockNumber
  BY <1>2 DEF StoredBlock
<1> QED BY <1>1, <1>2, <1>3, <1>4

\* What is on offer from a slot of which the last write is known: what was left,
\* and the growth of each block since, up to the maximum.
LEMMA LimitOnOffer ==
    ASSUME NEW data \in StakeLimitData, NEW block \in Nat, data.prevStakeBlockNumber <= block,
           data.prevStakeLimit <= data.maxStakeLimit
    PROVE  /\ CalculateCurrentStakeLimit(data, block) \in data.prevStakeLimit .. data.maxStakeLimit
           /\ data.prevStakeBlockNumber = block
                => CalculateCurrentStakeLimit(data, block) = data.prevStakeLimit
           /\ CalculateCurrentStakeLimit(data, block + 1)
                <= CalculateCurrentStakeLimit(data, block) + StakeLimitIncPerBlock(data)
<1> DEFINE inc == StakeLimitIncPerBlock(data)
           n == block - data.prevStakeBlockNumber
<1>1. /\ data.prevStakeBlockNumber \in Nat /\ data.prevStakeLimit \in Nat
      /\ data.maxStakeLimitGrowthBlocks \in Nat /\ data.maxStakeLimit \in Nat
  BY DEF StakeLimitData
<1>2. inc \in Nat
  BY <1>1, DivTimesNat DEF StakeLimitIncPerBlock
<1>3. n \in Nat /\ (block + 1) - data.prevStakeBlockNumber = n + 1
  BY <1>1
<1>4. /\ CalculateCurrentStakeLimit(data, block)
           = IF data.prevStakeLimit + n * inc > data.maxStakeLimit THEN data.maxStakeLimit
             ELSE data.prevStakeLimit + n * inc
      /\ CalculateCurrentStakeLimit(data, block + 1)
           = IF data.prevStakeLimit + (n + 1) * inc > data.maxStakeLimit THEN data.maxStakeLimit
             ELSE data.prevStakeLimit + (n + 1) * inc
  BY <1>3 DEF CalculateCurrentStakeLimit
<1>5. data.prevStakeBlockNumber = block => n = 0
  BY <1>1
<1> HIDE DEF inc, n
<1>6. n * inc \in Nat /\ (n = 0 => n * inc = 0) /\ (n + 1) * inc = n * inc + inc
  BY <1>2, <1>3, DivTimesNat, OneMoreBlock
<1>7. CalculateCurrentStakeLimit(data, block + 1) <= CalculateCurrentStakeLimit(data, block) + inc
  BY <1>1, <1>2, <1>4, <1>6
<1> QED BY <1>1, <1>4, <1>5, <1>6, <1>7 DEF inc

\* The limit has the shape StakeIsPaced wants: slot and block are those of some
\* state, and so are the numbers of the history.
PacedBy(data, block, taken, left, chosen) ==
    /\ taken + (IF IsStakingPaused(data) THEN data.prevStakeLimit
                ELSE CalculateCurrentStakeLimit(data, block))
         <= left + (block - chosen) * StakeLimitIncPerBlock(data)
    /\ {data.prevStakeLimit, CalculateCurrentStakeLimit(data, block)} \subseteq 0 .. data.maxStakeLimit

\* StakeIsPaced is that of the present state.
LEMMA PacedNow == StakeIsPaced <=> (IsStakingLimitSet(staking) =>
                                      PacedBy(staking, blockNumber, accepted, granted, since))
BY DEF StakeIsPaced, PacedBy, CurrentStakeLimit

\* Slots written in this block offer what they keep.
LEMMA JustWritten ==
    ASSUME NEW data \in StakeLimitData, NEW block \in Nat,
           data.prevStakeBlockNumber \in {0, block}, data.prevStakeLimit <= data.maxStakeLimit,
           NEW taken \in Nat, NEW left \in Nat, NEW chosen \in Nat,
           taken + data.prevStakeLimit <= left + (block - chosen) * StakeLimitIncPerBlock(data)
    PROVE  PacedBy(data, block, taken, left, chosen)
<1>1. data.prevStakeBlockNumber <= block
  OBVIOUS
<1>2. data.prevStakeLimit \in Nat /\ data.maxStakeLimit \in Nat
  BY DEF StakeLimitData
<1>3. /\ CalculateCurrentStakeLimit(data, block) \in data.prevStakeLimit .. data.maxStakeLimit
      /\ data.prevStakeBlockNumber = block
            => CalculateCurrentStakeLimit(data, block) = data.prevStakeLimit
  BY <1>1, LimitOnOffer
<1>4. data.prevStakeBlockNumber = 0 => IsStakingPaused(data)
  BY DEF IsStakingPaused
<1> QED BY <1>2, <1>3, <1>4 DEF PacedBy

\* What follows from the invariant while a limit is set.
LEMMA WhileLimited ==
    ASSUME PacingInv, IsStakingLimitSet(staking)
    PROVE  /\ CurrentStakeLimit \in staking.prevStakeLimit .. staking.maxStakeLimit
           /\ staking.prevStakeLimit <= staking.maxStakeLimit
           /\ accepted + staking.prevStakeLimit
                <= granted + (blockNumber - since) * StakeLimitIncPerBlock(staking)
           /\ ~IsStakingPaused(staking) =>
                accepted + CurrentStakeLimit
                  <= granted + (blockNumber - since) * StakeLimitIncPerBlock(staking)
           /\ (blockNumber - since) * StakeLimitIncPerBlock(staking) \in Nat
<1>1. /\ RateLimitTypeOK /\ accepted \in Nat /\ granted \in Nat /\ since \in Nat
      /\ blockNumber \in Nat /\ since <= blockNumber
      /\ staking.prevStakeBlockNumber <= blockNumber /\ staking \in StakeLimitData
  BY SlotNat DEF PacingInv, PacingTypeOK, BlocksInOrder, RateLimitTypeOK
<1>2. PacedBy(staking, blockNumber, accepted, granted, since)
  BY PacedNow DEF PacingInv
<1>3. staking.prevStakeLimit \in Nat /\ staking.maxStakeLimit \in Nat
      /\ staking.prevStakeLimit <= staking.maxStakeLimit
  BY <1>1, <1>2, SlotNat DEF PacedBy
<1>4. CurrentStakeLimit \in staking.prevStakeLimit .. staking.maxStakeLimit
  BY <1>1, <1>3, LimitOnOffer DEF CurrentStakeLimit
<1>5. (blockNumber - since) * StakeLimitIncPerBlock(staking) \in Nat
  BY <1>1, SlotNat, DivTimesNat
<1>6. ~IsStakingPaused(staking) =>
        accepted + CurrentStakeLimit
          <= granted + (blockNumber - since) * StakeLimitIncPerBlock(staking)
  BY <1>2 DEF PacedBy, CurrentStakeLimit
<1>7. accepted + staking.prevStakeLimit
        <= granted + (blockNumber - since) * StakeLimitIncPerBlock(staking)
  BY <1>1, <1>2, <1>3, <1>4, <1>5 DEF PacedBy, CurrentStakeLimit
<1> QED BY <1>3, <1>4, <1>5, <1>6, <1>7

-----------------------------------------------------------------------------
(* One call after the other *)

\* A stake is taken from what is on offer.
LEMMA AcceptStakeKeeps ==
    ASSUME PacingInv, NEW value \in Amounts, AcceptStake(value)
    PROVE  PacingInv'
<1>1. /\ value \in Nat /\ RateLimitTypeOK /\ accepted \in Nat /\ granted \in Nat /\ since \in Nat
      /\ UNCHANGED <<blockNumber, granted, since>>
  BY RateLimitAssumption DEF PacingInv, PacingTypeOK, AcceptStake, TakeStake
<1>2. CASE ~IsStakingLimitSet(staking)
  <2>1. UNCHANGED <<staking, accepted>>
    BY <1>2 DEF AcceptStake, TakeStake
  <2> QED BY <1>1, <2>1 DEF PacingInv, PacingTypeOK, RateLimitTypeOK, BlocksInOrder,
                            StakeIsPaced, CurrentStakeLimit
<1>3. CASE IsStakingLimitSet(staking)
  <2> DEFINE left == CurrentStakeLimit - value
             inc == StakeLimitIncPerBlock(staking)
  <2>1. /\ ~IsStakingPaused(staking)
        /\ value <= CurrentStakeLimit
        /\ staking' = UpdatePrevStakeLimitIn(staking, left, blockNumber)
        /\ accepted' = accepted + value
    BY <1>3 DEF AcceptStake, TakeStake
  <2>2. /\ CurrentStakeLimit \in Nat /\ CurrentStakeLimit <= staking.maxStakeLimit
        /\ accepted + CurrentStakeLimit <= granted + (blockNumber - since) * inc
        /\ (blockNumber - since) * inc \in Nat
    BY <1>1, <1>3, <2>1, WhileLimited, SlotNat
  <2>3. left \in Nat /\ left <= staking.maxStakeLimit
        /\ (accepted + value) + left <= granted + (blockNumber - since) * inc
    BY <1>1, <2>1, <2>2, SlotNat
  <2> HIDE DEF left
  <2>4. /\ staking' \in StakeLimitData
        /\ staking'.prevStakeLimit = left
        /\ staking'.prevStakeBlockNumber = blockNumber
        /\ staking'.maxStakeLimit = staking.maxStakeLimit
        /\ StakeLimitIncPerBlock(staking') = inc
    BY <1>1, <2>1, <2>3, SlotNat
       DEF UpdatePrevStakeLimitIn, RateLimitTypeOK, StakeLimitData, StakeLimitIncPerBlock
  <2>5. PacedBy(staking', blockNumber, accepted + value, granted, since)
    BY <1>1, <2>3, <2>4, JustWritten, SlotNat
  <2>6. StakeIsPaced'
    BY <1>1, <2>1, <2>5 DEF StakeIsPaced, PacedBy, CurrentStakeLimit
  <2>7. accepted' \in Nat
    BY <1>1, <2>1
  <2> QED BY <1>1, <2>4, <2>6, <2>7, SlotNat
          DEF PacingInv, PacingTypeOK, RateLimitTypeOK, BlocksInOrder
<1> QED BY <1>2, <1>3

\* A limit that is chosen starts with what is left of the one before.
LEMMA ChooseLimitKeeps ==
    ASSUME PacingInv, NEW l \in StakeLimits, ChooseLimit(l[1], l[2])
    PROVE  /\ PacingInv'
           /\ IsStakingLimitSet(staking) /\ ~IsStakingPaused(staking)
                => CurrentStakeLimit' <= CurrentStakeLimit
<1> DEFINE max == l[1]
           inc == l[2]
<1>1. /\ max \in Nat /\ inc \in Nat /\ RateLimitTypeOK
      /\ UNCHANGED blockNumber
      /\ accepted' = 0 /\ granted' = staking'.prevStakeLimit /\ since' = blockNumber
      /\ staking' = SetStakingLimitIn(staking, max, inc, blockNumber)
      /\ max # 0
  BY RateLimitAssumption
     DEF PacingInv, PacingTypeOK, ChooseLimit, SetStakingLimit, StakingLimitAllowed
<1>2. inc # 0 => max \div inc \in Nat
  BY <1>1, DivTimesNat
<1> HIDE DEF max, inc
<1>3. /\ staking' \in StakeLimitData
      /\ staking'.maxStakeLimit = max
      /\ staking'.prevStakeLimit
           = IF ~IsStakingLimitSet(staking) \/ max < staking.prevStakeLimit
             THEN max ELSE staking.prevStakeLimit
      /\ staking'.prevStakeBlockNumber = IF IsStakingPaused(staking) THEN 0 ELSE blockNumber
  BY <1>1, <1>2, SlotNat DEF SetStakingLimitIn, StakeLimitData
<1>4. staking'.prevStakeLimit \in Nat /\ staking'.prevStakeLimit <= staking'.maxStakeLimit
  BY <1>1, <1>3, SlotNat
<1>5. StakeLimitIncPerBlock(staking') \in Nat /\ blockNumber - blockNumber = 0
  BY <1>3, SlotNat, <1>1, DivTimesNat DEF StakeLimitData, StakeLimitIncPerBlock
<1>6. (blockNumber - blockNumber) * StakeLimitIncPerBlock(staking') = 0
  BY <1>5
<1>7. PacedBy(staking', blockNumber, 0, staking'.prevStakeLimit, blockNumber)
  BY <1>1, <1>3, <1>4, <1>6, JustWritten, SlotNat
<1>8. StakeIsPaced'
  BY <1>1, <1>7 DEF StakeIsPaced, PacedBy, CurrentStakeLimit
<1>9. PacingInv'
  BY <1>1, <1>3, <1>4, <1>8, SlotNat DEF PacingInv, PacingTypeOK, RateLimitTypeOK, BlocksInOrder
<1>10. ASSUME IsStakingLimitSet(staking), ~IsStakingPaused(staking)
       PROVE  CurrentStakeLimit' <= CurrentStakeLimit
  <2>1. CurrentStakeLimit' = staking'.prevStakeLimit
    BY <1>1, <1>3, <1>4, <1>10, LimitOnOffer, SlotNat DEF CurrentStakeLimit
  <2>2. staking'.prevStakeLimit <= staking.prevStakeLimit
    BY <1>1, <1>3, <1>10, SlotNat
  <2>3. CurrentStakeLimit \in staking.prevStakeLimit .. staking.maxStakeLimit
    BY <1>10, WhileLimited
  <2> QED BY <1>1, <1>4, <2>1, <2>2, <2>3, SlotNat
<1> QED BY <1>9, <1>10

\* Pausing keeps what was left at the last write, and resuming starts from it.
LEMMA PauseStateKeepsPace ==
    ASSUME PacingInv, PauseStaking \/ ResumeStaking, UNCHANGED historyVars
    PROVE  PacingInv'
<1>1. /\ RateLimitTypeOK /\ accepted \in Nat /\ granted \in Nat /\ since \in Nat
      /\ UNCHANGED <<blockNumber, accepted, granted, since>>
  <2>1. UNCHANGED <<blockNumber, accepted, granted, since>>
    BY DEF PauseStaking, ResumeStaking, historyVars
  <2>2. RateLimitTypeOK /\ accepted \in Nat /\ granted \in Nat /\ since \in Nat
    BY RateLimitAssumption DEF PacingInv, PacingTypeOK
  <2> QED BY <2>1, <2>2
<1>2. /\ staking' \in StakeLimitData
      /\ staking'.prevStakeLimit = staking.prevStakeLimit
      /\ staking'.prevStakeBlockNumber \in {0, blockNumber}
      /\ staking'.maxStakeLimit = staking.maxStakeLimit
      /\ StakeLimitIncPerBlock(staking') = StakeLimitIncPerBlock(staking)
  BY <1>1, SlotNat DEF PauseStaking, ResumeStaking, SetStakeLimitPauseStateIn, RateLimitTypeOK,
                       StakeLimitData, StakeLimitIncPerBlock
<1>3. StakeIsPaced'
  <2>1. CASE IsStakingLimitSet(staking)
    <3>1. PacedBy(staking', blockNumber, accepted, granted, since)
      BY <1>1, <1>2, <2>1, WhileLimited, JustWritten, SlotNat
    <3> QED BY <1>1, <3>1 DEF StakeIsPaced, PacedBy, CurrentStakeLimit
  <2>2. CASE ~IsStakingLimitSet(staking)
    BY <1>2, <2>2 DEF StakeIsPaced, IsStakingLimitSet
  <2> QED BY <2>1, <2>2
<1>4. staking'.prevStakeBlockNumber <= blockNumber
  BY <1>1, <1>2, SlotNat
<1> QED BY <1>1, <1>2, <1>3, <1>4 DEF PacingInv, PacingTypeOK, RateLimitTypeOK, BlocksInOrder

\* A block later at most one increase more is on offer.
LEMMA NextBlockKeeps ==
    ASSUME PacingInv, NextBlock, UNCHANGED historyVars
    PROVE  PacingInv'
<1> DEFINE inc == StakeLimitIncPerBlock(staking)
           n == blockNumber - since
           offer == CalculateCurrentStakeLimit(staking, blockNumber + 1)
<1>1. /\ RateLimitTypeOK /\ accepted \in Nat /\ granted \in Nat /\ since \in Nat
      /\ blockNumber \in Nat /\ since <= blockNumber /\ inc \in Nat
      /\ staking.prevStakeBlockNumber \in Nat /\ staking.prevStakeBlockNumber <= blockNumber
      /\ staking \in StakeLimitData
  BY SlotNat DEF PacingInv, PacingTypeOK, BlocksInOrder, RateLimitTypeOK
<1>2. /\ blockNumber < MaxBlock /\ blockNumber' = blockNumber + 1
      /\ UNCHANGED <<staking, accepted, granted, since>>
  BY DEF NextBlock, historyVars
<1>3. blockNumber' \in 1 .. MaxBlock /\ staking.prevStakeBlockNumber <= blockNumber'
      /\ since <= blockNumber'
  BY <1>1, <1>2, RateLimitAssumption DEF RateLimitTypeOK
<1>4. StakeIsPaced'
  <2>1. CASE ~IsStakingLimitSet(staking)
    BY <1>2, <2>1 DEF StakeIsPaced, IsStakingLimitSet
  <2>2. CASE IsStakingLimitSet(staking)
    <3>1. n \in Nat /\ (blockNumber + 1) - since = n + 1
      BY <1>1
    <3>2. n * inc \in Nat /\ (n + 1) * inc = n * inc + inc
      <4> HIDE DEF n, inc
      <4> QED BY <1>1, <3>1, DivTimesNat, OneMoreBlock
    <3>3. /\ staking.prevStakeLimit \in Nat /\ staking.maxStakeLimit \in Nat
          /\ staking.prevStakeLimit <= staking.maxStakeLimit
          /\ CurrentStakeLimit \in Nat
          /\ accepted + staking.prevStakeLimit <= granted + n * inc
          /\ ~IsStakingPaused(staking) => accepted + CurrentStakeLimit <= granted + n * inc
      BY <1>1, <2>2, WhileLimited, SlotNat
    <3>4. offer \in staking.prevStakeLimit .. staking.maxStakeLimit
      BY <1>1, <3>3, LimitOnOffer
    <3>5. offer <= CurrentStakeLimit + inc
      BY <1>1, <3>3, LimitOnOffer DEF CurrentStakeLimit
    <3>6. PacedBy(staking, blockNumber + 1, accepted, granted, since)
      <4>1. accepted + (IF IsStakingPaused(staking) THEN staking.prevStakeLimit ELSE offer)
              <= granted + (n + 1) * inc
        <5> HIDE DEF offer, n, inc
        <5> QED BY <1>1, <3>2, <3>3, <3>4, <3>5
      <4>2. {staking.prevStakeLimit, offer} \subseteq 0 .. staking.maxStakeLimit
        <5> HIDE DEF offer
        <5> QED BY <3>3, <3>4
      <4> QED BY <3>1, <4>1, <4>2 DEF PacedBy
    <3> QED BY <1>2, <3>6 DEF StakeIsPaced, PacedBy, CurrentStakeLimit
  <2> QED BY <2>1, <2>2
<1> QED BY <1>1, <1>2, <1>3, <1>4 DEF PacingInv, PacingTypeOK, RateLimitTypeOK, BlocksInOrder

-----------------------------------------------------------------------------
(* The invariant *)

\* Before a limit is set there is nothing to keep to.
LEMMA PacingInitial == PacingInit => PacingInv
BY RateLimitAssumption DEF PacingInit, RateLimitInit, PacingInv, PacingTypeOK, RateLimitTypeOK,
   BlocksInOrder, StakeIsPaced, EmptyStakeLimit, StakeLimitData, IsStakingLimitSet

\* Every call keeps the invariant.
LEMMA PacingStep == PacingInv /\ [PacingNext]_pacingVars => PacingInv'
<1> SUFFICES ASSUME PacingInv, [PacingNext]_pacingVars PROVE PacingInv'
  OBVIOUS
<1>1. CASE RemoveStakingLimit /\ UNCHANGED historyVars
  <2>1. /\ staking' \in StakeLimitData /\ ~IsStakingLimitSet(staking')
        /\ staking'.prevStakeBlockNumber = staking.prevStakeBlockNumber
    BY <1>1 DEF RemoveStakingLimit, RemoveStakingLimitIn, PacingInv, PacingTypeOK, RateLimitTypeOK,
               StakeLimitData, IsStakingLimitSet
  <2> QED BY <1>1, <2>1 DEF RemoveStakingLimit, PacingInv, PacingTypeOK, RateLimitTypeOK,
             BlocksInOrder, StakeIsPaced, historyVars
<1>2. CASE UNCHANGED pacingVars
  BY <1>2 DEF pacingVars, PacingInv, PacingTypeOK, RateLimitTypeOK, BlocksInOrder, StakeIsPaced,
              CurrentStakeLimit
<1> QED BY <1>1, <1>2, AcceptStakeKeeps, ChooseLimitKeeps, PauseStateKeepsPace, NextBlockKeeps
        DEF PacingNext

-----------------------------------------------------------------------------
\* What was accepted and what is on offer stay within what was left when the limit
\* was chosen and the growth of each block since, for any limit and any history
\* of stakes, pauses and changes of the limit.
THEOREM PacingStakeIsPaced == PacingSpec => []StakeIsPaced
<1>1. PacingInv => StakeIsPaced
  BY DEF PacingInv
<1> QED BY PacingInitial, PacingStep, <1>1, PTL DEF PacingSpec

\* Choosing a limit over a running one never raises what is on offer at once.
THEOREM PacingSettingNeverRaises == PacingSpec => SettingNeverRaises
<1>1. PacingInv /\ [PacingNext]_pacingVars =>
        [ (\E l \in StakeLimits : ChooseLimit(l[1], l[2])) /\ IsStakingLimitSet(staking)
            /\ ~IsStakingPaused(staking)
          => CurrentStakeLimit' <= CurrentStakeLimit ]_pacingVars
  BY ChooseLimitKeeps
<1> QED BY PacingInitial, PacingStep, <1>1, PTL DEF PacingSpec, SettingNeverRaises

-----------------------------------------------------------------------------
(* The two books *)

TokenInv == StETHTypeOK /\ SharesSumToTotal

\* The parts of the fee never exceed it: SetFeeDistribution wants their sum to
\* be 100%, and before it is called for the first time they are 0.
DistributionOK ==
    config.feeDistribution.treasury + config.feeDistribution.insurance
        + config.feeDistribution.operators <= TOTAL_BASIS_POINTS

EtherTypeOK ==
    /\ {balance, bufferedEther, totalELRewards, outside} \subseteq Nat
    /\ {depositedValidators, beaconValidators, beaconBalance} \subseteq Nat
    /\ vaultBalance \in [Vaults -> Nat]

EtherInv == EtherTypeOK /\ BooksAreCovered

ConfigInv == config \in Config /\ DistributionOK

LidoInv == TokenInv /\ RateLimitTypeOK /\ EtherInv /\ ConfigInv

-----------------------------------------------------------------------------
(* Arithmetic *)

\* Quotients and products of natural numbers.
LEMMA DivNat ==
    ASSUME NEW a \in Nat, NEW b \in Nat, b > 0
    PROVE  a \div b \in Nat /\ (a \div b) * b <= a
OBVIOUS

\* Products of natural numbers.
LEMMA TimesNat ==
    ASSUME NEW a \in Nat, NEW b \in Nat
    PROVE  a * b \in Nat
OBVIOUS

\* A factor does not reverse an order.
LEMMA TimesMonotone ==
    ASSUME NEW a \in Nat, NEW b \in Nat, NEW c \in Nat, a <= b
    PROVE  a * c <= b * c
OBVIOUS

\* A part of an amount, in basis points.
LEMMA PortionNat ==
    ASSUME NEW amount \in Nat, NEW bp \in Nat
    PROVE  Portion(amount, bp) \in Nat
BY DivNat, TimesNat, LidoAssumption DEF Portion

\* Two parts that make up at most the whole are together at most the amount.
LEMMA PortionsWithinWhole ==
    ASSUME NEW amount \in Nat, NEW bp1 \in Nat, NEW bp2 \in Nat,
           bp1 + bp2 <= TOTAL_BASIS_POINTS
    PROVE  Portion(amount, bp1) + Portion(amount, bp2) <= amount
<1> DEFINE t == TOTAL_BASIS_POINTS
           p1 == Portion(amount, bp1)
           p2 == Portion(amount, bp2)
<1>1. t \in Nat /\ t > 0
  BY LidoAssumption
<1>2. p1 \in Nat /\ p2 \in Nat
  BY PortionNat
<1>3. p1 * t <= amount * bp1 /\ p2 * t <= amount * bp2
  BY <1>1, DivNat, TimesNat DEF Portion
<1>4. amount * (bp1 + bp2) <= amount * t
  BY <1>1, TimesMonotone
<1>5. (p1 + p2) * t <= amount * t
  <2> HIDE DEF p1, p2, t
  <2> QED BY <1>1, <1>2, <1>3, <1>4
<1>6. SUFFICES ASSUME p1 + p2 > amount PROVE FALSE
  BY <1>2
<1>7. (p1 + p2) * t >= (amount + 1) * t
  <2> HIDE DEF p1, p2, t
  <2> QED BY <1>1, <1>2, <1>6, TimesMonotone
<1> QED
  <2> HIDE DEF p1, p2, t
  <2> QED BY <1>1, <1>2, <1>5, <1>7

-----------------------------------------------------------------------------
(* The token *)

\* Amounts are converted to shares.
LEMMA SharesByPooledEthNat ==
    ASSUME StETHTypeOK, NEW amount \in Nat, NEW tp \in Nat
    PROVE  SharesByPooledEth(amount, tp) \in Nat
<1>1. totalShares \in Nat
  BY DEF StETHTypeOK
<1>2. amount * totalShares \in Nat
  BY <1>1, TimesNat
<1> QED BY <1>2, DivNat DEF SharesByPooledEth

\* Shares minted to an account are counted.
LEMMA MintSharesKeeps ==
    ASSUME TokenInv, NEW a \in Accounts, NEW n \in Nat, MintShares(a, n)
    PROVE  /\ shares' \in [Accounts -> Nat]
           /\ totalShares' \in Nat
           /\ SupplyOf(shares') = totalShares'
<1>1. /\ shares \in [Accounts -> Nat] /\ totalShares \in Nat
      /\ SupplyOf(shares) = totalShares
  BY DEF TokenInv, StETHTypeOK, SharesSumToTotal
<1>2. /\ shares' = [shares EXCEPT ![a] = @ + n]
      /\ totalShares' = totalShares + n
  BY DEF MintShares
<1>3. /\ shares' \in [Accounts -> Nat]
      /\ shares'[a] = shares[a] + n
      /\ \A x \in Accounts \ {a} : shares'[x] = shares[x]
  BY <1>1, <1>2
<1>4. SupplyOf(shares') = SupplyOf(shares) + n
  BY <1>1, <1>3, SupplyChange, AccountsAssumption
<1> QED BY <1>1, <1>2, <1>3, <1>4

\* Shares that are burned were counted.
LEMMA BurnSharesKeeps ==
    ASSUME TokenInv, NEW a \in Accounts, NEW n \in Nat, BurnShares(a, n)
    PROVE  TokenInv'
<1>1. /\ shares \in [Accounts -> Nat] /\ totalShares \in Nat
      /\ SupplyOf(shares) = totalShares
  BY DEF TokenInv, StETHTypeOK, SharesSumToTotal
<1>2. /\ n <= shares[a]
      /\ shares' = [shares EXCEPT ![a] = @ - n]
      /\ totalShares' = totalShares - n
      /\ UNCHANGED <<allowances, active>>
  BY DEF BurnShares
<1>3. /\ shares' \in [Accounts -> Nat]
      /\ shares[a] = shares'[a] + n
      /\ \A x \in Accounts \ {a} : shares[x] = shares'[x]
  BY <1>1, <1>2
<1>4. SupplyOf(shares) = SupplyOf(shares') + n
  BY <1>1, <1>3, SupplyChange, AccountsAssumption
<1>5. SupplyOf(shares') \in Nat
  BY <1>3, UnitsFinite, AccountsAssumption
<1> QED BY <1>1, <1>2, <1>3, <1>4, <1>5 DEF TokenInv, StETHTypeOK, SharesSumToTotal

\* Shares that move stay counted, also when they move to where they are.
LEMMA MoveSharesKeeps ==
    ASSUME TokenInv, NEW from \in Accounts, NEW to \in Accounts, NEW n \in Nat,
           MoveShares(from, to, n), UNCHANGED totalShares
    PROVE  /\ shares' \in [Accounts -> Nat]
           /\ totalShares' \in Nat
           /\ SupplyOf(shares') = totalShares'
<1> DEFINE g == [shares EXCEPT ![from] = @ - n]
<1>1. /\ shares \in [Accounts -> Nat] /\ totalShares \in Nat
      /\ SupplyOf(shares) = totalShares
  BY DEF TokenInv, StETHTypeOK, SharesSumToTotal
<1>2. n <= shares[from] /\ shares' = Moved(shares, from, to, n)
  BY DEF MoveShares
<1>3. /\ g \in [Accounts -> Nat]
      /\ shares[from] = g[from] + n
      /\ \A x \in Accounts \ {from} : shares[x] = g[x]
  BY <1>1, <1>2
<1>4. /\ shares' \in [Accounts -> Nat]
      /\ shares'[to] = g[to] + n
      /\ \A x \in Accounts \ {to} : shares'[x] = g[x]
  BY <1>1, <1>2 DEF Moved
<1> HIDE DEF g
<1>5. SupplyOf(shares) = SupplyOf(g) + n
  BY <1>1, <1>3, SupplyChange, AccountsAssumption
<1>6. SupplyOf(shares') = SupplyOf(g) + n
  BY <1>3, <1>4, SupplyChange, AccountsAssumption
<1> QED BY <1>1, <1>4, <1>5, <1>6

\* Writing one allowance.
LEMMA SetAllowanceKeeps ==
    ASSUME StETHTypeOK, NEW owner \in Accounts, NEW spender \in Accounts,
           NEW amount \in Nat, SetAllowance(owner, spender, amount)
    PROVE  allowances' \in [Accounts -> [Accounts -> Nat]]
BY DEF StETHTypeOK, SetAllowance

\* Every call of a holder that moves tokens.
LEMMA MoveTokensKeeps ==
    ASSUME TokenInv, NEW from \in Accounts, NEW to \in Accounts, NEW n \in Nat,
           TotalPooledEther \in Nat, MoveTokens(from, to, n)
    PROVE  TokenInv' /\ UNCHANGED <<totalShares, active>>
<1> DEFINE converted == SharesByPooledEth(n, TotalPooledEther)
<1>1. StETHTypeOK
  BY DEF TokenInv
<1>2. converted \in Nat
  BY <1>1, SharesByPooledEthNat
<1>3. ASSUME NEW m \in Nat, MoveShares(from, to, m), UNCHANGED <<totalShares, active>>,
             allowances' \in [Accounts -> [Accounts -> Nat]]
      PROVE  TokenInv'
  <2>1. /\ shares' \in [Accounts -> Nat] /\ totalShares' \in Nat
        /\ SupplyOf(shares') = totalShares'
    BY <1>3, MoveSharesKeeps
  <2>2. active' \in BOOLEAN
    BY <1>1, <1>3 DEF StETHTypeOK
  <2> QED BY <1>3, <2>1, <2>2 DEF TokenInv, StETHTypeOK, SharesSumToTotal
<1>4. CASE Transfer(from, to, n, TotalPooledEther)
  BY <1>1, <1>2, <1>3, <1>4 DEF Transfer, StETHTypeOK
<1>5. CASE TransferShares(from, to, n)
  BY <1>1, <1>3, <1>5 DEF TransferShares, StETHTypeOK
<1>6. ASSUME NEW spender \in Spenders, TransferFrom(spender, from, to, n, TotalPooledEther)
      PROVE  TokenInv' /\ UNCHANGED <<totalShares, active>>
  <2>1. spender \in Accounts
    BY LidoAssumption DEF Holders
  <2>2. allowances[from][spender] \in Nat /\ allowances[from][spender] >= n
    BY <1>1, <1>6, <2>1 DEF StETHTypeOK, TransferFrom
  <2>3. allowances[from][spender] - n \in Nat
    BY <2>2
  <2>4. allowances' \in [Accounts -> [Accounts -> Nat]]
    BY <1>1, <1>6, <2>1, <2>3, SetAllowanceKeeps DEF TransferFrom
  <2>5. MoveShares(from, to, converted) /\ UNCHANGED <<totalShares, active>>
    BY <1>6 DEF TransferFrom
  <2> HIDE DEF converted
  <2> QED BY <1>2, <1>3, <2>4, <2>5
<1> QED BY <1>4, <1>5, <1>6 DEF MoveTokens

\* Every call of a holder that writes an allowance.
LEMMA ChangeAllowanceKeeps ==
    ASSUME TokenInv, NEW owner \in Accounts, NEW spender \in Accounts, NEW n \in Nat,
           ChangeAllowance(owner, spender, n)
    PROVE  TokenInv' /\ UNCHANGED <<totalShares, active>>
<1>1. StETHTypeOK
  BY DEF TokenInv
<1>2. allowances[owner][spender] \in Nat
  BY <1>1 DEF StETHTypeOK
<1>3. ASSUME NEW amount \in Nat, Approve(owner, spender, amount)
      PROVE  TokenInv' /\ UNCHANGED <<totalShares, active>>
  <2>1. allowances' \in [Accounts -> [Accounts -> Nat]]
    BY <1>1, <1>3, SetAllowanceKeeps DEF Approve
  <2> QED BY <1>3, <2>1 DEF Approve, TokenInv, StETHTypeOK, SharesSumToTotal
<1>4. CASE Approve(owner, spender, n)
  BY <1>3, <1>4
<1>5. CASE IncreaseAllowance(owner, spender, n)
  BY <1>2, <1>3, <1>5 DEF IncreaseAllowance
<1>6. CASE DecreaseAllowance(owner, spender, n)
  BY <1>2, <1>3, <1>6 DEF DecreaseAllowance
<1> QED BY <1>4, <1>5, <1>6 DEF ChangeAllowance

-----------------------------------------------------------------------------
(* The rate limit *)

\* The limit of the moment is a number.
LEMMA CurrentStakeLimitInt ==
    ASSUME RateLimitTypeOK
    PROVE  CurrentStakeLimit \in Int
<1>1. /\ staking.prevStakeBlockNumber \in Nat /\ staking.prevStakeLimit \in Nat
      /\ staking.maxStakeLimitGrowthBlocks \in Nat /\ staking.maxStakeLimit \in Nat
      /\ blockNumber \in Nat
  BY RateLimitAssumption DEF RateLimitTypeOK, StakeLimitData
<1>2. StakeLimitIncPerBlock(staking) \in Nat
  BY <1>1, DivNat DEF StakeLimitIncPerBlock
<1>3. (blockNumber - staking.prevStakeBlockNumber) * StakeLimitIncPerBlock(staking) \in Int
  BY <1>1, <1>2
<1> QED BY <1>1, <1>3 DEF CurrentStakeLimit, CalculateCurrentStakeLimit

\* What the slot keeps of a block number is a number.
LEMMA StoredBlockNat ==
    ASSUME NEW block \in Nat
    PROVE  StoredBlock(block) \in Nat
BY WidthAssumption DEF StoredBlock

\* A stake is taken from the limit, which stays a number.
LEMMA TakeStakeKeeps ==
    ASSUME RateLimitTypeOK, NEW value \in Nat, TakeStake(value)
    PROVE  RateLimitTypeOK'
<1>1. UNCHANGED blockNumber
  BY DEF TakeStake
<1>2. blockNumber \in Nat
  BY RateLimitAssumption DEF RateLimitTypeOK
<1>3. CASE UNCHANGED staking
  BY <1>1, <1>3 DEF RateLimitTypeOK
<1>4. CASE /\ value <= CurrentStakeLimit
           /\ staking' = UpdatePrevStakeLimitIn(staking, CurrentStakeLimit - value, blockNumber)
  <2>1. CurrentStakeLimit - value \in Nat
    BY <1>4, CurrentStakeLimitInt
  <2>2. StoredBlock(blockNumber) \in Nat
    BY <1>2, StoredBlockNat
  <2>3. staking' \in StakeLimitData
    BY <1>4, <2>1, <2>2 DEF RateLimitTypeOK, UpdatePrevStakeLimitIn, StakeLimitData
  <2> QED BY <1>1, <2>3 DEF RateLimitTypeOK
<1> QED BY <1>3, <1>4 DEF TakeStake

\* Pausing and resuming.
LEMMA PauseStateKeeps ==
    ASSUME RateLimitTypeOK, PauseStaking \/ ResumeStaking
    PROVE  RateLimitTypeOK'
<1>0. UNCHANGED blockNumber
  BY DEF PauseStaking, ResumeStaking
<1>1. blockNumber \in Nat
  BY RateLimitAssumption DEF RateLimitTypeOK
<1>2. StoredBlock(blockNumber) \in Nat
  BY <1>1, StoredBlockNat
<1>3. staking' \in StakeLimitData
  BY <1>2 DEF RateLimitTypeOK, PauseStaking, ResumeStaking,
              SetStakeLimitPauseStateIn, StakeLimitData
<1> QED BY <1>0, <1>3 DEF RateLimitTypeOK

\* Every other change of the limit.
LEMMA SetStakingLimitKeeps ==
    ASSUME RateLimitTypeOK, NEW l \in StakeLimits, SetStakingLimit(l[1], l[2])
    PROVE  RateLimitTypeOK'
<1>1. l[1] \in Nat /\ l[2] \in Nat
  BY RateLimitAssumption
<1>2. blockNumber \in Nat /\ UNCHANGED blockNumber
  BY RateLimitAssumption DEF RateLimitTypeOK, SetStakingLimit
<1>3. StoredBlock(blockNumber) \in Nat
  BY <1>2, StoredBlockNat
<1>4. l[2] # 0 => l[1] \div l[2] \in Nat
  BY <1>1, DivNat
<1>5. staking' \in StakeLimitData
  BY <1>1, <1>3, <1>4 DEF RateLimitTypeOK, SetStakingLimit, SetStakingLimitIn, StakeLimitData
<1> QED BY <1>2, <1>5 DEF RateLimitTypeOK

\* Every call of the holders of the staking roles, together.
LEMMA StakingControlKeeps ==
    ASSUME RateLimitTypeOK, StakingControl
    PROVE  RateLimitTypeOK'
<1>1. CASE PauseStaking \/ ResumeStaking
  BY <1>1, PauseStateKeeps
<1>2. ASSUME NEW l \in StakeLimits, SetStakingLimit(l[1], l[2]) PROVE RateLimitTypeOK'
  BY <1>2, SetStakingLimitKeeps
<1>3. CASE RemoveStakingLimit
  BY <1>3 DEF RateLimitTypeOK, RemoveStakingLimit, RemoveStakingLimitIn, StakeLimitData
<1>4. CASE NextBlock
  BY <1>4, RateLimitAssumption DEF RateLimitTypeOK, NextBlock
<1> QED BY <1>1, <1>2, <1>3, <1>4 DEF StakingControl

-----------------------------------------------------------------------------
(* What is left alone *)

\* A step that writes no variable of the token keeps its invariant.
LEMMA TokenSame ==
    ASSUME TokenInv, UNCHANGED <<tokenVars, active>>
    PROVE  TokenInv'
BY DEF TokenInv, StETHTypeOK, SharesSumToTotal, tokenVars

\* A step that writes no variable of the limit keeps its type.
LEMMA RateLimitSame ==
    ASSUME RateLimitTypeOK, UNCHANGED rateLimitVars
    PROVE  RateLimitTypeOK'
BY DEF RateLimitTypeOK, rateLimitVars

\* A step that writes no ether and no beacon state keeps the books.
LEMMA EtherSame ==
    ASSUME EtherInv, UNCHANGED <<etherVars, beaconVars>>
    PROVE  EtherInv'
BY DEF EtherInv, EtherTypeOK, BooksAreCovered, etherVars, beaconVars

\* A step that writes no setting keeps the settings in bounds.
LEMMA ConfigSame ==
    ASSUME ConfigInv, UNCHANGED config
    PROVE  ConfigInv'
BY DEF ConfigInv, DistributionOK

-----------------------------------------------------------------------------
(* The ether *)

\* The pooled ether is a number: its three parts are.
LEMMA TotalPooledEtherNat == EtherInv => TotalPooledEther \in Nat
<1> SUFFICES ASSUME EtherInv PROVE TotalPooledEther \in Nat
  OBVIOUS
<1>1. /\ {bufferedEther, beaconBalance, depositedValidators, beaconValidators} \subseteq Nat
      /\ beaconValidators <= depositedValidators
  BY DEF EtherInv, EtherTypeOK, BooksAreCovered
<1>2. DEPOSIT_SIZE \in Nat /\ depositedValidators - beaconValidators \in Nat
  BY <1>1, LidoAssumption
<1>3. TransientBalance \in Nat
  BY <1>2, TimesNat DEF TransientBalance
<1> QED BY <1>1, <1>3 DEF TotalPooledEther

\* A stake is buffered whole, and its shares are counted.
LEMMA SubmitKeeps ==
    ASSUME LidoInv, NEW staker \in Holders, NEW value \in Amounts, Submit(staker, value)
    PROVE  LidoInv'
<1> DEFINE converted == SharesByPooledEth(value, TotalPooledEther)
           minted == IF converted = 0 THEN value ELSE converted
<1>1. TokenInv /\ RateLimitTypeOK /\ EtherInv /\ ConfigInv /\ StETHTypeOK
  BY DEF LidoInv, TokenInv
<1>2. value \in Nat /\ staker \in Accounts
  BY RateLimitAssumption DEF Holders
<1>3. converted \in Nat
  BY <1>1, <1>2, SharesByPooledEthNat, TotalPooledEtherNat
<1>4. minted \in Nat
  BY <1>2, <1>3
<1>5. /\ value <= outside
      /\ TakeStake(value)
      /\ MintShares(staker, minted)
      /\ bufferedEther' = bufferedEther + value
      /\ balance' = balance + value
      /\ outside' = outside - value
      /\ UNCHANGED <<allowances, active, totalELRewards, vaultBalance, beaconVars, config>>
  BY DEF Submit
<1> HIDE DEF converted, minted
<1>6. TokenInv'
  <2>1. /\ shares' \in [Accounts -> Nat] /\ totalShares' \in Nat
        /\ SupplyOf(shares') = totalShares'
    BY <1>1, <1>2, <1>4, <1>5, MintSharesKeeps
  <2> QED BY <1>1, <1>5, <2>1 DEF TokenInv, StETHTypeOK, SharesSumToTotal
<1>7. RateLimitTypeOK'
  BY <1>1, <1>2, <1>5, TakeStakeKeeps
<1>8. EtherInv'
  BY <1>1, <1>2, <1>5 DEF EtherInv, EtherTypeOK, BooksAreCovered, beaconVars
<1> QED BY <1>1, <1>5, <1>6, <1>7, <1>8, ConfigSame DEF LidoInv

\* Ether that comes without a call, is paid to a vault, or is recovered.
LEMMA ForceEtherKeeps ==
    ASSUME LidoInv, NEW value \in Amounts, ForceEther(value)
    PROVE  LidoInv'
<1>1. value \in Nat
  BY RateLimitAssumption
<1>2. EtherInv'
  BY <1>1 DEF LidoInv, ForceEther, EtherInv, EtherTypeOK, BooksAreCovered, beaconVars
<1> QED BY <1>2, TokenSame, RateLimitSame, ConfigSame DEF LidoInv, ForceEther

\* The rewards vault gets ether, which the books do not count yet.
LEMMA PayVaultKeeps ==
    ASSUME LidoInv, NEW vault \in Vaults, NEW value \in Amounts, PayVault(vault, value)
    PROVE  LidoInv'
<1>1. value \in Nat
  BY RateLimitAssumption
<1>2. EtherInv'
  BY <1>1 DEF LidoInv, PayVault, EtherInv, EtherTypeOK, BooksAreCovered, beaconVars
<1> QED BY <1>2, TokenSame, RateLimitSame, ConfigSame DEF LidoInv, PayVault

\* What is recovered is at most what is not accounted for.
LEMMA RecoverEtherKeeps ==
    ASSUME LidoInv, RecoverEther
    PROVE  LidoInv'
<1>1. EtherInv'
  BY DEF LidoInv, RecoverEther, UnaccountedEther, EtherInv, EtherTypeOK, BooksAreCovered,
         beaconVars
<1> QED BY <1>1, TokenSame, RateLimitSame, ConfigSame DEF LidoInv, RecoverEther

\* Deposits take whole validators out of the buffer and out of the balance.
LEMMA DepositBufferedEtherKeeps ==
    ASSUME LidoInv, NEW maxDeposits \in Nat, NEW keys \in Nat,
           DepositBufferedEther(maxDeposits, keys)
    PROVE  LidoInv'
<1>1. /\ {balance, bufferedEther, depositedValidators} \subseteq Nat
      /\ bufferedEther <= balance
  BY DEF LidoInv, EtherInv, EtherTypeOK, BooksAreCovered
<1>2. DEPOSIT_SIZE \in Nat /\ DEPOSIT_SIZE > 0
  BY LidoAssumption
<1>3. keys <= bufferedEther \div DEPOSIT_SIZE
  BY DEF DepositBufferedEther
<1>4. keys * DEPOSIT_SIZE \in Nat /\ keys * DEPOSIT_SIZE <= bufferedEther
  <2>1. /\ bufferedEther \div DEPOSIT_SIZE \in Nat
        /\ (bufferedEther \div DEPOSIT_SIZE) * DEPOSIT_SIZE <= bufferedEther
    BY <1>1, <1>2, DivNat
  <2>2. keys * DEPOSIT_SIZE <= (bufferedEther \div DEPOSIT_SIZE) * DEPOSIT_SIZE
    BY <1>2, <1>3, <2>1, TimesMonotone
  <2>3. keys * DEPOSIT_SIZE \in Nat
    BY <1>2, TimesNat
  <2> QED BY <1>1, <1>2, <2>1, <2>2, <2>3
<1> DEFINE spent == keys * DEPOSIT_SIZE
<1>5. /\ balance' = balance - spent
      /\ bufferedEther' = bufferedEther - spent
      /\ depositedValidators' = depositedValidators + keys
      /\ UNCHANGED <<tokenVars, active, rateLimitVars, totalELRewards, vaultBalance, outside,
                     beaconValidators, beaconBalance, config>>
  BY DEF DepositBufferedEther, MarkAsUnbuffered
<1>6. EtherInv'
  <2> HIDE DEF spent
  <2>1. spent \in Nat /\ spent <= bufferedEther
    BY <1>4 DEF spent
  <2> QED BY <1>1, <1>5, <2>1 DEF LidoInv, EtherInv, EtherTypeOK, BooksAreCovered
<1> QED BY <1>5, <1>6, TokenSame, RateLimitSame, ConfigSame DEF LidoInv

-----------------------------------------------------------------------------
(* The fee *)

\* What operators get is a ledger of their accounts, and finite.
LEMMA OperatorRewardsType ==
    ASSUME NEW amount \in Nat, NEW r \in OperatorRewards(amount)
    PROVE  /\ r \in [OperatorAccounts -> Nat]
           /\ SupplyOf(r) \in Nat
           /\ SupplyOf(r) <= amount
<1>1. r \in [OperatorAccounts -> Nat] /\ SupplyOf(r) <= amount
  BY DEF OperatorRewards
<1>2. IsFiniteSet(OperatorAccounts)
  BY LidoAssumption, AccountsAssumption, FS_Subset
<1> QED BY <1>1, <1>2, UnitsFinite

\* The fee is transferred whole: what all the recipients get, who may coincide,
\* is what was minted, and nobody's share of it is negative.
LEMMA FeeToLedger ==
    ASSUME ConfigInv, NEW minted \in Nat, NEW r \in [OperatorAccounts -> Nat],
           SupplyOf(r) \in Nat, ToInsurance(minted) \in Nat,
           ToInsurance(minted) + SupplyOf(r) <= minted
    PROVE  /\ [a \in Accounts |-> FeeTo(a, minted, r)] \in [Accounts -> Nat]
           /\ SupplyOf([a \in Accounts |-> FeeTo(a, minted, r)]) = minted
<1> DEFINE lido == LidoAddress
           ins == config.contracts.insuranceFund
           tre == config.contracts.treasury
           y == ToInsurance(minted)
           w == SupplyOf(r)
           z == minted - y - w
           ops == [a \in Accounts |-> IF a \in OperatorAccounts THEN r[a] ELSE 0]
           toIns == Only(Accounts, ins, y)
           toTre == Only(Accounts, tre, z)
           fee == [a \in Accounts |-> FeeTo(a, minted, r)]
<1>1. ins \in Accounts /\ tre \in Accounts
  BY LidoAssumption DEF ConfigInv, Config
<1>2. y \in Nat /\ w \in Nat /\ z \in Nat
  OBVIOUS
<1>3. ToTreasury(minted, r) = z
  BY DEF ToTreasury
<1>4. \A a \in Accounts :
        FeeTo(a, minted, r) = (IF a = lido THEN 0 ELSE 0) + (IF a = ins THEN y ELSE 0)
                                + (IF a \in OperatorAccounts THEN r[a] ELSE 0)
                                + (IF a = tre THEN z ELSE 0)
  BY <1>2, <1>3 DEF FeeTo
<1>5. ops \in [Accounts -> Nat]
  OBVIOUS
<1>6. SupplyOf(ops) = w
  <2>1. OperatorAccounts \in SUBSET Accounts
    BY LidoAssumption
  <2> QED BY <2>1, SupplyExtend
<1>7. toIns \in [Accounts -> Nat] /\ toTre \in [Accounts -> Nat]
  BY <1>2 DEF Only
<1>8. SupplyOf(toIns) = y /\ SupplyOf(toTre) = z
  BY <1>1, <1>2, SupplyOnly, AccountsAssumption
<1> DEFINE rest == Sum(Accounts, toIns, ops)
<1>9. rest \in [Accounts -> Nat] /\ \A a \in Accounts : rest[a] = toIns[a] + ops[a]
  <2> HIDE DEF toIns, ops
  <2> QED BY <1>5, <1>7 DEF Sum
<1>10. SupplyOf(rest) = y + w
  <2> HIDE DEF toIns, ops, y, w
  <2> QED BY <1>5, <1>6, <1>7, <1>8, SupplyAdd, AccountsAssumption
<1>11. \A a \in Accounts : fee[a] = rest[a] + toTre[a]
  BY <1>2, <1>4, <1>9 DEF Only
<1>12. fee = Sum(Accounts, rest, toTre)
  <2> HIDE DEF rest, toTre
  <2> QED BY <1>11 DEF Sum
<1>13. fee \in [Accounts -> Nat]
  <2> HIDE DEF rest, toTre, fee
  <2> QED BY <1>7, <1>9, <1>12 DEF Sum
<1>14. SupplyOf(fee) = (y + w) + z
  <2> HIDE DEF rest, toTre, fee, y, w, z
  <2> QED BY <1>7, <1>8, <1>9, <1>10, <1>12, SupplyAdd, AccountsAssumption
<1> QED BY <1>2, <1>13, <1>14

\* The fee is minted and handed out, whatever the profit was.
LEMMA DistributeFeeKeeps ==
    ASSUME TokenInv, ConfigInv, NEW rewards \in Nat, NEW pooled \in Nat,
           DistributeFee(rewards, pooled)
    PROVE  /\ shares' \in [Accounts -> Nat]
           /\ totalShares' \in Nat
           /\ SupplyOf(shares') = totalShares'
<1> DEFINE minted == SharesForFee(rewards, pooled)
           d == config.feeDistribution
<1>1. /\ shares \in [Accounts -> Nat] /\ totalShares \in Nat
      /\ SupplyOf(shares) = totalShares
  BY DEF TokenInv, StETHTypeOK, SharesSumToTotal
<1>2. /\ config.fee \in Nat
      /\ d.treasury \in Nat /\ d.insurance \in Nat /\ d.operators \in Nat
      /\ d.insurance + d.operators <= TOTAL_BASIS_POINTS
  BY LidoAssumption DEF ConfigInv, Config, DistributionOK
<1>3. minted \in Nat
  <2> DEFINE top == (rewards * config.fee) * totalShares
             bottom == pooled * TOTAL_BASIS_POINTS - config.fee * rewards
  <2>1. top \in Nat
    BY <1>1, <1>2, TimesNat
  <2>2. pooled * TOTAL_BASIS_POINTS \in Nat /\ config.fee * rewards \in Nat
    BY <1>2, TimesNat, LidoAssumption
  <2>3. pooled * TOTAL_BASIS_POINTS > config.fee * rewards
    BY DEF DistributeFee
  <2>4. bottom \in Nat /\ bottom > 0
    BY <2>2, <2>3
  <2>5. minted = top \div bottom
    BY DEF SharesForFee
  <2> HIDE DEF minted, top, bottom
  <2> QED BY <2>1, <2>4, <2>5, DivNat
<1>4. PICK r \in OperatorRewards(Portion(minted, d.operators)) :
          shares' = [a \in Accounts |-> shares[a] + FeeTo(a, minted, r)]
  BY DEF DistributeFee
<1>5. totalShares' = totalShares + minted
  BY DEF DistributeFee
<1> HIDE DEF minted
<1>6. Portion(minted, d.operators) \in Nat /\ ToInsurance(minted) \in Nat
  BY <1>2, <1>3, PortionNat DEF ToInsurance
<1>7. /\ r \in [OperatorAccounts -> Nat]
      /\ SupplyOf(r) \in Nat
      /\ SupplyOf(r) <= Portion(minted, d.operators)
  BY <1>6, OperatorRewardsType
<1>8. ToInsurance(minted) + Portion(minted, d.operators) <= minted
  BY <1>2, <1>3, PortionsWithinWhole DEF ToInsurance
<1>9. ToInsurance(minted) + SupplyOf(r) <= minted
  BY <1>3, <1>6, <1>7, <1>8
<1> DEFINE fee == [a \in Accounts |-> FeeTo(a, minted, r)]
<1>10. fee \in [Accounts -> Nat] /\ SupplyOf(fee) = minted
  BY <1>3, <1>6, <1>7, <1>9, FeeToLedger
<1>11. shares' = Sum(Accounts, shares, fee)
  BY <1>4 DEF Sum
<1> HIDE DEF fee
<1>12. SupplyOf(shares') = SupplyOf(shares) + SupplyOf(fee)
  BY <1>1, <1>10, <1>11, SupplyAdd, AccountsAssumption
<1>13. shares' \in [Accounts -> Nat]
  BY <1>1, <1>10, <1>11 DEF Sum
<1> QED BY <1>1, <1>3, <1>5, <1>10, <1>12, <1>13

\* Rewards are never more than the vault has.
LEMMA ELRewardsWithinVault ==
    ASSUME EtherInv, ConfigInv, NEW pooled \in Nat
    PROVE  /\ ELRewardsFor(pooled) \in Nat
           /\ config.elRewardsVault \in Vaults =>
                ELRewardsFor(pooled) <= vaultBalance[config.elRewardsVault]
           /\ config.elRewardsVault \notin Vaults => ELRewardsFor(pooled) = 0
<1>1. config.elRewardsVault \in Vaults \cup {NoVault} /\ config.elRewardsLimit \in Nat
  BY LidoAssumption DEF ConfigInv, Config
<1>2. Portion(pooled, config.elRewardsLimit) \in Nat
  BY <1>1, PortionNat
<1>3. config.elRewardsVault \in Vaults => vaultBalance[config.elRewardsVault] \in Nat
  BY DEF EtherInv, EtherTypeOK
<1>4. NoVault \notin Vaults
  BY LidoAssumption
<1> QED BY <1>1, <1>2, <1>3, <1>4 DEF ELRewardsFor

\* A report moves the rewards it withdraws into the buffer, and mints the fee.
LEMMA HandleOracleReportKeeps ==
    ASSUME LidoInv, NEW caller, NEW validators \in Nat, NEW reported \in Nat,
           HandleOracleReport(caller, validators, reported)
    PROVE  LidoInv'
<1> DEFINE rewardBase == RewardBase(validators)
           asked == bufferedEther + reported + (depositedValidators - validators) * DEPOSIT_SIZE
           elRewards == ELRewardsFor(asked)
<1>1. /\ {balance, bufferedEther, totalELRewards, outside} \subseteq Nat
      /\ {depositedValidators, beaconValidators, beaconBalance} \subseteq Nat
      /\ vaultBalance \in [Vaults -> Nat]
      /\ bufferedEther <= balance
  BY DEF LidoInv, EtherInv, EtherTypeOK, BooksAreCovered
<1>2. /\ validators <= depositedValidators
      /\ validators >= beaconValidators
      /\ UNCHANGED <<allowances, active, rateLimitVars, depositedValidators, outside, config>>
      /\ beaconBalance' = reported
      /\ beaconValidators' = validators
      /\ bufferedEther' = bufferedEther + elRewards
      /\ balance' = balance + elRewards
      /\ totalELRewards' = totalELRewards + elRewards
      /\ vaultBalance' = [v \in Vaults |-> IF v = config.elRewardsVault
                                           THEN vaultBalance[v] - elRewards
                                           ELSE vaultBalance[v]]
      /\ \/ /\ reported > rewardBase
            /\ DistributeFee(reported - rewardBase + elRewards, TotalPooledEther')
         \/ /\ reported <= rewardBase
            /\ UNCHANGED <<shares, totalShares>>
  BY DEF HandleOracleReport
<1>3. DEPOSIT_SIZE \in Nat
  BY LidoAssumption
<1>4. asked \in Nat
  <2>1. (depositedValidators - validators) * DEPOSIT_SIZE \in Nat
    BY <1>1, <1>2, <1>3, TimesNat
  <2> QED BY <1>1, <2>1
<1>5. rewardBase \in Nat
  <2>1. (validators - beaconValidators) * DEPOSIT_SIZE \in Nat
    BY <1>1, <1>2, <1>3, TimesNat
  <2> QED BY <1>1, <2>1 DEF RewardBase
<1> HIDE DEF asked, rewardBase
<1>6. /\ elRewards \in Nat
      /\ config.elRewardsVault \in Vaults => elRewards <= vaultBalance[config.elRewardsVault]
      /\ config.elRewardsVault \notin Vaults => elRewards = 0
  BY <1>4, ELRewardsWithinVault DEF LidoInv
<1> HIDE DEF elRewards
<1>7. EtherInv'
  <2>1. vaultBalance' \in [Vaults -> Nat]
    BY <1>1, <1>2, <1>6
  <2>2. /\ balance' \in Nat /\ bufferedEther' \in Nat /\ totalELRewards' \in Nat
        /\ bufferedEther' <= balance'
    BY <1>1, <1>2, <1>6
  <2>3. /\ depositedValidators' \in Nat /\ beaconValidators' \in Nat /\ beaconBalance' \in Nat
        /\ outside' \in Nat /\ beaconValidators' <= depositedValidators'
    BY <1>1, <1>2
  <2> QED BY <2>1, <2>2, <2>3 DEF EtherInv, EtherTypeOK, BooksAreCovered
<1>8. TokenInv'
  <2>1. TokenInv /\ ConfigInv
    BY DEF LidoInv
  <2>2. CASE reported > rewardBase /\ DistributeFee(reported - rewardBase + elRewards,
                                                    TotalPooledEther')
    <3>1. reported - rewardBase + elRewards \in Nat
      BY <1>5, <1>6, <2>2
    <3>2. (TotalPooledEther \in Nat)'
      BY <1>7, TotalPooledEtherNat, PTL
    <3>3. /\ shares' \in [Accounts -> Nat] /\ totalShares' \in Nat
          /\ SupplyOf(shares') = totalShares'
      BY <2>1, <2>2, <3>1, <3>2, DistributeFeeKeeps
    <3> QED BY <1>2, <2>1, <3>3 DEF TokenInv, StETHTypeOK, SharesSumToTotal
  <2>3. CASE UNCHANGED <<shares, totalShares>>
    BY <1>2, <2>1, <2>3 DEF TokenInv, StETHTypeOK, SharesSumToTotal
  <2> QED BY <1>2, <2>2, <2>3
<1> QED BY <1>2, <1>7, <1>8, RateLimitSame, ConfigSame DEF LidoInv

-----------------------------------------------------------------------------
(* Holders *)

\* Any call of a holder leaves the ether alone.
LEMMA HolderStepKeeps ==
    ASSUME LidoInv, HolderStep
    PROVE  LidoInv'
<1>1. TokenInv /\ TotalPooledEther \in Nat
  BY TotalPooledEtherNat DEF LidoInv
<1>2. ASSUME NEW from \in Holders, NEW to \in Accounts, NEW n \in TransferValues,
             MoveTokens(from, to, n)
      PROVE  TokenInv'
  <2>1. from \in Accounts /\ n \in Nat
    BY LidoAssumption DEF Holders
  <2> QED BY <1>1, <1>2, <2>1, MoveTokensKeeps
<1>3. ASSUME NEW owner \in Holders, NEW spender \in Spenders, NEW n \in AllowanceValues,
             ChangeAllowance(owner, spender, n)
      PROVE  TokenInv'
  <2>1. owner \in Accounts /\ spender \in Accounts /\ n \in Nat
    BY LidoAssumption DEF Holders
  <2> QED BY <1>1, <1>3, <2>1, ChangeAllowanceKeeps
<1>4. ASSUME NEW a \in BurnableAccounts, NEW n \in BurnValues, BurnShares(a, n)
      PROVE  TokenInv'
  <2>1. a \in Accounts /\ n \in Nat
    BY LidoAssumption
  <2> QED BY <1>1, <1>4, <2>1, BurnSharesKeeps
<1>5. TokenInv'
  BY <1>2, <1>3, <1>4 DEF HolderStep
<1>6. UNCHANGED <<rateLimitVars, etherVars, beaconVars, config>>
  BY DEF HolderStep
<1> QED BY <1>5, <1>6, RateLimitSame, EtherSame, ConfigSame DEF LidoInv

\* The recovery of the pool's own tokens is a transfer.
LEMMA RecoverStETHKeeps ==
    ASSUME LidoInv, RecoverStETH
    PROVE  LidoInv'
<1> DEFINE amount == BalanceOf(LidoAddress, TotalPooledEther)
<1>1. TokenInv /\ StETHTypeOK /\ TotalPooledEther \in Nat
  BY TotalPooledEtherNat DEF LidoInv, TokenInv
<1>2. LidoAddress \in Accounts /\ RecoveryVault \in Accounts
  BY LidoAssumption
<1>3. amount \in Nat
  <2>1. shares[LidoAddress] \in Nat /\ totalShares \in Nat
    BY <1>1, <1>2 DEF StETHTypeOK
  <2>2. shares[LidoAddress] * TotalPooledEther \in Nat
    BY <1>1, <2>1, TimesNat
  <2> QED BY <2>1, <2>2, DivNat DEF BalanceOf, PooledEthByShares
<1>4. /\ Transfer(LidoAddress, RecoveryVault, amount, TotalPooledEther)
      /\ UNCHANGED <<rateLimitVars, etherVars, beaconVars, config>>
  BY DEF RecoverStETH
<1>5. TokenInv'
  <2> HIDE DEF amount
  <2>1. MoveTokens(LidoAddress, RecoveryVault, amount)
    BY <1>4 DEF MoveTokens
  <2> QED BY <1>1, <1>2, <1>3, <2>1, MoveTokensKeeps
<1> QED BY <1>4, <1>5, RateLimitSame, EtherSame, ConfigSame DEF LidoInv

-----------------------------------------------------------------------------
(* Governance *)

\* Stopping and resuming touch the pause of staking and a flag.
LEMMA StopOrResumeKeeps ==
    ASSUME LidoInv, Stop \/ Resume
    PROVE  LidoInv'
<1>1. TokenInv'
  BY DEF LidoInv, Stop, Resume, TokenInv, StETHTypeOK, SharesSumToTotal, tokenVars
<1>2. RateLimitTypeOK'
  BY PauseStateKeeps DEF LidoInv, Stop, Resume
<1>3. UNCHANGED <<etherVars, beaconVars, config>>
  BY DEF Stop, Resume
<1> QED BY <1>1, <1>2, <1>3, EtherSame, ConfigSame DEF LidoInv

\* Settings stay within their bounds.
LEMMA ConfigureKeeps ==
    ASSUME LidoInv, Configure
    PROVE  LidoInv'
<1>1. config \in Config /\ DistributionOK
  BY DEF LidoInv, ConfigInv
<1>2. ASSUME NEW bp \in FeeValues, SetFee(bp) PROVE ConfigInv'
  BY <1>1, <1>2, LidoAssumption DEF SetFee, ConfigInv, Config, DistributionOK
<1>3. ASSUME NEW d \in FeeDistributions, SetFeeDistribution(d) PROVE ConfigInv'
  <2>1. d \in [treasury: Nat, insurance: Nat, operators: Nat]
    BY LidoAssumption
  <2>2. d.treasury + d.insurance + d.operators = TOTAL_BASIS_POINTS
    BY <1>3 DEF SetFeeDistribution
  <2>3. d \in [treasury: 0 .. TOTAL_BASIS_POINTS, insurance: 0 .. TOTAL_BASIS_POINTS,
               operators: 0 .. TOTAL_BASIS_POINTS]
    BY <2>1, <2>2, LidoAssumption
  <2> QED BY <1>1, <1>3, <2>2, <2>3, LidoAssumption
           DEF SetFeeDistribution, ConfigInv, Config, DistributionOK
<1>4. ASSUME NEW contracts \in ProtocolContracts, SetProtocolContracts(contracts)
      PROVE  ConfigInv'
  BY <1>1, <1>4 DEF SetProtocolContracts, ConfigInv, Config, DistributionOK
<1>5. ASSUME NEW nonZero \in CredentialChoices, SetWithdrawalCredentials(nonZero)
      PROVE  ConfigInv'
  BY <1>1, <1>5, LidoAssumption DEF SetWithdrawalCredentials, ConfigInv, Config, DistributionOK
<1>6. ASSUME NEW vault \in VaultChoices, SetELRewardsVault(vault) PROVE ConfigInv'
  BY <1>1, <1>6, LidoAssumption DEF SetELRewardsVault, ConfigInv, Config, DistributionOK
<1>7. ASSUME NEW bp \in RewardsLimits, SetELRewardsWithdrawalLimit(bp) PROVE ConfigInv'
  BY <1>1, <1>7, LidoAssumption
     DEF SetELRewardsWithdrawalLimit, ConfigInv, Config, DistributionOK
<1>8. ConfigInv'
  BY <1>2, <1>3, <1>4, <1>5, <1>6, <1>7 DEF Configure
<1>9. UNCHANGED <<tokenVars, active, rateLimitVars, etherVars, beaconVars>>
  BY DEF Configure
<1> QED BY <1>8, <1>9, TokenSame, RateLimitSame, EtherSame DEF LidoInv

-----------------------------------------------------------------------------
(* The invariant *)

\* The invariant holds after deployment.
LEMMA LidoInit == Init => LidoInv
<1> SUFFICES ASSUME Init PROVE LidoInv
  OBVIOUS
<1>1. TokenInv
  <2>1. shares = [a \in Accounts |-> 0] /\ totalShares = 0
    BY DEF Init, EmptyPool, StETHInit, NoShares
  <2>2. SupplyOf(shares) = 0
    BY <2>1, SupplyNone
  <2>3. shares \in [Accounts -> Nat] /\ totalShares \in Nat
    BY <2>1
  <2>4. allowances \in [Accounts -> [Accounts -> Nat]] /\ active \in BOOLEAN
    BY DEF Init, EmptyPool, StETHInit
  <2> QED BY <2>1, <2>2, <2>3, <2>4 DEF TokenInv, StETHTypeOK, SharesSumToTotal
<1>2. RateLimitTypeOK
  BY RateLimitAssumption DEF Init, EmptyPool, RateLimitInit, RateLimitTypeOK, StakeLimitData,
                             EmptyStakeLimit
<1>3. EtherInv
  BY LidoAssumption DEF Init, EmptyPool, EtherInv, EtherTypeOK, BooksAreCovered
<1>4. ConfigInv
  BY LidoAssumption DEF Init, Unconfigured, ConfigInv, Config, DistributionOK
<1> QED BY <1>1, <1>2, <1>3, <1>4 DEF LidoInv

\* Every call keeps the invariant: one case per action of Next.
LEMMA LidoNext == LidoInv /\ [Next]_lidoVars => LidoInv'
<1> SUFFICES ASSUME LidoInv, [Next]_lidoVars PROVE LidoInv'
  OBVIOUS
<1>1. ASSUME NEW staker \in Holders, NEW value \in Amounts, Submit(staker, value)
      PROVE  LidoInv'
  BY <1>1, SubmitKeeps
<1>2. ASSUME NEW value \in Amounts, ForceEther(value) PROVE LidoInv'
  BY <1>2, ForceEtherKeeps
<1>3. ASSUME NEW vault \in Vaults, NEW value \in Amounts, PayVault(vault, value)
      PROVE  LidoInv'
  BY <1>3, PayVaultKeeps
<1>4. CASE HolderStep
  BY <1>4, HolderStepKeeps
<1>5. ASSUME NEW maxDeposits \in 0 .. MaxDeposits, NEW keys \in 0 .. maxDeposits,
             DepositBufferedEther(maxDeposits, keys)
      PROVE  LidoInv'
  <2>1. maxDeposits \in Nat /\ keys \in Nat
    OBVIOUS
  <2> QED BY <1>5, <2>1, DepositBufferedEtherKeeps
<1>6. ASSUME NEW p \in ProtocolContracts, NEW validators \in 0 .. depositedValidators + 1,
             NEW reported \in 0 .. MaxBeaconBalance,
             HandleOracleReport(p.oracle, validators, reported)
      PROVE  LidoInv'
  <2>1. validators \in Nat /\ reported \in Nat
    OBVIOUS
  <2> QED BY <1>6, <2>1, HandleOracleReportKeeps
<1>7. CASE Stop \/ Resume
  BY <1>7, StopOrResumeKeeps
<1>8. CASE StakingControl
  <2>1. UNCHANGED <<tokenVars, active, etherVars, beaconVars, config>>
    BY <1>8 DEF StakingControl
  <2> QED BY <1>8, <2>1, StakingControlKeeps, TokenSame, EtherSame, ConfigSame DEF LidoInv
<1>9. CASE Configure
  BY <1>9, ConfigureKeeps
<1>10. CASE RecoverEther
  BY <1>10, RecoverEtherKeeps
<1>11. CASE RecoverStETH
  BY <1>11, RecoverStETHKeeps
<1>12. CASE UNCHANGED lidoVars
  <2>1. UNCHANGED <<tokenVars, active, rateLimitVars, etherVars, beaconVars, config>>
    BY <1>12 DEF lidoVars
  <2> QED BY <2>1, TokenSame, RateLimitSame, EtherSame, ConfigSame DEF LidoInv
<1> QED BY <1>1, <1>2, <1>3, <1>4, <1>5, <1>6, <1>7, <1>8, <1>9, <1>10, <1>11, <1>12 DEF Next

-----------------------------------------------------------------------------
\* The variables of Lido keep their types: no subtraction of the contract goes
\* below zero, whatever governance, stakers and the oracle do.
THEOREM LidoTypeCorrect == Spec => []LidoTypeOK
<1>1. LidoInv => LidoTypeOK
  BY DEF LidoInv, TokenInv, EtherInv, EtherTypeOK, ConfigInv, LidoTypeOK
<1> QED BY LidoInit, LidoNext, <1>1, PTL DEF Spec

\* The shares of all accounts add up to TOTAL_SHARES_POSITION, however many
\* accounts there are and whoever the recipients of the fee are.
THEOREM LidoSharesSumToTotal == Spec => []SharesSumToTotal
<1>1. LidoInv => SharesSumToTotal
  BY DEF LidoInv, TokenInv
<1> QED BY LidoInit, LidoNext, <1>1, PTL DEF Spec

\* The buffer is covered by the ether of the contract, and validators on the
\* beacon chain were deposited: the asserts of the two views never fail.
THEOREM LidoBooksAreCovered == Spec => []BooksAreCovered
<1>1. LidoInv => BooksAreCovered
  BY DEF LidoInv, EtherInv
<1> QED BY LidoInit, LidoNext, <1>1, PTL DEF Spec

-----------------------------------------------------------------------------
(* Arithmetic *)

\* Products distribute.
LEMMA TimesDistributes ==
    ASSUME NEW a \in Int, NEW b \in Int, NEW c \in Int
    PROVE  /\ (a + b) * c = a * c + b * c
           /\ (a - b) * c = a * c - b * c
           /\ a * b = b * a
           /\ a * b \in Int
OBVIOUS

\* What is multiplied by a positive number keeps its order.
LEMMA TimesCancels ==
    ASSUME NEW a \in Nat, NEW b \in Nat, NEW c \in Nat, c > 0, a * c <= b * c
    PROVE  a <= b
<1> SUFFICES ASSUME a > b PROVE FALSE
  OBVIOUS
<1>1. (b + 1) * c <= a * c
  BY TimesMonotone
<1>2. (b + 1) * c = b * c + c
  OBVIOUS
<1>3. a * c \in Nat /\ b * c \in Nat
  BY TimesNat
<1> QED BY <1>1, <1>2, <1>3

\* A quotient is at least what fits.
LEMMA DivAtLeast ==
    ASSUME NEW a \in Nat, NEW b \in Nat, b > 0, NEW q \in Nat, q * b <= a
    PROVE  q <= a \div b
<1> SUFFICES ASSUME q > a \div b PROVE FALSE
  BY DivNat
<1> DEFINE d == a \div b
<1>1. d \in Nat /\ a < (d + 1) * b
  OBVIOUS
<1>2. (d + 1) * b <= q * b
  BY <1>1, TimesMonotone
<1>3. q * b \in Nat /\ (d + 1) * b \in Nat
  BY <1>1, TimesNat
<1> HIDE DEF d
<1> QED BY <1>1, <1>2, <1>3

\* If m new shares are at most the quotient that _distributeFee computes, they
\* cost after they are minted no more than the part f / b of the rewards ...
LEMMA FeeCosts ==
    ASSUME NEW m \in Nat, NEW p \in Nat, NEW b \in Nat, NEW f \in Nat, NEW r \in Nat,
           NEW t \in Nat, m * (p * b - f * r) <= (r * f) * t
    PROVE  (m * p) * b <= (f * r) * (t + m)
<1>1. m * (p * b - f * r) = m * (p * b) - m * (f * r)
  OBVIOUS
<1>2. m * (p * b) = (m * p) * b
  OBVIOUS
<1>3. (f * r) * (t + m) = (f * r) * t + (f * r) * m
  OBVIOUS
<1>4. (r * f) * t = (f * r) * t /\ m * (f * r) = (f * r) * m
  OBVIOUS
<1>5. /\ m * (p * b) \in Nat /\ m * (f * r) \in Nat
      /\ (f * r) * t \in Nat /\ (f * r) * m \in Nat
  BY TimesNat
<1> QED
  <2> DEFINE x == m * (p * b)
             y == (f * r) * m
             z == (f * r) * t
  <2>1. x - y <= z
    BY <1>1, <1>4
  <2>2. (m * p) * b = x /\ (f * r) * (t + m) = z + y
    BY <1>2, <1>3
  <2>3. x \in Nat /\ y \in Nat /\ z \in Nat
    BY <1>5
  <2> HIDE DEF x, y, z
  <2> QED BY <2>1, <2>2, <2>3

\* ... and so a share is worth no less than before: p is the pooled ether after
\* the rewards r, and f / b is at most one.
LEMMA FeeDilutes ==
    ASSUME NEW m \in Nat, NEW p \in Nat, NEW b \in Nat, NEW f \in Nat, NEW r \in Nat,
           NEW t \in Nat, r <= p, f <= b, b > 0, (m * p) * b <= (f * r) * (t + m)
    PROVE  p * t >= (p - r) * (t + m)
<1>1. (f * r) * (t + m) <= (b * r) * (t + m)
  <2>1. f * r <= b * r /\ f * r \in Nat /\ b * r \in Nat /\ t + m \in Nat
    BY TimesMonotone, TimesNat
  <2> QED BY <2>1, TimesMonotone
<1>2. (b * r) * (t + m) = (r * (t + m)) * b
  OBVIOUS
<1>3. (m * p) * b <= (r * (t + m)) * b
  <2>1. (m * p) * b \in Nat /\ (f * r) * (t + m) \in Nat /\ (r * (t + m)) * b \in Nat
    BY TimesNat
  <2> QED BY <1>1, <1>2, <2>1
<1>4. m * p <= r * (t + m)
  BY <1>3, TimesNat, TimesCancels
<1>5. /\ (p - r) * (t + m) = p * (t + m) - r * (t + m)
      /\ p * (t + m) = p * t + m * p
  OBVIOUS
<1>6. m * p \in Nat /\ r * (t + m) \in Nat /\ p * t \in Nat /\ p * (t + m) \in Nat
  BY TimesNat
<1> QED BY <1>4, <1>5, <1>6

\* Shares that are worth at most n tokens take at most n off a balance.
LEMMA BalanceFallsAtMost ==
    ASSUME NEW s \in Nat, NEW m \in Nat, NEW n \in Nat, NEW tp \in Nat, NEW t \in Nat,
           t > 0, m <= s, m * tp <= n * t
    PROVE  (s * tp) \div t <= ((s - m) * tp) \div t + n
<1> DEFINE q == (s * tp) \div t
           d == ((s - m) * tp) \div t
<1>1. s * tp \in Nat /\ m * tp \in Nat /\ (s - m) * tp \in Nat /\ n * t \in Nat /\ s - m \in Nat
  BY TimesNat
<1>2. q \in Nat /\ q * t <= s * tp /\ d \in Nat
  BY <1>1, DivNat
<1>3. (s - m) * tp = s * tp - m * tp
  BY TimesDistributes
<1>4. CASE q <= n
  BY <1>2, <1>4
<1>5. CASE q > n
  <2>1. q - n \in Nat
    BY <1>2, <1>5
  <2>2. (q - n) * t = q * t - n * t
    BY <1>2, TimesDistributes
  <2>3. q * t \in Nat
    BY <1>2, TimesNat
  <2>4. (q - n) * t <= (s - m) * tp
    <3> HIDE DEF q
    <3> QED BY <1>1, <1>2, <1>3, <2>2, <2>3
  <2>5. q - n <= d
    BY <1>1, <2>1, <2>4, DivAtLeast
  <2> QED BY <1>2, <2>5
<1> QED BY <1>2, <1>4, <1>5

-----------------------------------------------------------------------------
(* The pooled ether *)

\* What TotalPooledEther depends on.
pooledVars == <<bufferedEther, beaconBalance, depositedValidators, beaconValidators>>

\* A step that writes none of its parts leaves the pooled ether alone.
LEMMA PooledSame ==
    ASSUME UNCHANGED pooledVars
    PROVE  UNCHANGED TotalPooledEther
BY DEF pooledVars, TotalPooledEther, TransientBalance

\* A deposit moves ether from the buffer to the beacon chain, inside the pool.
LEMMA DepositKeepsPooled ==
    ASSUME EtherInv, NEW maxDeposits, NEW keys \in Nat, DepositBufferedEther(maxDeposits, keys)
    PROVE  UNCHANGED TotalPooledEther
<1> DEFINE transient == depositedValidators - beaconValidators
<1>1. DEPOSIT_SIZE \in Nat /\ transient \in Int
  BY LidoAssumption DEF EtherInv, EtherTypeOK
<1>2. /\ bufferedEther' = bufferedEther - keys * DEPOSIT_SIZE
      /\ depositedValidators' = depositedValidators + keys
      /\ UNCHANGED <<beaconValidators, beaconBalance>>
  BY DEF DepositBufferedEther, MarkAsUnbuffered
<1>3. /\ depositedValidators' - beaconValidators' = transient + keys
      /\ bufferedEther \in Nat /\ beaconBalance \in Nat
  BY <1>2 DEF EtherInv, EtherTypeOK
<1>4. /\ (transient + keys) * DEPOSIT_SIZE = transient * DEPOSIT_SIZE + keys * DEPOSIT_SIZE
      /\ transient * DEPOSIT_SIZE \in Int /\ keys * DEPOSIT_SIZE \in Int
  BY <1>1, TimesDistributes
<1>5. TotalPooledEther' = (bufferedEther - keys * DEPOSIT_SIZE) + beaconBalance
                            + (transient + keys) * DEPOSIT_SIZE
  BY <1>2, <1>3 DEF TotalPooledEther, TransientBalance
<1>6. TotalPooledEther = bufferedEther + beaconBalance + transient * DEPOSIT_SIZE
  BY DEF TotalPooledEther, TransientBalance
<1> HIDE DEF transient
<1> QED BY <1>3, <1>4, <1>5, <1>6

\* What a report does to the variables the proofs below are about.
ReportStep(validators, reported, elRewards) ==
    /\ active
    /\ elRewards \in Nat
    /\ validators >= beaconValidators
    /\ bufferedEther' = bufferedEther + elRewards
    /\ balance' = balance + elRewards
    /\ totalELRewards' = totalELRewards + elRewards
    /\ beaconBalance' = reported
    /\ beaconValidators' = validators
    /\ UNCHANGED <<allowances, active, depositedValidators, outside, config>>
    /\ \/ /\ reported > RewardBase(validators)
          /\ DistributeFee(reported - RewardBase(validators) + elRewards, TotalPooledEther')
       \/ /\ reported <= RewardBase(validators)
          /\ UNCHANGED <<shares, totalShares>>

\* A report is such a step, for some rewards of the vault.
LEMMA ReportIsStep ==
    ASSUME LidoInv, NEW caller, NEW validators \in Nat, NEW reported \in Nat,
           HandleOracleReport(caller, validators, reported)
    PROVE  \E elRewards \in Nat : ReportStep(validators, reported, elRewards)
<1> DEFINE asked == bufferedEther + reported + (depositedValidators - validators) * DEPOSIT_SIZE
           elRewards == ELRewardsFor(asked)
<1>1. EtherInv /\ ConfigInv
  BY DEF LidoInv
<1>2. asked \in Nat
  <2>1. DEPOSIT_SIZE \in Nat /\ depositedValidators - validators \in Nat /\ bufferedEther \in Nat
    BY <1>1, LidoAssumption DEF EtherInv, EtherTypeOK, HandleOracleReport
  <2>2. (depositedValidators - validators) * DEPOSIT_SIZE \in Nat
    BY <2>1, TimesNat
  <2> QED BY <2>1, <2>2
<1>3. elRewards \in Nat
  <2> HIDE DEF asked
  <2> QED BY <1>1, <1>2, ELRewardsWithinVault
<1>4. ReportStep(validators, reported, elRewards)
  BY <1>3 DEF HandleOracleReport, ReportStep
<1> QED BY <1>3, <1>4

\* The pool grows by the profit and the rewards.
LEMMA ReportMovesPooled ==
    ASSUME EtherInv, NEW validators \in Nat, NEW reported \in Nat, NEW elRewards,
           ReportStep(validators, reported, elRewards)
    PROVE  /\ RewardBase(validators) \in Nat
           /\ RewardBase(validators) >= beaconBalance
           /\ TotalPooledEther'
                = TotalPooledEther + ((reported - RewardBase(validators)) + elRewards)
<1> DEFINE seen == validators - beaconValidators
           unseen == depositedValidators - validators
           d == DEPOSIT_SIZE
<1>1. /\ {bufferedEther, beaconBalance, depositedValidators, beaconValidators} \subseteq Nat
      /\ elRewards \in Nat /\ d \in Nat /\ seen \in Nat /\ unseen \in Int
  BY LidoAssumption DEF EtherInv, EtherTypeOK, ReportStep
<1>2. /\ (seen + unseen) * d = seen * d + unseen * d
      /\ seen * d \in Nat /\ unseen * d \in Int
  <2> HIDE DEF seen, unseen, d
  <2> QED BY <1>1, TimesDistributes, TimesNat
<1>3. seen + unseen = depositedValidators - beaconValidators
  BY <1>1
<1>4. TotalPooledEther = bufferedEther + beaconBalance + (seen + unseen) * d
  BY <1>3 DEF TotalPooledEther, TransientBalance
<1>5. TotalPooledEther' = (bufferedEther + elRewards) + reported + unseen * d
  BY DEF ReportStep, TotalPooledEther, TransientBalance
<1>6. RewardBase(validators) = seen * d + beaconBalance
  BY DEF RewardBase
<1> HIDE DEF seen, unseen, d
<1> QED BY <1>1, <1>2, <1>4, <1>5, <1>6

\* What the fee of a report is: the quotient of _distributeFee, and nobody loses.
LEMMA DistributeFeeMints ==
    ASSUME TokenInv, ConfigInv, NEW rewards \in Nat, NEW pooled \in Nat,
           DistributeFee(rewards, pooled)
    PROVE  \E minted \in Nat :
             /\ totalShares' = totalShares + minted
             /\ minted * (pooled * TOTAL_BASIS_POINTS - config.fee * rewards)
                  <= (rewards * config.fee) * totalShares
             /\ \A a \in Accounts : shares'[a] >= shares[a]
<1> DEFINE minted == SharesForFee(rewards, pooled)
           d == config.feeDistribution
           top == (rewards * config.fee) * totalShares
           bottom == pooled * TOTAL_BASIS_POINTS - config.fee * rewards
<1>1. shares \in [Accounts -> Nat] /\ totalShares \in Nat
  BY DEF TokenInv, StETHTypeOK
<1>2. /\ config.fee \in Nat
      /\ d.treasury \in Nat /\ d.insurance \in Nat /\ d.operators \in Nat
      /\ d.insurance + d.operators <= TOTAL_BASIS_POINTS
  BY LidoAssumption DEF ConfigInv, Config, DistributionOK
<1>3. minted \in Nat /\ minted * bottom <= top
  <2>1. top \in Nat
    BY <1>1, <1>2, TimesNat
  <2>2. pooled * TOTAL_BASIS_POINTS \in Nat /\ config.fee * rewards \in Nat
    BY <1>2, TimesNat, LidoAssumption
  <2>3. pooled * TOTAL_BASIS_POINTS > config.fee * rewards
    BY DEF DistributeFee
  <2>4. bottom \in Nat /\ bottom > 0
    BY <2>2, <2>3
  <2>5. minted = top \div bottom
    BY DEF SharesForFee
  <2> HIDE DEF minted, top, bottom
  <2> QED BY <2>1, <2>4, <2>5, DivNat
<1>4. PICK r \in OperatorRewards(Portion(minted, d.operators)) :
          shares' = [a \in Accounts |-> shares[a] + FeeTo(a, minted, r)]
  BY DEF DistributeFee
<1>5. totalShares' = totalShares + minted
  BY DEF DistributeFee
<1> HIDE DEF minted
<1>6. Portion(minted, d.operators) \in Nat /\ ToInsurance(minted) \in Nat
  BY <1>2, <1>3, PortionNat DEF ToInsurance
<1>7. /\ r \in [OperatorAccounts -> Nat]
      /\ SupplyOf(r) \in Nat
      /\ SupplyOf(r) <= Portion(minted, d.operators)
  BY <1>6, OperatorRewardsType
<1>8. ToInsurance(minted) + Portion(minted, d.operators) <= minted
  BY <1>2, <1>3, PortionsWithinWhole DEF ToInsurance
<1>9. ToInsurance(minted) + SupplyOf(r) <= minted
  BY <1>3, <1>6, <1>7, <1>8
<1>10. [a \in Accounts |-> FeeTo(a, minted, r)] \in [Accounts -> Nat]
  BY <1>3, <1>6, <1>7, <1>9, FeeToLedger
<1>11. \A a \in Accounts : FeeTo(a, minted, r) \in Nat
  BY <1>10
<1>12. \A a \in Accounts : shares'[a] >= shares[a]
  BY <1>1, <1>4, <1>11
<1> QED BY <1>3, <1>5, <1>12

-----------------------------------------------------------------------------
(* The steps that matter to the properties below *)

\* A report with a profit distributes a fee, without one nobody's shares move.
LEMMA ReportProfits ==
    ASSUME LidoInv, LidoInv', NEW validators \in Nat, NEW reported \in Nat, NEW elRewards,
           ReportStep(validators, reported, elRewards), reported > RewardBase(validators)
    PROVE  /\ TotalPooledEther' > TotalPooledEther
           /\ beaconBalance' # beaconBalance
           /\ \A a \in Accounts : shares'[a] >= shares[a]
           /\ (totalShares' - totalShares) * TotalPooledEther' * TOTAL_BASIS_POINTS
                <= config.fee * (TotalPooledEther' - TotalPooledEther) * totalShares'
           /\ TotalPooledEther' * totalShares >= TotalPooledEther * totalShares'
<1> DEFINE profit == (reported - RewardBase(validators)) + elRewards
           before == TotalPooledEther
           after == TotalPooledEther'
           b == TOTAL_BASIS_POINTS
<1>1. EtherInv /\ TokenInv /\ ConfigInv
  BY DEF LidoInv
<1>2. /\ RewardBase(validators) \in Nat
      /\ RewardBase(validators) >= beaconBalance
      /\ after = before + profit
  BY <1>1, ReportMovesPooled
<1>3. before \in Nat /\ after \in Nat
  <2>1. before \in Nat
    BY <1>1, TotalPooledEtherNat
  <2>2. (EtherInv => TotalPooledEther \in Nat)'
    BY TotalPooledEtherNat, PTL
  <2> QED BY <2>1, <2>2 DEF LidoInv
<1>4. elRewards \in Nat /\ beaconBalance' = reported /\ beaconBalance \in Nat
  BY <1>1 DEF ReportStep, EtherInv, EtherTypeOK
<1>5. profit \in Nat /\ profit > 0
  BY <1>2, <1>4
<1>6. DistributeFee(profit, after)
  <2>1. ~(reported <= RewardBase(validators))
    BY <1>2
  <2> QED BY <2>1 DEF ReportStep
<1>7. b \in Nat /\ b > 0 /\ config.fee \in Nat /\ config.fee <= b
  BY <1>1, LidoAssumption DEF ConfigInv, Config
<1> HIDE DEF profit, before, after, b
<1>8. PICK minted \in Nat :
        /\ totalShares' = totalShares + minted
        /\ minted * (after * b - config.fee * profit) <= (profit * config.fee) * totalShares
        /\ \A a \in Accounts : shares'[a] >= shares[a]
  BY <1>1, <1>3, <1>5, <1>6, DistributeFeeMints DEF b
<1>9. totalShares \in Nat
  BY <1>1 DEF TokenInv, StETHTypeOK
<1>10. (minted * after) * b <= (config.fee * profit) * (totalShares + minted)
  BY <1>3, <1>5, <1>7, <1>8, <1>9, FeeCosts
<1>11. after * totalShares >= (after - profit) * (totalShares + minted)
  <2>1. profit <= after
    BY <1>2, <1>3, <1>5
  <2> QED BY <1>3, <1>5, <1>7, <1>9, <1>10, <2>1, FeeDilutes
<1>12. after - profit = before /\ after - before = profit /\ totalShares' - totalShares = minted
  BY <1>2, <1>3, <1>5, <1>8, <1>9
<1>13. after > before /\ beaconBalance' # beaconBalance
  BY <1>2, <1>3, <1>4, <1>5 DEF profit
<1> QED BY <1>8, <1>10, <1>11, <1>12, <1>13 DEF before, after, b

-----------------------------------------------------------------------------
(* The pool of claims *)

\* What the pool of RebasingPool sees of Lido.
visible == <<TotalPooledEther, beaconValidators, beaconBalance, totalELRewards, shares, active>>

\* The pool sums claims as the token sums shares.
LEMMA PoolSupply ==
    ASSUME NEW f
    PROVE  Pool!SupplyOf(f) = SupplyOf(f)
BY DEF Pool!SupplyOf, Pool!Units, Pool!UnitsOf, Pool!Cardinality, SupplyOf, Units, UnitsOf, Cardinality

\* All the claims are the shares that are counted.
LEMMA PoolClaims ==
    ASSUME TokenInv
    PROVE  Pool!AllClaims = totalShares
BY PoolSupply DEF Pool!AllClaims, TokenInv, SharesSumToTotal

\* A step that changes nothing of the pool is not seen.
LEMMA PoolSame ==
    ASSUME UNCHANGED visible
    PROVE  UNCHANGED Pool!poolVars
BY DEF visible, Pool!poolVars

\* Before anything happened the pool is empty.
LEMMA PoolInitial ==
    ASSUME Init
    PROVE  Pool!PoolInit
<1>1. TotalPooledEther = 0
  <2>1. /\ bufferedEther = 0 /\ beaconBalance = 0
        /\ depositedValidators = 0 /\ beaconValidators = 0
    BY DEF Init, EmptyPool
  <2>2. DEPOSIT_SIZE \in Nat
    BY LidoAssumption
  <2> QED BY <2>1, <2>2 DEF TotalPooledEther, TransientBalance
<1>2. /\ beaconValidators = 0 /\ beaconBalance = 0 /\ totalELRewards = 0
      /\ shares = [a \in Accounts |-> 0] /\ active = FALSE
  BY DEF Init, EmptyPool, StETHInit, NoShares
<1> QED BY <1>1, <1>2 DEF Pool!PoolInit

\* submit is a purchase of claims.
LEMMA SubmitIsStake ==
    ASSUME LidoInv, NEW staker \in Holders, NEW value \in Amounts, Submit(staker, value)
    PROVE  Pool!Stake(staker)
<1> DEFINE converted == SharesByPooledEth(value, TotalPooledEther)
<1>1. /\ value \in Nat /\ value # 0 /\ active
      /\ bufferedEther' = bufferedEther + value
      /\ shares' = [shares EXCEPT ![staker] = @ + (IF converted = 0 THEN value ELSE converted)]
      /\ UNCHANGED <<active, beaconVars, totalELRewards>>
  BY RateLimitAssumption DEF Submit, TakeStake, MintShares
<1>2. TotalPooledEther \in Nat /\ TokenInv
  BY TotalPooledEtherNat DEF LidoInv
<1>3. TotalPooledEther' = TotalPooledEther + value
  <2>1. /\ bufferedEther \in Nat /\ beaconBalance \in Nat /\ TransientBalance \in Int
    <3>1. /\ DEPOSIT_SIZE \in Int /\ depositedValidators - beaconValidators \in Int
      BY LidoAssumption DEF LidoInv, EtherInv, EtherTypeOK
    <3> QED BY <3>1, TimesDistributes DEF TransientBalance, LidoInv, EtherInv, EtherTypeOK
  <2>2. UNCHANGED <<beaconBalance, TransientBalance>>
    BY <1>1 DEF beaconVars, TransientBalance
  <2> QED BY <1>1, <2>1, <2>2 DEF TotalPooledEther
<1>4. TotalPooledEther' > TotalPooledEther /\ TotalPooledEther' - TotalPooledEther = value
  BY <1>1, <1>2, <1>3
<1>5. converted = IF TotalPooledEther = 0 THEN 0
                  ELSE (value * Pool!AllClaims) \div TotalPooledEther
  BY <1>2, PoolClaims DEF SharesByPooledEth
<1> QED BY <1>1, <1>4, <1>5 DEF Pool!Stake, beaconVars

\* Shares that move are an exchange of claims.
LEMMA MoveIsExchange ==
    ASSUME LidoInv, NEW from \in Accounts, NEW to \in Accounts, NEW n \in Nat,
           MoveShares(from, to, n), UNCHANGED <<active, etherVars, beaconVars>>
    PROVE  Pool!Exchange(from, to)
<1>1. UNCHANGED TotalPooledEther
  BY PooledSame DEF pooledVars, etherVars, beaconVars
<1>2. shares[from] \in Nat
  BY DEF LidoInv, TokenInv, StETHTypeOK
<1>3. n \in 0 .. shares[from]
  BY <1>2 DEF MoveShares
<1> QED BY <1>1, <1>3 DEF Pool!Exchange, MoveShares, Moved, etherVars, beaconVars

\* Every call of a holder is an exchange, or gives claims up, or is not seen.
LEMMA HolderStepIsPoolStep ==
    ASSUME LidoInv, HolderStep
    PROVE  Pool!PoolNext \/ UNCHANGED Pool!poolVars
<1>1. UNCHANGED <<etherVars, beaconVars>>
  BY DEF HolderStep
<1>2. UNCHANGED TotalPooledEther
  BY <1>1, PooledSame DEF pooledVars, etherVars, beaconVars
<1>3. StETHTypeOK /\ TotalPooledEther \in Nat
  BY TotalPooledEtherNat DEF LidoInv, TokenInv
<1>4. ASSUME NEW from \in Holders, NEW to \in Accounts, NEW n \in TransferValues,
             MoveTokens(from, to, n)
      PROVE  Pool!PoolNext
  <2>1. from \in Accounts /\ n \in Nat
    BY LidoAssumption DEF Holders
  <2>2. SharesByPooledEth(n, TotalPooledEther) \in Nat
    BY <1>3, <2>1, SharesByPooledEthNat
  <2>3. \E m \in Nat : MoveShares(from, to, m) /\ UNCHANGED active
    BY <1>4, <2>1, <2>2 DEF MoveTokens, Transfer, TransferShares, TransferFrom
  <2>4. Pool!Exchange(from, to)
    BY <1>1, <2>1, <2>3, MoveIsExchange
  <2> QED BY <2>1, <2>4 DEF Pool!PoolNext
<1>5. ASSUME NEW owner \in Holders, NEW spender \in Spenders, NEW n \in AllowanceValues,
             ChangeAllowance(owner, spender, n)
      PROVE  UNCHANGED Pool!poolVars
  <2>1. UNCHANGED <<shares, active>>
    BY <1>5 DEF ChangeAllowance, Approve, IncreaseAllowance, DecreaseAllowance
  <2> QED BY <1>1, <1>2, <2>1, PoolSame DEF visible, etherVars, beaconVars
<1>6. ASSUME NEW a \in BurnableAccounts, NEW n \in BurnValues, BurnShares(a, n)
      PROVE  Pool!PoolNext
  <2>1. a \in Accounts /\ n \in Nat
    BY LidoAssumption
  <2>2. n \in 0 .. shares[a]
    BY <1>3, <1>6, <2>1 DEF BurnShares, StETHTypeOK
  <2>3. Pool!GiveUp(a)
    BY <1>1, <1>2, <1>6, <2>2 DEF BurnShares, Pool!GiveUp, etherVars, beaconVars
  <2> QED BY <2>1, <2>3 DEF Pool!PoolNext
<1> QED BY <1>4, <1>5, <1>6 DEF HolderStep

\* A report is news: with a profit, without one, or none at all.
LEMMA ReportIsPoolStep ==
    ASSUME LidoInv, LidoInv', NEW validators \in Nat, NEW reported \in Nat, NEW elRewards,
           ReportStep(validators, reported, elRewards)
    PROVE  Pool!PoolNext \/ UNCHANGED Pool!poolVars
<1> DEFINE base == RewardBase(validators)
<1>1. EtherInv /\ TokenInv /\ active /\ UNCHANGED active
  BY DEF LidoInv, ReportStep
<1>2. base \in Nat /\ base >= beaconBalance
      /\ TotalPooledEther' = TotalPooledEther + ((reported - base) + elRewards)
  BY <1>1, ReportMovesPooled
<1>3. CASE reported > base
  <2>1. /\ TotalPooledEther' > TotalPooledEther
        /\ beaconBalance' # beaconBalance
        /\ \A a \in Accounts : shares'[a] >= shares[a]
        /\ TotalPooledEther' * totalShares >= TotalPooledEther * totalShares'
    BY <1>3, ReportProfits
  <2>2. Pool!AllClaims = totalShares
    BY <1>1, PoolClaims
  <2>3. Pool!SupplyOf(shares') = totalShares'
    <3>1. SupplyOf(shares') = totalShares'
      BY DEF LidoInv, TokenInv, SharesSumToTotal
    <3> QED BY <3>1, PoolSupply
  <2>4. Pool!Profit
    BY <1>1, <2>1, <2>2, <2>3 DEF Pool!Profit
  <2> QED BY <2>4 DEF Pool!PoolNext
<1>4. CASE reported <= base /\ UNCHANGED shares
  <2>1. CASE UNCHANGED <<beaconValidators, beaconBalance, totalELRewards>>
    <3>1. /\ beaconBalance \in Nat /\ bufferedEther \in Nat /\ totalELRewards \in Nat
          /\ elRewards \in Nat /\ totalELRewards' = totalELRewards + elRewards
          /\ bufferedEther' = bufferedEther + elRewards /\ UNCHANGED depositedValidators
      BY <1>1 DEF EtherInv, EtherTypeOK, ReportStep
    <3>2. UNCHANGED pooledVars
      BY <2>1, <3>1 DEF pooledVars
    <3>3. UNCHANGED visible
      BY <1>1, <1>4, <2>1, <3>2, PooledSame DEF visible
    <3> QED BY <3>3, PoolSame
  <2>2. CASE ~UNCHANGED <<beaconValidators, beaconBalance, totalELRewards>>
    <3>1. Pool!Rebase
      BY <1>1, <1>4, <2>2 DEF Pool!Rebase
    <3> QED BY <3>1 DEF Pool!PoolNext
  <2> QED BY <2>1, <2>2
<1>5. reported > base \/ (reported <= base /\ UNCHANGED shares)
  BY <1>2 DEF ReportStep
<1> QED BY <1>3, <1>4, <1>5

\* Every step of Lido is a step of the pool, or is not seen.
LEMMA PoolStep ==
    ASSUME LidoInv, LidoInv', [Next]_lidoVars
    PROVE  [Pool!PoolNext]_(Pool!poolVars)
<1>1. ASSUME NEW staker \in Holders, NEW value \in Amounts, Submit(staker, value)
      PROVE  Pool!PoolNext
  <2>1. staker \in Accounts
    BY DEF Holders
  <2> QED BY <1>1, <2>1, SubmitIsStake DEF Pool!PoolNext
<1>2. CASE HolderStep
  BY <1>2, HolderStepIsPoolStep
<1>3. ASSUME NEW maxDeposits \in 0 .. MaxDeposits, NEW keys \in 0 .. maxDeposits,
             DepositBufferedEther(maxDeposits, keys)
      PROVE  UNCHANGED Pool!poolVars
  <2>1. keys \in Nat /\ EtherInv
    BY DEF LidoInv
  <2>2. UNCHANGED TotalPooledEther
    BY <1>3, <2>1, DepositKeepsPooled
  <2>3. UNCHANGED visible
    BY <1>3, <2>2 DEF DepositBufferedEther, visible, tokenVars
  <2> QED BY <2>3, PoolSame
<1>4. ASSUME NEW p \in ProtocolContracts, NEW validators \in 0 .. depositedValidators + 1,
             NEW reported \in 0 .. MaxBeaconBalance,
             HandleOracleReport(p.oracle, validators, reported)
      PROVE  Pool!PoolNext \/ UNCHANGED Pool!poolVars
  <2>1. validators \in Nat /\ reported \in Nat
    OBVIOUS
  <2>2. \E elRewards \in Nat : ReportStep(validators, reported, elRewards)
    BY <1>4, <2>1, ReportIsStep
  <2> QED BY <2>1, <2>2, ReportIsPoolStep
<1>5. CASE Stop \/ Resume
  <2>1. UNCHANGED TotalPooledEther
    BY <1>5, PooledSame DEF Stop, Resume, pooledVars, etherVars, beaconVars
  <2>2. active' = ~active /\ UNCHANGED <<shares, beaconValidators, beaconBalance, totalELRewards>>
    BY <1>5 DEF Stop, Resume, tokenVars, etherVars, beaconVars, LidoInv, TokenInv, StETHTypeOK
  <2>3. Pool!StopOrResume
    BY <2>1, <2>2 DEF Pool!StopOrResume
  <2> QED BY <2>3 DEF Pool!PoolNext
<1>6. CASE RecoverStETH
  <2> DEFINE n == SharesByPooledEth(BalanceOf(LidoAddress, TotalPooledEther), TotalPooledEther)
  <2>1. /\ LidoAddress \in Accounts /\ RecoveryVault \in Accounts
        /\ MoveShares(LidoAddress, RecoveryVault, n)
        /\ UNCHANGED <<active, etherVars, beaconVars>>
    BY <1>6, LidoAssumption DEF RecoverStETH, Transfer
  <2>2. n \in Nat
    <3>1. /\ StETHTypeOK /\ TotalPooledEther \in Nat
          /\ shares[LidoAddress] \in Nat /\ totalShares \in Nat
      BY <2>1, TotalPooledEtherNat DEF LidoInv, TokenInv, StETHTypeOK
    <3>2. BalanceOf(LidoAddress, TotalPooledEther) \in Nat
      BY <3>1, TimesNat, DivNat DEF BalanceOf, PooledEthByShares
    <3> QED BY <3>1, <3>2, SharesByPooledEthNat
  <2>3. Pool!Exchange(LidoAddress, RecoveryVault)
    <3> HIDE DEF n
    <3> QED BY <2>1, <2>2, MoveIsExchange
  <2> QED BY <2>1, <2>3 DEF Pool!PoolNext
<1>7. ASSUME UNCHANGED <<tokenVars, active, bufferedEther, totalELRewards, beaconVars>>
      PROVE  UNCHANGED Pool!poolVars
  <2>1. UNCHANGED TotalPooledEther
    BY <1>7, PooledSame DEF pooledVars, beaconVars
  <2> QED BY <1>7, <2>1, PoolSame DEF visible, tokenVars, beaconVars
<1>8. CASE \/ \E value \in Amounts : ForceEther(value)
           \/ \E vault \in Vaults, value \in Amounts : PayVault(vault, value)
           \/ StakingControl \/ Configure \/ RecoverEther \/ UNCHANGED lidoVars
  BY <1>7, <1>8 DEF ForceEther, PayVault, StakingControl, Configure, RecoverEther, lidoVars,
                    tokenVars, etherVars
<1> QED BY <1>1, <1>2, <1>3, <1>4, <1>5, <1>6, <1>8 DEF Next

-----------------------------------------------------------------------------
\* What holders see of Lido is the pool of claims: for any accounts, amounts,
\* fees and settings, stakes buy claims at the going price, transfers and burns
\* only move or give up claims, a report takes no more than its profit, and
\* deposits, governance and recoveries are not seen.
THEOREM LidoImplementsPool == Spec => ImplementsPool
<1>1. Init => Pool!PoolInit
  BY PoolInitial
<1>2. LidoInv /\ LidoInv' /\ [Next]_lidoVars => [Pool!PoolNext]_(Pool!poolVars)
  BY PoolStep
<1> QED BY LidoInit, LidoNext, <1>1, <1>2, PTL DEF Spec, ImplementsPool, Pool!PoolSpec

-----------------------------------------------------------------------------
(* Ether that is not accounted for *)

\* Only a forced transfer or a recovery changes what is not accounted for.
LEMMA UnaccountedStep ==
    ASSUME LidoInv, [Next]_lidoVars, UnaccountedEther' # UnaccountedEther
    PROVE  \/ UnaccountedEther' = 0 /\ outside' > outside
           \/ outside' < outside /\ bufferedEther' = bufferedEther
<1>1. /\ balance \in Nat /\ bufferedEther \in Nat /\ outside \in Nat
      /\ bufferedEther <= balance
  BY DEF LidoInv, EtherInv, EtherTypeOK, BooksAreCovered
<1>2. ASSUME NEW n \in Int, balance' = balance + n, bufferedEther' = bufferedEther + n
      PROVE  FALSE
  BY <1>1, <1>2 DEF UnaccountedEther
<1>3. ASSUME UNCHANGED <<balance, bufferedEther>> PROVE FALSE
  BY <1>3 DEF UnaccountedEther
<1>4. ASSUME NEW staker \in Holders, NEW value \in Amounts, Submit(staker, value)
      PROVE  FALSE
  BY <1>2, <1>4, RateLimitAssumption DEF Submit
<1>5. ASSUME NEW value \in Amounts, ForceEther(value)
      PROVE  outside' < outside /\ bufferedEther' = bufferedEther
  <2>1. value \in Nat /\ balance' = balance + value /\ outside' = outside - value
        /\ bufferedEther' = bufferedEther
    BY <1>5, RateLimitAssumption DEF ForceEther
  <2>2. value # 0
    BY <1>1, <2>1 DEF UnaccountedEther
  <2> QED BY <1>1, <2>1, <2>2
<1>6. ASSUME NEW vault \in Vaults, NEW value \in Amounts, PayVault(vault, value) PROVE FALSE
  BY <1>3, <1>6 DEF PayVault
<1>7. ASSUME HolderStep \/ Stop \/ Resume \/ StakingControl \/ Configure \/ RecoverStETH
                \/ UNCHANGED lidoVars
      PROVE  FALSE
  BY <1>3, <1>7 DEF HolderStep, Stop, Resume, StakingControl, Configure, RecoverStETH, lidoVars,
                    etherVars
<1>8. ASSUME NEW maxDeposits \in 0 .. MaxDeposits, NEW keys \in 0 .. maxDeposits,
             DepositBufferedEther(maxDeposits, keys)
      PROVE  FALSE
  <2> DEFINE spent == keys * DEPOSIT_SIZE
  <2>1. keys \in Int /\ DEPOSIT_SIZE \in Int
    BY LidoAssumption
  <2>2. spent \in Int
    BY <2>1, TimesDistributes
  <2>3. balance' = balance - spent /\ bufferedEther' = bufferedEther - spent
    BY <1>8 DEF DepositBufferedEther, MarkAsUnbuffered
  <2> HIDE DEF spent
  <2> QED BY <1>1, <1>2, <2>2, <2>3
<1>9. ASSUME NEW p \in ProtocolContracts, NEW validators \in 0 .. depositedValidators + 1,
             NEW reported \in 0 .. MaxBeaconBalance,
             HandleOracleReport(p.oracle, validators, reported)
      PROVE  FALSE
  <2>1. validators \in Nat /\ reported \in Nat
    OBVIOUS
  <2>2. \E elRewards \in Nat : ReportStep(validators, reported, elRewards)
    BY <1>9, <2>1, ReportIsStep
  <2> QED BY <1>2, <2>2 DEF ReportStep
<1>10. CASE RecoverEther
  <2>1. UnaccountedEther \in Nat /\ UnaccountedEther' = 0 /\ outside' = outside + UnaccountedEther
    BY <1>1, <1>10 DEF RecoverEther, UnaccountedEther
  <2> QED BY <1>1, <2>1
<1> QED BY <1>4, <1>5, <1>6, <1>7, <1>8, <1>9, <1>10 DEF Next

\* Stakes, deposits and rewards leave the ether nobody accounts for alone, as the
\* assert of _depositBufferedEther wants it of deposits.
THEOREM LidoUnaccountedUntouched == Spec => UnaccountedUntouched
<1>1. LidoInv /\ [Next]_lidoVars => [ UnaccountedEther' # UnaccountedEther =>
          \/ UnaccountedEther' = 0 /\ outside' > outside
          \/ outside' < outside /\ bufferedEther' = bufferedEther ]_lidoVars
  BY UnaccountedStep
<1> QED BY LidoInit, LidoNext, <1>1, PTL DEF Spec, UnaccountedUntouched

-----------------------------------------------------------------------------
(* The fee *)

\* New shares are a stake's, which takes ether from outside, or a report's fee.
LEMMA FeeStep ==
    ASSUME LidoInv, LidoInv', [Next]_lidoVars, totalShares' > totalShares, outside' = outside
    PROVE  (totalShares' - totalShares) * TotalPooledEther' * TOTAL_BASIS_POINTS
             <= config.fee * (TotalPooledEther' - TotalPooledEther) * totalShares'
<1>1. TokenInv /\ totalShares \in Nat /\ outside \in Nat
  BY DEF LidoInv, TokenInv, StETHTypeOK, EtherInv, EtherTypeOK
<1>2. ASSUME NEW staker \in Holders, NEW value \in Amounts, Submit(staker, value)
      PROVE  FALSE
  BY <1>1, <1>2, RateLimitAssumption DEF Submit, TakeStake
<1>3. ASSUME UNCHANGED totalShares PROVE FALSE
  BY <1>1, <1>3
<1>4. CASE HolderStep
  <2>1. ASSUME NEW a \in BurnableAccounts, NEW n \in BurnValues, BurnShares(a, n) PROVE FALSE
    <3>1. n \in Nat /\ totalShares' = totalShares - n
      BY <2>1, LidoAssumption DEF BurnShares
    <3> QED BY <1>1, <3>1
  <2> QED BY <1>3, <1>4, <2>1 DEF HolderStep, MoveTokens, ChangeAllowance, Transfer, TransferShares,
             TransferFrom, Approve, IncreaseAllowance, DecreaseAllowance
<1>5. ASSUME NEW p \in ProtocolContracts, NEW validators \in 0 .. depositedValidators + 1,
             NEW reported \in 0 .. MaxBeaconBalance,
             HandleOracleReport(p.oracle, validators, reported)
      PROVE  (totalShares' - totalShares) * TotalPooledEther' * TOTAL_BASIS_POINTS
               <= config.fee * (TotalPooledEther' - TotalPooledEther) * totalShares'
  <2>1. validators \in Nat /\ reported \in Nat
    OBVIOUS
  <2>2. PICK elRewards \in Nat : ReportStep(validators, reported, elRewards)
    BY <1>5, <2>1, ReportIsStep
  <2>3. reported > RewardBase(validators)
    BY <1>3, <2>2 DEF ReportStep
  <2> QED BY <2>1, <2>2, <2>3, ReportProfits
<1>6. CASE \/ \E value \in Amounts : ForceEther(value)
           \/ \E vault \in Vaults, value \in Amounts : PayVault(vault, value)
           \/ \E maxDeposits \in 0 .. MaxDeposits :
                 \E keys \in 0 .. maxDeposits : DepositBufferedEther(maxDeposits, keys)
           \/ Stop \/ Resume \/ StakingControl \/ Configure \/ RecoverEther \/ RecoverStETH
           \/ UNCHANGED lidoVars
  BY <1>3, <1>6 DEF ForceEther, PayVault, DepositBufferedEther, Stop, Resume, StakingControl,
                    Configure, RecoverEther, RecoverStETH, Transfer, lidoVars, tokenVars
<1> QED BY <1>2, <1>4, <1>5, <1>6 DEF Next

\* The shares a report mints are worth no more, after they are minted, than the
\* fee's part of its profit, however the quotient of _distributeFee is rounded.
THEOREM LidoFeeWithinItsPart == Spec => FeeWithinItsPart
<1>1. LidoInv /\ LidoInv' /\ [Next]_lidoVars =>
        [ totalShares' > totalShares /\ outside' = outside
          => (totalShares' - totalShares) * TotalPooledEther' * TOTAL_BASIS_POINTS
               <= config.fee * (TotalPooledEther' - TotalPooledEther) * totalShares' ]_lidoVars
  BY FeeStep
<1> QED BY LidoInit, LidoNext, <1>1, PTL DEF Spec, FeeWithinItsPart

-----------------------------------------------------------------------------
(* Allowances *)

\* What is moved for n tokens is worth at most n tokens.
LEMMA TransferWorth ==
    ASSUME StETHTypeOK, NEW n \in Nat, NEW tp \in Nat
    PROVE  SharesByPooledEth(n, tp) * tp <= n * totalShares
<1>1. totalShares \in Nat /\ n * totalShares \in Nat
  BY TimesNat DEF StETHTypeOK
<1>2. CASE tp = 0
  BY <1>1, <1>2 DEF SharesByPooledEth
<1>3. CASE tp # 0
  BY <1>1, <1>3, DivNat DEF SharesByPooledEth
<1> QED BY <1>2, <1>3

\* A transfer of n tokens takes at most n off what anybody's shares are worth.
LEMMA TransferCosts ==
    ASSUME StETHTypeOK, NEW from \in Accounts, NEW to \in Accounts, NEW n \in Nat,
           NEW tp \in Nat, NEW owner \in Accounts,
           MoveShares(from, to, SharesByPooledEth(n, tp))
    PROVE  PooledEthByShares(shares[owner], tp) <= PooledEthByShares(shares'[owner], tp) + n
<1> DEFINE m == SharesByPooledEth(n, tp)
           s == shares[owner]
           after == shares'[owner]
<1>1. /\ shares \in [Accounts -> Nat] /\ totalShares \in Nat /\ s \in Nat
      /\ m \in Nat /\ m * tp <= n * totalShares
  BY SharesByPooledEthNat, TransferWorth DEF StETHTypeOK
<1>2. m <= shares[from] /\ shares' = [shares EXCEPT ![from] = @ - m, ![to] = @ + m]
  BY DEF MoveShares, Moved
<1> HIDE DEF m
<1>3. \/ after = s
      \/ after = s + m
      \/ m <= s /\ after = s - m
  BY <1>1, <1>2
<1>4. after \in Nat
  BY <1>1, <1>3
<1> HIDE DEF s, after
<1>5. CASE totalShares = 0
  BY <1>5 DEF PooledEthByShares
<1>6. CASE totalShares # 0 /\ after >= s
  <2>1. s * tp <= after * tp
    BY <1>1, <1>4, <1>6, TimesMonotone
  <2>2. s * tp \in Nat /\ after * tp \in Nat
    BY <1>1, <1>4, TimesNat
  <2>3. /\ (s * tp) \div totalShares \in Nat
        /\ ((s * tp) \div totalShares) * totalShares <= s * tp
        /\ (after * tp) \div totalShares \in Nat
    BY <1>1, <1>6, <2>2, DivNat
  <2>4. ((s * tp) \div totalShares) * totalShares <= after * tp
    <3>1. ((s * tp) \div totalShares) * totalShares \in Nat
      BY <1>1, <2>3, TimesNat
    <3> QED BY <2>1, <2>2, <2>3, <3>1
  <2>5. (s * tp) \div totalShares <= (after * tp) \div totalShares
    BY <1>1, <1>6, <2>2, <2>3, <2>4, DivAtLeast
  <2> QED BY <1>6, <2>3, <2>5 DEF PooledEthByShares, s, after
<1>7. CASE totalShares # 0 /\ m <= s /\ after = s - m
  <2>1. (s * tp) \div totalShares <= ((s - m) * tp) \div totalShares + n
    BY <1>1, <1>7, BalanceFallsAtMost
  <2> QED BY <1>7, <2>1 DEF PooledEthByShares, s, after
<1>8. after >= s \/ (m <= s /\ after = s - m)
  BY <1>1, <1>3, <1>4
<1> QED BY <1>5, <1>6, <1>7, <1>8

\* Only transferFrom both moves shares and lowers an allowance.
LEMMA AllowanceStep ==
    ASSUME LidoInv, [Next]_lidoVars, NEW owner \in Accounts, NEW spender \in Accounts,
           shares' # shares, allowances'[owner][spender] < allowances[owner][spender]
    PROVE  BalanceOf(owner, TotalPooledEther)
             <= BalanceOf(owner, TotalPooledEther)'
                  + (allowances[owner][spender] - allowances'[owner][spender])
<1>1. /\ StETHTypeOK /\ TotalPooledEther \in Nat /\ allowances[owner][spender] \in Nat
  BY TotalPooledEtherNat DEF LidoInv, TokenInv, StETHTypeOK
<1>2. ASSUME UNCHANGED allowances PROVE FALSE
  BY <1>1, <1>2
<1>3. ASSUME UNCHANGED shares PROVE FALSE
  BY <1>3
<1>4. ASSUME NEW from \in Holders, NEW to \in Accounts, NEW n \in TransferValues,
             NEW by \in Spenders, TransferFrom(by, from, to, n, TotalPooledEther),
             UNCHANGED <<etherVars, beaconVars>>
      PROVE  BalanceOf(owner, TotalPooledEther)
               <= BalanceOf(owner, TotalPooledEther)'
                    + (allowances[owner][spender] - allowances'[owner][spender])
  <2>1. from \in Accounts /\ by \in Accounts /\ n \in Nat
    BY LidoAssumption DEF Holders
  <2>2. /\ MoveShares(from, to, SharesByPooledEth(n, TotalPooledEther))
        /\ allowances' = [allowances EXCEPT ![from][by] = allowances[from][by] - n]
        /\ UNCHANGED totalShares
    BY <1>4 DEF TransferFrom, SetAllowance
  <2>3. allowances \in [Accounts -> [Accounts -> Nat]]
    BY <1>1 DEF StETHTypeOK
  <2>4. allowances'[owner][spender] = allowances[owner][spender] - n
    BY <1>1, <2>1, <2>2, <2>3
  <2>5. PooledEthByShares(shares[owner], TotalPooledEther)
          <= PooledEthByShares(shares'[owner], TotalPooledEther) + n
    BY <1>1, <2>1, <2>2, TransferCosts
  <2>6. UNCHANGED TotalPooledEther
    BY <1>4, PooledSame DEF pooledVars, etherVars, beaconVars
  <2>7. BalanceOf(owner, TotalPooledEther)' = PooledEthByShares(shares'[owner], TotalPooledEther)
    BY <2>2, <2>6 DEF BalanceOf, PooledEthByShares
  <2>8. allowances[owner][spender] - allowances'[owner][spender] = n
    BY <1>1, <2>1, <2>4
  <2> QED BY <2>5, <2>7, <2>8 DEF BalanceOf
<1>5. CASE HolderStep
  <2>1. UNCHANGED <<etherVars, beaconVars>>
    BY <1>5 DEF HolderStep
  <2>2. ASSUME NEW from \in Holders, NEW to \in Accounts, NEW n \in TransferValues,
               MoveTokens(from, to, n)
        PROVE  BalanceOf(owner, TotalPooledEther)
                 <= BalanceOf(owner, TotalPooledEther)'
                      + (allowances[owner][spender] - allowances'[owner][spender])
    BY <1>2, <1>4, <2>1, <2>2 DEF MoveTokens, Transfer, TransferShares
  <2>3. ASSUME NEW o \in Holders, NEW s \in Spenders, NEW n \in AllowanceValues,
               ChangeAllowance(o, s, n)
        PROVE  FALSE
    BY <1>3, <2>3 DEF ChangeAllowance, Approve, IncreaseAllowance, DecreaseAllowance
  <2>4. ASSUME NEW a \in BurnableAccounts, NEW n \in BurnValues, BurnShares(a, n) PROVE FALSE
    BY <1>2, <2>4 DEF BurnShares
  <2> QED BY <1>5, <2>2, <2>3, <2>4 DEF HolderStep
<1>6. CASE ~HolderStep
  BY <1>2, <1>6 DEF Next, Submit, ForceEther, PayVault, DepositBufferedEther, HandleOracleReport,
                    Stop, Resume, StakingControl, Configure, RecoverEther, RecoverStETH,
                    Transfer, lidoVars, tokenVars
<1> QED BY <1>5, <1>6

\* Spending an allowance never costs its owner more tokens than what is spent of
\* the allowance, for any rate between tokens and shares.
THEOREM LidoSpenderWithinAllowance == Spec => SpenderWithinAllowance
<1>1. LidoInv /\ [Next]_lidoVars =>
        [ \A owner, spender \in Accounts :
            shares' # shares /\ allowances'[owner][spender] < allowances[owner][spender]
              => BalanceOf(owner, TotalPooledEther)
                   <= BalanceOf(owner, TotalPooledEther)'
                        + (allowances[owner][spender] - allowances'[owner][spender]) ]_lidoVars
  BY AllowanceStep
<1> QED BY LidoInit, LidoNext, <1>1, PTL DEF Spec, SpenderWithinAllowance

=============================================================================
