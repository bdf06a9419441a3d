----------------------- MODULE NodeOperatorsRegistry ------------------------
(***************************************************************************)
(* The registry of node operators and their signing keys                   *)
(* (src/contracts/0.4.24/nos/NodeOperatorsRegistry.sol).  Lido asks it for *)
(* the keys of the next deposits and for the division of a reward.         *)
(*                                                                         *)
(* Operator id i of the contract is position i + 1 of the sequence.  The   *)
(* calls ...OperatorBH, by the operator itself, change what the calls by   *)
(* governance change; names and roles are left out.  A key stands for the  *)
(* key and its signature.                                                  *)
(***************************************************************************)
EXTENDS Supply, Integers, Sequences

CONSTANTS
    Keys,                       \* signing keys
    EmptyKey,                   \* 48 zero bytes
    RewardAddresses,            \* where operators are paid
    MAX_NODE_OPERATORS_COUNT,
    WORD,                       \* keysOpIndex is counted modulo this, 2^256
    MaxKeys,                    \* bound: keys of an operator
    StakingLimits,              \* values setNodeOperatorStakingLimit may be given
    MaxAssigned                 \* bound: keys asked for at once

ASSUME RegistryAssumption ==
    /\ EmptyKey \notin Keys
    /\ {MAX_NODE_OPERATORS_COUNT, WORD, MaxKeys, MaxAssigned} \subseteq Nat \ {0}
    /\ StakingLimits \subseteq Nat

VARIABLES
    operators,      \* the mapping of operators, with their keys
    activeCount,    \* ACTIVE_OPERATORS_COUNT_POSITION
    keysOpIndex     \* KEYS_OP_INDEX_POSITION

registryVars == <<operators, activeCount, keysOpIndex>>

Slots == 0 .. MaxKeys - 1

NodeOperator ==
    [active: BOOLEAN, rewardAddress: RewardAddresses, stakingLimit: Nat, stopped: Nat,
     total: 0 .. MaxKeys, used: 0 .. MaxKeys, keys: [Slots -> Keys \cup {EmptyKey}]]

Ids == DOMAIN operators

Stake(o) == o.used - o.stopped

IncreaseKeysOpIndex == keysOpIndex' = (keysOpIndex + 1) % WORD

Update(id, operator) == operators' = [operators EXCEPT ![id] = operator]

Init ==
    /\ operators = <<>>
    /\ activeCount = 0
    /\ keysOpIndex = 0

-----------------------------------------------------------------------------
(* Operators *)

NewOperator(address) ==
    [active |-> TRUE, rewardAddress |-> address, stakingLimit |-> 0, stopped |-> 0,
     total |-> 0, used |-> 0, keys |-> [s \in Slots |-> EmptyKey]]

AddNodeOperator(address) ==
    /\ Len(operators) < MAX_NODE_OPERATORS_COUNT
    /\ operators' = Append(operators, NewOperator(address))
    /\ activeCount' = activeCount + 1
    /\ UNCHANGED keysOpIndex

\* Mutant: may be set to what it is.
SetNodeOperatorActive_Again(id, active) ==
    /\ IncreaseKeysOpIndex
    /\ activeCount' = IF active THEN activeCount + 1 ELSE activeCount - 1
    /\ Update(id, [operators[id] EXCEPT !.active = active])

SetNodeOperatorActive(id, active) ==
    /\ operators[id].active # active
    /\ IncreaseKeysOpIndex
    /\ activeCount' = IF active THEN activeCount + 1 ELSE activeCount - 1
    /\ Update(id, [operators[id] EXCEPT !.active = active])

SetNodeOperatorRewardAddress(id, address) ==
    /\ operators[id].rewardAddress # address
    /\ Update(id, [operators[id] EXCEPT !.rewardAddress = address])
    /\ UNCHANGED <<activeCount, keysOpIndex>>

\* Mutant: not counted as an operation on keys.
SetNodeOperatorStakingLimit_Uncounted(id, limit) ==
    /\ operators[id].stakingLimit # limit
    /\ Update(id, [operators[id] EXCEPT !.stakingLimit = limit])
    /\ UNCHANGED <<activeCount, keysOpIndex>>

SetNodeOperatorStakingLimit(id, limit) ==
    /\ operators[id].stakingLimit # limit
    /\ IncreaseKeysOpIndex
    /\ Update(id, [operators[id] EXCEPT !.stakingLimit = limit])
    /\ UNCHANGED activeCount

\* Mutant: compared with all the keys.
ReportStoppedValidators_OfTotal(id, increment) ==
    /\ operators[id].stopped + increment <= operators[id].total
    /\ Update(id, [operators[id] EXCEPT !.stopped = @ + increment])
    /\ UNCHANGED <<activeCount, keysOpIndex>>

ReportStoppedValidators(id, increment) ==
    /\ operators[id].stopped + increment <= operators[id].used
    /\ Update(id, [operators[id] EXCEPT !.stopped = @ + increment])
    /\ UNCHANGED <<activeCount, keysOpIndex>>

-----------------------------------------------------------------------------
(* Keys *)

\* The keys are stored behind the last one, over what trimming left there.
AddSigningKeys(id, new) ==
    LET o == operators[id]
    IN  /\ o.total + Len(new) <= MaxKeys
        /\ IncreaseKeysOpIndex
        /\ Update(id, [o EXCEPT !.total = @ + Len(new),
                                !.keys = [s \in Slots |->
                                            IF s \in o.total .. o.total + Len(new) - 1
                                            THEN new[s - o.total + 1] ELSE o.keys[s]]])
        /\ UNCHANGED activeCount

\* Mutant: the slot that was asked for is deleted.
Removed_Slot(o, index) ==
    [o EXCEPT !.keys = [@ EXCEPT ![index] = EmptyKey],
              !.total = @ - 1,
              !.stakingLimit = IF index < @ THEN index ELSE @]

\* _removeSigningKey: the last key takes the place of the removed one, and the
\* staking limit is lowered to it.
Removed(o, index) ==
    [o EXCEPT !.keys = [@ EXCEPT ![index] = o.keys[o.total - 1], ![o.total - 1] = EmptyKey],
              !.total = @ - 1,
              !.stakingLimit = IF index < @ THEN index ELSE @]

\* From the last index to the first.
AllRemoved(o, index, amount) ==
    LET left[k \in 0 .. amount] ==
          IF k = 0 THEN o ELSE Removed(left[k - 1], index + amount - k)
    IN  left[amount]

\* Mutant: used keys are not protected.
RemoveSigningKeys_Used(id, index, amount) ==
    /\ index + amount <= operators[id].total
    /\ keysOpIndex' = (keysOpIndex + amount) % WORD
    /\ Update(id, AllRemoved(operators[id], index, amount))
    /\ UNCHANGED activeCount

\* removeSigningKey, with amount 1, and removeSigningKeys.
RemoveSigningKeys(id, index, amount) ==
    /\ index + amount <= operators[id].total
    /\ index >= operators[id].used
    /\ keysOpIndex' = (keysOpIndex + amount) % WORD
    /\ Update(id, AllRemoved(operators[id], index, amount))
    /\ UNCHANGED activeCount

\* Called by Lido when the withdrawal credentials change: the keys stay in
\* their slots, beyond the total.
TrimUnusedKeys ==
    /\ operators' = [id \in Ids |-> [operators[id] EXCEPT !.total = operators[id].used]]
    /\ UNCHANGED <<activeCount, keysOpIndex>>

-----------------------------------------------------------------------------
(* Assignment *)

ActiveIds == {id \in Ids : operators[id].active}

\* Every active operator has its place in the cache, sized by the stored count.
CacheIsFilled == activeCount = Cardinality(ActiveIds)

\* Mutant: an operator without unused keys is chosen.
Eligible_Exhausted(used) ==
    {id \in ActiveIds : used[id] - operators[id].stopped + 1 <= operators[id].stakingLimit}

\* Operators that may get one more key, when each has used[id] of them.
Eligible(used) ==
    {id \in ActiveIds : /\ used[id] < operators[id].total
                        /\ used[id] - operators[id].stopped + 1 <= operators[id].stakingLimit}

\* Mutant: the first that may get one.
Best_First(used) ==
    CHOOSE id \in Eligible(used) : \A other \in Eligible(used) : id <= other

\* The one with the smallest stake, the first of those.
Best(used) ==
    LET stake(id) == used[id] - operators[id].stopped
    IN  CHOOSE id \in Eligible(used) :
            \A other \in Eligible(used) \ {id} :
                \/ stake(id) < stake(other)
                \/ /\ stake(id) = stake(other)
                   /\ id < other

\* How many keys each has used after a search for n more.
UsedAfter(n) ==
    LET used[k \in 0 .. n] ==
          IF k = 0 THEN [id \in Ids |-> operators[id].used]
          ELSE IF Eligible(used[k - 1]) = {} THEN used[k - 1]
          ELSE [used[k - 1] EXCEPT ![Best(used[k - 1])] = @ + 1]
    IN  used[n]

\* Mutant: one key may be left out.
AssignNextSigningKeys_Less(n) ==
    /\ CacheIsFilled
    /\ operators' = [id \in Ids |-> [operators[id] EXCEPT !.used = UsedAfter(n - 1)[id]]]
    /\ IF operators' # operators THEN IncreaseKeysOpIndex ELSE UNCHANGED keysOpIndex
    /\ UNCHANGED activeCount

\* Called by Lido.  The operation is counted if any key is found.
AssignNextSigningKeys(n) ==
    /\ CacheIsFilled
    /\ operators' = [id \in Ids |-> [operators[id] EXCEPT !.used = UsedAfter(n)[id]]]
    /\ IF operators' # operators THEN IncreaseKeysOpIndex ELSE UNCHANGED keysOpIndex
    /\ UNCHANGED activeCount

-----------------------------------------------------------------------------
(* Rewards *)

Validators == [id \in ActiveIds |-> Stake(operators[id])]

\* Mutant: the reward of a validator is rounded up.
RewardsDistribution_Up(amount) ==
    LET all == SupplyOf(Validators)
    IN  IF all = 0 THEN Validators
        ELSE [id \in ActiveIds |-> Validators[id] * ((amount + all - 1) \div all)]

\* getRewardsDistribution: what each active operator gets of `amount' shares.
RewardsDistribution(amount) ==
    LET all == SupplyOf(Validators)
    IN  IF all = 0 THEN Validators
        ELSE [id \in ActiveIds |-> Validators[id] * (amount \div all)]

-----------------------------------------------------------------------------
\* All but the assignment, which only Lido asks for.
Operation ==
    \/ \E address \in RewardAddresses : AddNodeOperator(address)
    \/ \E id \in Ids :
          \/ \E active \in BOOLEAN : SetNodeOperatorActive(id, active)
          \/ \E address \in RewardAddresses : SetNodeOperatorRewardAddress(id, address)
          \/ \E limit \in StakingLimits : SetNodeOperatorStakingLimit(id, limit)
          \/ \E increment \in 1 .. MaxKeys : ReportStoppedValidators(id, increment)
          \/ \E key \in Keys, other \in Keys :
                AddSigningKeys(id, <<key>>) \/ AddSigningKeys(id, <<key, other>>)
          \/ \E index \in Slots, amount \in 1 .. MaxKeys : RemoveSigningKeys(id, index, amount)
    \/ TrimUnusedKeys

Next == Operation \/ \E n \in 1 .. MaxAssigned : AssignNextSigningKeys(n)

Spec == Init /\ [][Next]_registryVars

=============================================================================
