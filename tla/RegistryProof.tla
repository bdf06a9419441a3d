--------------------------- MODULE RegistryProof ----------------------------
(***************************************************************************)
(* Proofs about the registry of node operators, for any operators, keys    *)
(* and limits, and for any number of keys removed or assigned at once; and *)
(* about the committee of guardians before it, for any guardians, and any  *)
(* messages that are sent late, again or never.                            *)
(***************************************************************************)
EXTENDS DepositSecurityProperties, SharedLemmas

OperatorOK(o) ==
    /\ o.stopped <= o.used
    /\ o.used <= o.total
    /\ \A s \in 0 .. o.total - 1 : o.keys[s] # EmptyKey

RegistryInv ==
    /\ RegistryTypeOK
    /\ activeCount = Cardinality(ActiveIds)
    /\ \A id \in Ids : OperatorOK(operators[id])

LEMMA RegistryInvMeans == RegistryInv <=> RegistryTypeOK /\ CountersInOrder /\ KeysAreStored
BY DEF RegistryInv, OperatorOK, CountersInOrder, KeysAreStored

-----------------------------------------------------------------------------
(* Removing keys *)

\* The operator that is left as `amount' keys are removed, the last first: after
\* each of the first n.
IsLeft(f, o, index, amount, n) ==
    f = [k \in 0 .. n |-> IF k = 0 THEN o ELSE Removed(f[k - 1], index + amount - k)]

\* The recursive function is there, for any number of keys.
LEMMA LeftExists ==
    ASSUME NEW o, NEW index, NEW amount, NEW n \in Nat
    PROVE  \E f : IsLeft(f, o, index, amount, n)
<1> DEFINE T == {m \in 0 .. n : \E f : IsLeft(f, o, index, amount, m)}
<1>1. 0 \in T
  <2>1. IsLeft([k \in 0 .. 0 |-> o], o, index, amount, 0)
    BY DEF IsLeft
  <2> QED BY <2>1
<1>2. ASSUME NEW m \in 0 .. n - 1, m \in T PROVE m + 1 \in T
  <2>1. PICK f : IsLeft(f, o, index, amount, m)
    BY <1>2
  <2> DEFINE g == [k \in 0 .. m + 1 |-> IF k = 0 THEN o ELSE Removed(f[k - 1], index + amount - k)]
  <2>2. \A k \in 0 .. m : g[k] = f[k]
    BY <2>1 DEF IsLeft
  <2>3. \A k \in 0 .. m + 1 : k # 0 => k - 1 \in 0 .. m
    OBVIOUS
  <2>4. g = [k \in 0 .. m + 1 |-> IF k = 0 THEN o ELSE Removed(g[k - 1], index + amount - k)]
    BY <2>2, <2>3
  <2> HIDE DEF g
  <2>5. IsLeft(g, o, index, amount, m + 1)
    BY <2>4 DEF IsLeft
  <2>6. m + 1 \in 0 .. n
    OBVIOUS
  <2> QED BY <2>5, <2>6
<1> HIDE DEF T
<1>3. T \in SUBSET (0 .. n)
  BY DEF T
<1>4. n \in T
  BY <1>1, <1>2, <1>3, UpTo
<1> QED BY <1>4 DEF T

LEMMA AllRemovedIs ==
    ASSUME NEW o, NEW index, NEW amount \in Nat
    PROVE  \E f : AllRemoved(o, index, amount) = f[amount] /\ IsLeft(f, o, index, amount, amount)
<1> DEFINE left == CHOOSE f : IsLeft(f, o, index, amount, amount)
<1>1. IsLeft(left, o, index, amount, amount)
  <2>1. \E f : IsLeft(f, o, index, amount, amount)
    BY LeftExists
  <2> QED BY <2>1
<1>2. AllRemoved(o, index, amount) = left[amount]
  BY DEF AllRemoved, IsLeft
<1> HIDE DEF left
<1> QED BY <1>1, <1>2

\* `n' unused keys were removed from `o', and nothing else of it.
Shrunk(r, o, n) ==
    /\ r \in NodeOperator
    /\ OperatorOK(r)
    /\ r.total = o.total - n
    /\ r.used = o.used
    /\ r.stopped = o.stopped
    /\ r.active = o.active
    /\ \A s \in 0 .. o.used - 1 : r.keys[s] = o.keys[s]

LEMMA RemovedShrinks ==
    ASSUME RegistryAssumption, NEW o \in NodeOperator, NEW n \in Nat, NEW r,
           Shrunk(r, o, n), NEW index \in Nat, o.used <= index, index < r.total
    PROVE  Shrunk(Removed(r, index), o, n + 1)
<1> DEFINE last == r.total - 1
           keys == [r.keys EXCEPT ![index] = r.keys[last], ![last] = EmptyKey]
           new == Removed(r, index)
<1>1. /\ r \in NodeOperator
      /\ r.total \in 0 .. MaxKeys
      /\ r.keys \in [Slots -> Keys \cup {EmptyKey}]
      /\ r.stakingLimit \in Nat
      /\ MaxKeys \in Nat
  BY DEF Shrunk, NodeOperator, RegistryAssumption
<1>2. last \in Slots /\ index \in Slots /\ index <= last
  BY <1>1 DEF Slots
<1>3. keys \in [Slots -> Keys \cup {EmptyKey}]
  BY <1>1, <1>2
<1>4. \A s \in Slots : s # last => keys[s] = IF s = index THEN r.keys[last] ELSE r.keys[s]
  BY <1>1, <1>2
<1>5. new = [r EXCEPT !.keys = keys, !.total = last,
                      !.stakingLimit = IF index < r.stakingLimit THEN index ELSE r.stakingLimit]
  BY <1>1 DEF Removed, NodeOperator
<1> HIDE DEF keys
<1>6. /\ new \in NodeOperator
      /\ new.keys = keys
      /\ new.total = last
      /\ new.used = r.used
      /\ new.stopped = r.stopped
      /\ new.active = r.active
  <2> DEFINE limit == IF index < r.stakingLimit THEN index ELSE r.stakingLimit
  <2>1. limit \in Nat /\ last \in 0 .. MaxKeys
    BY <1>1, <1>2 DEF Slots
  <2>2. new = [r EXCEPT !.keys = keys, !.total = last, !.stakingLimit = limit]
    BY <1>5
  <2> HIDE DEF limit, last, new
  <2> QED BY <1>1, <1>3, <2>1, <2>2 DEF NodeOperator
<1> HIDE DEF new
<1>7. \A s \in 0 .. last - 1 : keys[s] # EmptyKey
  <2>1. \A s \in 0 .. last : r.keys[s] # EmptyKey
    BY DEF Shrunk, OperatorOK
  <2>2. ASSUME NEW s \in 0 .. last - 1 PROVE s \in Slots /\ s # last /\ s \in 0 .. last /\ last \in 0 .. last
    BY <1>1, <1>2 DEF Slots
  <2> QED BY <1>4, <2>1, <2>2
<1>8. \A s \in 0 .. o.used - 1 : keys[s] = o.keys[s]
  <2>1. ASSUME NEW s \in 0 .. o.used - 1 PROVE s \in Slots /\ s # last /\ s # index
    BY SMTT(60), <1>1, <1>2 DEF Slots, NodeOperator
  <2> QED BY <1>4, <2>1 DEF Shrunk
<1>9. r.used <= last /\ r.stopped <= r.used /\ last = o.total - (n + 1)
  BY <1>1 DEF Shrunk, OperatorOK, NodeOperator
<1> QED BY <1>6, <1>7, <1>8, <1>9 DEF Shrunk, OperatorOK, new

\* However many unused keys are removed.
LEMMA AllRemovedShrinks ==
    ASSUME RegistryAssumption, NEW o \in NodeOperator, OperatorOK(o),
           NEW index \in Nat, NEW amount \in Nat,
           o.used <= index, index + amount <= o.total
    PROVE  Shrunk(AllRemoved(o, index, amount), o, amount)
<1>1. PICK f : AllRemoved(o, index, amount) = f[amount] /\ IsLeft(f, o, index, amount, amount)
  BY AllRemovedIs
<1> DEFINE T == {k \in 0 .. amount : Shrunk(f[k], o, k)}
<1>2. 0 \in T
  <2>1. f[0] = o
    BY <1>1 DEF IsLeft
  <2>2. o.total - 0 = o.total
    BY DEF NodeOperator
  <2> QED BY <2>1, <2>2 DEF Shrunk
<1>3. ASSUME NEW k \in 0 .. amount - 1, k \in T PROVE k + 1 \in T
  <2>1. f[k + 1] = Removed(f[k], index + amount - (k + 1))
    <3>1. k + 1 \in 0 .. amount /\ k + 1 # 0 /\ (k + 1) - 1 = k
      OBVIOUS
    <3> QED BY <1>1, <3>1 DEF IsLeft
  <2> DEFINE j == index + amount - (k + 1)
  <2>2. j \in Nat /\ o.used <= j /\ j < f[k].total
    BY <1>3 DEF Shrunk, NodeOperator
  <2> HIDE DEF j
  <2>3. Shrunk(Removed(f[k], j), o, k + 1)
    BY <1>3, <2>2, RemovedShrinks
  <2> QED BY <2>1, <2>3 DEF j
<1> HIDE DEF T
<1>4. T \in SUBSET (0 .. amount)
  BY DEF T
<1>5. amount \in T
  BY SMTT(60), <1>2, <1>3, <1>4, UpTo
<1> QED BY <1>1, <1>5 DEF T

-----------------------------------------------------------------------------
(* The operations *)

LEMMA ActiveIdsFinite ==
    ASSUME RegistryTypeOK
    PROVE  IsFiniteSet(ActiveIds) /\ IsFiniteSet(Ids) /\ Ids = 1 .. Len(operators)
<1>1. Ids = 1 .. Len(operators) /\ Len(operators) \in Nat
  BY DEF RegistryTypeOK, Ids
<1>2. 1 \in Int /\ Len(operators) \in Int
  BY <1>1
<1>3. IsFiniteSet(1 .. Len(operators))
  BY <1>2, FS_Interval
<1>4. ActiveIds \subseteq Ids
  BY DEF ActiveIds
<1> QED BY <1>1, <1>3, <1>4, FS_Subset

LEMMA WordIsPositive ==
    ASSUME RegistryAssumption
    PROVE  \A n \in Nat : n % WORD \in 0 .. WORD - 1
BY DEF RegistryAssumption

\* An operator that stays as active as it was is replaced by one in order.
LEMMA UpdateKeeps ==
    ASSUME RegistryInv, NEW id \in Ids, NEW r \in NodeOperator, OperatorOK(r),
           r.active = operators[id].active, Update(id, r), UNCHANGED activeCount,
           keysOpIndex' \in 0 .. WORD - 1
    PROVE  RegistryInv'
<1>1. operators \in Seq(NodeOperator) /\ operators' = [operators EXCEPT ![id] = r]
  BY DEF RegistryInv, RegistryTypeOK, Update
<1>2. operators' \in Seq(NodeOperator) /\ Ids' = Ids /\ Len(operators') = Len(operators)
  BY <1>1 DEF Ids
<1>3. operators'[id] = r /\ \A x \in Ids \ {id} : operators'[x] = operators[x]
  BY <1>1 DEF Ids
<1>4. ActiveIds' = ActiveIds
  BY <1>2, <1>3 DEF ActiveIds
<1>5. \A x \in Ids : OperatorOK(operators'[x])
  BY <1>3 DEF RegistryInv
<1>6. RegistryTypeOK'
  BY <1>2 DEF RegistryTypeOK, RegistryInv
<1>7. (activeCount = Cardinality(ActiveIds))'
  BY <1>4 DEF RegistryInv
<1>8. (\A x \in Ids : OperatorOK(operators[x]))'
  BY <1>2, <1>5
<1> QED BY <1>6, <1>7, <1>8 DEF RegistryInv

\* What is known of an operator before a call.
LEMMA OperatorBefore ==
    ASSUME RegistryInv, NEW id \in Ids
    PROVE  operators[id] \in NodeOperator /\ OperatorOK(operators[id])
BY DEF RegistryInv, RegistryTypeOK, Ids

LEMMA IndexStays ==
    ASSUME RegistryAssumption, RegistryInv, UNCHANGED keysOpIndex \/ IncreaseKeysOpIndex
    PROVE  keysOpIndex' \in 0 .. WORD - 1
<1>1. keysOpIndex \in 0 .. WORD - 1
  BY DEF RegistryInv, RegistryTypeOK
<1>2. keysOpIndex + 1 \in Nat
  BY <1>1
<1> QED BY <1>1, <1>2, WordIsPositive DEF IncreaseKeysOpIndex

LEMMA AddNodeOperatorKeeps ==
    ASSUME RegistryAssumption, RegistryInv, NEW address \in RewardAddresses,
           AddNodeOperator(address)
    PROVE  RegistryInv'
<1> DEFINE r == NewOperator(address)
           n == Len(operators)
<1>1. /\ r \in NodeOperator
      /\ OperatorOK(r)
      /\ r.active = TRUE
  BY DEF NewOperator, NodeOperator, OperatorOK, RegistryAssumption, Slots
<1>2. /\ operators \in Seq(NodeOperator)
      /\ operators' = Append(operators, r)
      /\ activeCount \in Nat
      /\ activeCount' = activeCount + 1
  BY DEF RegistryInv, RegistryTypeOK, AddNodeOperator
<1> HIDE DEF r
<1>3. /\ operators' \in Seq(NodeOperator)
      /\ Ids' = Ids \cup {n + 1}
      /\ Ids = 1 .. n
      /\ n \in Nat
      /\ operators'[n + 1] = r
      /\ \A x \in Ids : operators'[x] = operators[x]
  BY <1>1, <1>2 DEF Ids
<1>4. ActiveIds' = ActiveIds \cup {n + 1} /\ n + 1 \notin ActiveIds
  BY <1>1, <1>3 DEF ActiveIds
<1>5. IsFiniteSet(ActiveIds)
  BY ActiveIdsFinite DEF RegistryInv
<1>6. Cardinality(ActiveIds') = Cardinality(ActiveIds) + 1
  BY <1>4, <1>5, FS_AddElement
<1>7. (activeCount = Cardinality(ActiveIds))'
  BY <1>2, <1>6 DEF RegistryInv
<1>8. RegistryTypeOK'
  BY <1>2, <1>3, IndexStays DEF RegistryTypeOK, AddNodeOperator
<1>9. (\A x \in Ids : OperatorOK(operators[x]))'
  BY <1>1, <1>3 DEF RegistryInv
<1> QED BY <1>7, <1>8, <1>9 DEF RegistryInv

LEMMA SetNodeOperatorActiveKeeps ==
    ASSUME RegistryAssumption, RegistryInv, NEW id \in Ids, NEW active \in BOOLEAN,
           SetNodeOperatorActive(id, active)
    PROVE  RegistryInv'
<1> DEFINE o == operators[id]
           r == [o EXCEPT !.active = active]
<1>1. o \in NodeOperator /\ OperatorOK(o)
  BY OperatorBefore
<1>2. r \in NodeOperator /\ OperatorOK(r) /\ r.active = active
  BY <1>1 DEF NodeOperator, OperatorOK
<1>3. /\ operators \in Seq(NodeOperator)
      /\ operators' = [operators EXCEPT ![id] = r]
      /\ o.active # active
      /\ activeCount \in Nat
      /\ activeCount = Cardinality(ActiveIds)
      /\ activeCount' = IF active THEN activeCount + 1 ELSE activeCount - 1
  BY DEF RegistryInv, RegistryTypeOK, SetNodeOperatorActive, Update
<1> HIDE DEF r
<1>4. /\ operators' \in Seq(NodeOperator)
      /\ Ids' = Ids
      /\ operators'[id] = r
      /\ \A x \in Ids \ {id} : operators'[x] = operators[x]
  BY <1>2, <1>3 DEF Ids
<1>5. IsFiniteSet(ActiveIds)
  BY ActiveIdsFinite DEF RegistryInv
<1>6. activeCount' \in Nat /\ activeCount' = Cardinality(ActiveIds')
  <2>1. CASE active = TRUE
    <3>1. ActiveIds' = ActiveIds \cup {id} /\ id \notin ActiveIds
      BY <1>2, <1>3, <1>4, <2>1 DEF ActiveIds
    <3>2. Cardinality(ActiveIds') = Cardinality(ActiveIds) + 1
      BY <1>5, <3>1, FS_AddElement
    <3> QED BY <1>3, <2>1, <3>2
  <2>2. CASE active = FALSE
    <3>1. ActiveIds' = ActiveIds \ {id} /\ id \in ActiveIds
      <4>1. o.active = TRUE
        BY <1>1, <1>3, <2>2 DEF NodeOperator
      <4> QED BY <1>2, <1>4, <2>2, <4>1 DEF ActiveIds
    <3>2. /\ IsFiniteSet(ActiveIds')
          /\ Cardinality(ActiveIds') = Cardinality(ActiveIds) - 1
      BY <1>5, <3>1, FS_RemoveElement
    <3>3. Cardinality(ActiveIds') \in Nat
      BY <3>2, FS_CardinalityType
    <3> QED BY <1>3, <2>2, <3>2, <3>3
  <2> QED BY <2>1, <2>2
<1>7. RegistryTypeOK'
  BY <1>4, <1>6, IndexStays DEF RegistryTypeOK, SetNodeOperatorActive
<1>8. (\A x \in Ids : OperatorOK(operators[x]))'
  BY <1>2, <1>4 DEF RegistryInv
<1> QED BY <1>6, <1>7, <1>8 DEF RegistryInv

LEMMA SetNodeOperatorRewardAddressKeeps ==
    ASSUME RegistryAssumption, RegistryInv, NEW id \in Ids, NEW address \in RewardAddresses,
           SetNodeOperatorRewardAddress(id, address)
    PROVE  RegistryInv'
<1> DEFINE r == [operators[id] EXCEPT !.rewardAddress = address]
<1>1. r \in NodeOperator /\ OperatorOK(r) /\ r.active = operators[id].active
  BY OperatorBefore DEF NodeOperator, OperatorOK
<1>2. Update(id, r) /\ UNCHANGED activeCount /\ UNCHANGED keysOpIndex
  BY DEF SetNodeOperatorRewardAddress
<1>3. keysOpIndex' \in 0 .. WORD - 1
  BY <1>2, IndexStays
<1> HIDE DEF r
<1> QED BY <1>1, <1>2, <1>3, UpdateKeeps

LEMMA SetNodeOperatorStakingLimitKeeps ==
    ASSUME RegistryAssumption, RegistryInv, NEW id \in Ids, NEW limit \in StakingLimits,
           SetNodeOperatorStakingLimit(id, limit)
    PROVE  RegistryInv'
<1> DEFINE r == [operators[id] EXCEPT !.stakingLimit = limit]
<1>1. r \in NodeOperator /\ OperatorOK(r) /\ r.active = operators[id].active
  BY OperatorBefore DEF NodeOperator, OperatorOK, RegistryAssumption
<1>2. Update(id, r) /\ UNCHANGED activeCount /\ IncreaseKeysOpIndex
  BY DEF SetNodeOperatorStakingLimit
<1>3. keysOpIndex' \in 0 .. WORD - 1
  BY <1>2, IndexStays
<1> HIDE DEF r
<1> QED BY <1>1, <1>2, <1>3, UpdateKeeps

LEMMA ReportStoppedValidatorsKeeps ==
    ASSUME RegistryAssumption, RegistryInv, NEW id \in Ids, NEW increment \in Nat,
           ReportStoppedValidators(id, increment)
    PROVE  RegistryInv'
<1> DEFINE o == operators[id]
           r == [o EXCEPT !.stopped = @ + increment]
<1>1. o \in NodeOperator /\ OperatorOK(o) /\ o.stopped + increment <= o.used
  BY OperatorBefore DEF ReportStoppedValidators
<1>2. r \in NodeOperator /\ OperatorOK(r) /\ r.active = operators[id].active
  BY <1>1 DEF NodeOperator, OperatorOK
<1>3. Update(id, r) /\ UNCHANGED activeCount /\ UNCHANGED keysOpIndex
  BY DEF ReportStoppedValidators
<1>4. keysOpIndex' \in 0 .. WORD - 1
  BY <1>3, IndexStays
<1> HIDE DEF r
<1> QED BY <1>2, <1>3, <1>4, UpdateKeeps

\* The new keys are behind the last, so that the slots below the total are keys.
LEMMA AddSigningKeysKeeps ==
    ASSUME RegistryAssumption, RegistryInv, NEW id \in Ids, NEW new \in Seq(Keys),
           AddSigningKeys(id, new)
    PROVE  RegistryInv'
<1> DEFINE o == operators[id]
           n == Len(new)
           keys == [s \in Slots |-> IF s \in o.total .. o.total + Len(new) - 1
                                    THEN new[s - o.total + 1] ELSE o.keys[s]]
           r == [o EXCEPT !.total = @ + n, !.keys = keys]
<1>1. /\ o \in NodeOperator
      /\ OperatorOK(o)
      /\ o.total + n <= MaxKeys
      /\ n \in Nat
      /\ \A i \in 1 .. n : new[i] \in Keys
  BY OperatorBefore DEF AddSigningKeys
<1>2. \A s \in Slots : /\ s \in o.total .. o.total + n - 1 => keys[s] \in Keys
                       /\ s \notin o.total .. o.total + n - 1 => keys[s] = o.keys[s]
  BY <1>1 DEF NodeOperator, Slots
<1>3. keys \in [Slots -> Keys \cup {EmptyKey}]
  BY <1>1, <1>2 DEF NodeOperator
<1>4. Update(id, r) /\ UNCHANGED activeCount /\ IncreaseKeysOpIndex
  BY DEF AddSigningKeys
<1> HIDE DEF keys
<1>5. /\ r \in NodeOperator
      /\ r.total = o.total + n
      /\ r.used = o.used
      /\ r.stopped = o.stopped
      /\ r.active = o.active
      /\ r.keys = keys
  <2> HIDE DEF n
  <2>1. MaxKeys \in Nat /\ o.total \in Nat
    BY <1>1 DEF NodeOperator, RegistryAssumption
  <2>2. o.total + n \in 0 .. MaxKeys
    BY <1>1, <2>1
  <2> QED BY <1>1, <1>3, <2>2 DEF NodeOperator
<1> HIDE DEF r
<1>6. ASSUME NEW s \in 0 .. r.total - 1 PROVE r.keys[s] # EmptyKey
  <2>1. s \in Slots
    BY SMTT(60), <1>1, <1>5 DEF Slots, NodeOperator, RegistryAssumption
  <2>2. CASE s \in 0 .. o.total - 1
    BY <1>1, <1>2, <1>5, <2>1, <2>2 DEF OperatorOK, NodeOperator
  <2>3. CASE s \in o.total .. o.total + n - 1
    BY <1>2, <1>5, <2>1, <2>3 DEF RegistryAssumption
  <2>4. o.total \in Nat
    BY <1>1 DEF NodeOperator, RegistryAssumption
  <2>5. s \in 0 .. o.total - 1 \/ s \in o.total .. o.total + n - 1
    BY <1>1, <1>5, <2>4
  <2> QED BY <2>2, <2>3, <2>5
<1>7. OperatorOK(r)
  BY <1>1, <1>5, <1>6 DEF OperatorOK, NodeOperator
<1>8. keysOpIndex' \in 0 .. WORD - 1
  BY <1>4, IndexStays
<1> QED BY <1>4, <1>5, <1>7, <1>8, UpdateKeeps

LEMMA RemoveSigningKeysKeeps ==
    ASSUME RegistryAssumption, RegistryInv, NEW id \in Ids, NEW index \in Nat, NEW amount \in Nat,
           RemoveSigningKeys(id, index, amount)
    PROVE  RegistryInv'
<1> DEFINE o == operators[id]
           r == AllRemoved(o, index, amount)
<1>1. /\ o \in NodeOperator
      /\ OperatorOK(o)
      /\ index + amount <= o.total
      /\ o.used <= index
  BY OperatorBefore DEF RemoveSigningKeys, NodeOperator
<1>2. Update(id, r) /\ UNCHANGED activeCount
  BY DEF RemoveSigningKeys
<1>3. Shrunk(r, o, amount)
  BY <1>1, AllRemovedShrinks
<1>4. keysOpIndex' \in 0 .. WORD - 1
  <2>1. keysOpIndex + amount \in Nat
    BY DEF RegistryInv, RegistryTypeOK
  <2> QED BY <2>1, WordIsPositive DEF RemoveSigningKeys
<1> HIDE DEF r
<1> QED BY <1>2, <1>3, <1>4, UpdateKeeps DEF Shrunk

\* Operators of which only the total and the used keys change, in order.
LEMMA RecountKeeps ==
    ASSUME RegistryInv, NEW new \in [Ids -> NodeOperator], operators' = new,
           UNCHANGED activeCount, keysOpIndex' \in 0 .. WORD - 1,
           \A id \in Ids : OperatorOK(new[id]) /\ new[id].active = operators[id].active
    PROVE  RegistryInv'
<1>1. Ids = 1 .. Len(operators) /\ Len(operators) \in Nat
  BY DEF Ids, RegistryInv, RegistryTypeOK
<1>2. new \in Seq(NodeOperator) /\ DOMAIN new = Ids
  <2>1. new \in [1 .. Len(operators) -> NodeOperator]
    BY <1>1
  <2> QED BY <1>1, <2>1
<1>3. operators' \in Seq(NodeOperator) /\ Ids' = Ids
  BY <1>2 DEF Ids
<1>4. ActiveIds' = ActiveIds
  BY <1>3 DEF ActiveIds
<1>5. RegistryTypeOK' /\ (activeCount = Cardinality(ActiveIds))'
  BY <1>3, <1>4 DEF RegistryInv, RegistryTypeOK
<1>6. (\A id \in Ids : OperatorOK(operators[id]))'
  BY <1>3
<1> QED BY <1>5, <1>6 DEF RegistryInv

LEMMA TrimUnusedKeysKeeps ==
    ASSUME RegistryAssumption, RegistryInv, TrimUnusedKeys
    PROVE  RegistryInv'
<1> DEFINE new == [id \in Ids |-> [operators[id] EXCEPT !.total = operators[id].used]]
<1>1. ASSUME NEW id \in Ids
      PROVE  /\ new[id] \in NodeOperator
             /\ OperatorOK(new[id])
             /\ new[id].active = operators[id].active
  <2>1. new[id] = [operators[id] EXCEPT !.total = operators[id].used]
    OBVIOUS
  <2> HIDE DEF new
  <2>2. operators[id] \in NodeOperator /\ OperatorOK(operators[id])
    BY OperatorBefore
  <2> QED BY <2>1, <2>2 DEF NodeOperator, OperatorOK
<1>2. new \in [Ids -> NodeOperator]
  BY <1>1
<1>3. operators' = new /\ UNCHANGED activeCount /\ UNCHANGED keysOpIndex
  BY DEF TrimUnusedKeys
<1>4. keysOpIndex' \in 0 .. WORD - 1
  BY <1>3, IndexStays
<1> HIDE DEF new
<1> QED BY <1>1, <1>2, <1>3, <1>4, RecountKeeps

LEMMA OperationKeeps ==
    ASSUME RegistryAssumption, RegistryInv, Operation
    PROVE  RegistryInv'
<1>1. ASSUME NEW id \in Ids, NEW key \in Keys, NEW other \in Keys,
             AddSigningKeys(id, <<key>>) \/ AddSigningKeys(id, <<key, other>>)
      PROVE  RegistryInv'
  <2>1. <<key>> \in Seq(Keys) /\ <<key, other>> \in Seq(Keys)
    OBVIOUS
  <2> QED BY <1>1, <2>1, AddSigningKeysKeeps
<1>2. ASSUME NEW id \in Ids, NEW index \in Slots, NEW amount \in 1 .. MaxKeys,
             RemoveSigningKeys(id, index, amount)
      PROVE  RegistryInv'
  <2>1. index \in Nat /\ amount \in Nat
    BY DEF Slots, RegistryAssumption
  <2> QED BY <1>2, <2>1, RemoveSigningKeysKeeps
<1>3. ASSUME NEW id \in Ids, NEW increment \in 1 .. MaxKeys,
             ReportStoppedValidators(id, increment)
      PROVE  RegistryInv'
  BY <1>3, ReportStoppedValidatorsKeeps
<1>4. ASSUME NEW address \in RewardAddresses, AddNodeOperator(address)
      PROVE  RegistryInv'
  BY <1>4, AddNodeOperatorKeeps
<1>5. ASSUME NEW id \in Ids, NEW active \in BOOLEAN, SetNodeOperatorActive(id, active)
      PROVE  RegistryInv'
  BY <1>5, SetNodeOperatorActiveKeeps
<1>6. ASSUME NEW id \in Ids, NEW address \in RewardAddresses,
             SetNodeOperatorRewardAddress(id, address)
      PROVE  RegistryInv'
  BY <1>6, SetNodeOperatorRewardAddressKeeps
<1>7. ASSUME NEW id \in Ids, NEW limit \in StakingLimits, SetNodeOperatorStakingLimit(id, limit)
      PROVE  RegistryInv'
  BY <1>7, SetNodeOperatorStakingLimitKeeps
<1> QED BY <1>1, <1>2, <1>3, <1>4, <1>5, <1>6, <1>7, TrimUnusedKeysKeeps DEF Operation

-----------------------------------------------------------------------------
(* Assigning keys *)

UsedNow == [id \in Ids |-> operators[id].used]

StakeWith(u, id) == u[id] - operators[id].stopped

OneMore(u) ==
    IF Eligible(u) = {} THEN u ELSE [u EXCEPT ![Best(u)] = @ + 1]

\* The numbers of used keys through a search for n of them.
IsUsed(f, n) == f = [k \in 0 .. n |-> IF k = 0 THEN UsedNow ELSE OneMore(f[k - 1])]

LEMMA UsedExists ==
    ASSUME NEW n \in Nat
    PROVE  \E f : IsUsed(f, n)
<1> DEFINE T == {m \in 0 .. n : \E f : IsUsed(f, m)}
<1>1. 0 \in T
  <2>1. IsUsed([k \in 0 .. 0 |-> UsedNow], 0)
    BY DEF IsUsed
  <2> QED BY <2>1
<1>2. ASSUME NEW m \in 0 .. n - 1, m \in T PROVE m + 1 \in T
  <2>1. PICK f : IsUsed(f, m)
    BY <1>2
  <2> DEFINE g == [k \in 0 .. m + 1 |-> IF k = 0 THEN UsedNow ELSE OneMore(f[k - 1])]
  <2>2. \A k \in 0 .. m : g[k] = f[k]
    BY <2>1 DEF IsUsed
  <2>3. \A k \in 0 .. m + 1 : k # 0 => k - 1 \in 0 .. m
    OBVIOUS
  <2>4. g = [k \in 0 .. m + 1 |-> IF k = 0 THEN UsedNow ELSE OneMore(g[k - 1])]
    BY <2>2, <2>3
  <2> HIDE DEF g
  <2>5. IsUsed(g, m + 1)
    BY <2>4 DEF IsUsed
  <2>6. m + 1 \in 0 .. n
    OBVIOUS
  <2> QED BY <2>5, <2>6
<1> HIDE DEF T
<1>3. T \in SUBSET (0 .. n)
  BY DEF T
<1>4. n \in T
  BY <1>1, <1>2, <1>3, UpTo
<1> QED BY <1>4 DEF T

LEMMA UsedAfterIs ==
    ASSUME NEW n \in Nat
    PROVE  \E f : UsedAfter(n) = f[n] /\ IsUsed(f, n)
<1> DEFINE used == CHOOSE f : IsUsed(f, n)
<1>1. IsUsed(used, n)
  <2>1. \E f : IsUsed(f, n)
    BY UsedExists
  <2> QED BY <2>1
<1>2. UsedAfter(n) = used[n]
  BY DEF UsedAfter, IsUsed, UsedNow, OneMore
<1> HIDE DEF used
<1> QED BY <1>1, <1>2

\* Numbers of used keys that a search may come to.
Counted(u) ==
    /\ u \in [Ids -> Nat]
    /\ \A id \in Ids : operators[id].used <= u[id] /\ u[id] <= operators[id].total

\* Whoever got a key has at most one validator more than whoever may get one.
FairWith(u) ==
    \A id \in Ids : \A other \in Eligible(u) :
        u[id] > operators[id].used => StakeWith(u, id) <= StakeWith(u, other) + 1

\* `n' keys were found, or there are no more.
CompleteWith(u, n) ==
    SupplyOf(u) = SupplyOf(UsedNow) + n \/ Eligible(u) = {}

\* The operator that is chosen may get a key and has a least stake.
LEMMA BestIsLeast ==
    ASSUME RegistryInv, NEW u, Counted(u), Eligible(u) # {}
    PROVE  /\ Best(u) \in Eligible(u)
           /\ \A other \in Eligible(u) : StakeWith(u, Best(u)) <= StakeWith(u, other)
<1> DEFINE Least(id) == \A other \in Eligible(u) \ {id} :
                           \/ StakeWith(u, id) < StakeWith(u, other)
                           \/ StakeWith(u, id) = StakeWith(u, other) /\ id < other
           Stakes == {StakeWith(u, id) : id \in Eligible(u)}
<1>1. Eligible(u) \subseteq Ids /\ Ids \subseteq Nat
  BY DEF Eligible, ActiveIds, Ids, RegistryInv, RegistryTypeOK
<1>2. \A id \in Ids : StakeWith(u, id) \in Nat
  <2>1. SUFFICES ASSUME NEW id \in Ids PROVE StakeWith(u, id) \in Nat
    OBVIOUS
  <2>2. operators[id] \in NodeOperator /\ OperatorOK(operators[id])
    BY OperatorBefore
  <2> QED BY <2>2 DEF Counted, StakeWith, OperatorOK, NodeOperator
<1>3. PICK s \in Stakes : \A t \in Stakes : s <= t
  <2>1. Stakes \in SUBSET Nat /\ Stakes # {}
    BY <1>1, <1>2
  <2> QED BY <2>1, NatMinimum
<1> DEFINE First == {id \in Eligible(u) : StakeWith(u, id) = s}
<1>4. PICK id \in First : \A other \in First : id <= other
  <2>1. First \in SUBSET Nat
    BY <1>1
  <2>2. First # {}
    OBVIOUS
  <2> QED BY <2>1, <2>2, NatMinimum
<1>5. id \in Eligible(u) /\ Least(id)
  <2>1. ASSUME NEW other \in Eligible(u) \ {id}
        PROVE  \/ StakeWith(u, id) < StakeWith(u, other)
               \/ StakeWith(u, id) = StakeWith(u, other) /\ id < other
    <3>1. s <= StakeWith(u, other) /\ s = StakeWith(u, id) /\ id \in Nat /\ other \in Nat
      BY <1>1, <1>3, <1>4
    <3>2. StakeWith(u, other) \in Nat /\ s \in Nat
      BY <1>1, <1>2, <3>1
    <3>3. CASE StakeWith(u, other) = s
      BY <1>4, <3>1, <3>3
    <3>4. CASE StakeWith(u, other) # s
      BY <3>1, <3>2, <3>4
    <3> QED BY <3>3, <3>4
  <2> QED BY <2>1
<1>6. Best(u) = CHOOSE x \in Eligible(u) : Least(x)
  BY DEF Best, StakeWith
<1> HIDE DEF Least
<1>7. Best(u) \in Eligible(u) /\ Least(Best(u))
  BY <1>5, <1>6
<1>8. ASSUME NEW other \in Eligible(u)
      PROVE  StakeWith(u, Best(u)) <= StakeWith(u, other)
  <2>1. StakeWith(u, Best(u)) \in Nat /\ StakeWith(u, other) \in Nat
    BY <1>1, <1>2, <1>7
  <2> QED BY <1>7, <2>1 DEF Least
<1> QED BY <1>7, <1>8

\* One more key found.
LEMMA FoundKeeps ==
    ASSUME RegistryInv, NEW u, Counted(u), FairWith(u), Eligible(u) # {},
           NEW v, v = [u EXCEPT ![Best(u)] = @ + 1]
    PROVE  Counted(v) /\ FairWith(v) /\ SupplyOf(v) = SupplyOf(u) + 1
<1> DEFINE b == Best(u)
<1>1. b \in Eligible(u) /\ \A other \in Eligible(u) : StakeWith(u, b) <= StakeWith(u, other)
  BY BestIsLeast
<1> HIDE DEF b
<1>2. b \in Ids /\ u[b] < operators[b].total
  BY <1>1 DEF Eligible, ActiveIds
<1>3. /\ u \in [Ids -> Nat]
      /\ v \in [Ids -> Nat]
      /\ v[b] = u[b] + 1
      /\ \A id \in Ids \ {b} : v[id] = u[id]
  BY <1>2 DEF Counted, b
<1>4. \A id \in Ids : /\ operators[id].used \in Nat
                      /\ operators[id].stopped \in Nat
                      /\ operators[id].total \in Nat
                      /\ operators[id].stakingLimit \in Nat
  BY OperatorBefore DEF NodeOperator
<1>5. Counted(v)
  BY <1>2, <1>3, <1>4 DEF Counted
<1>6. Eligible(v) \subseteq Eligible(u) /\ Eligible(u) \subseteq Ids
  <2>1. Eligible(u) \subseteq Ids /\ Eligible(v) \subseteq Ids
    BY DEF Eligible, ActiveIds
  <2>2. ASSUME NEW id \in Eligible(v) PROVE id \in Eligible(u)
    <3>1. CASE id = b
      BY <1>1, <3>1
    <3>2. CASE id # b
      BY <1>3, <2>1, <3>2 DEF Eligible
    <3> QED BY <3>1, <3>2
  <2> QED BY <2>1, <2>2
<1>7. FairWith(v)
  <2>1. SUFFICES ASSUME NEW id \in Ids, NEW other \in Eligible(v), v[id] > operators[id].used
                 PROVE  StakeWith(v, id) <= StakeWith(v, other) + 1
    BY DEF FairWith
  <2>2. other \in Eligible(u) /\ other \in Ids
    BY <1>6
  <2>3. /\ StakeWith(u, id) \in Int
        /\ StakeWith(u, other) \in Int
        /\ StakeWith(v, b) = StakeWith(u, b) + 1
        /\ StakeWith(u, b) \in Int
        /\ \A x \in Ids \ {b} : StakeWith(v, x) = StakeWith(u, x)
    BY <1>2, <1>3, <1>4, <2>2 DEF StakeWith
  <2>4. StakeWith(u, other) <= StakeWith(v, other) /\ StakeWith(v, other) \in Int
    <3>1. CASE other = b
      BY <2>3, <3>1
    <3>2. CASE other # b
      <4>1. StakeWith(v, other) = StakeWith(u, other)
        BY <2>2, <2>3, <3>2
      <4> QED BY <2>3, <4>1
    <3> QED BY <3>1, <3>2
  <2>6. CASE id = b
    BY <1>1, <2>2, <2>3, <2>4, <2>6
  <2>7. CASE id # b
    <3>1. u[id] > operators[id].used /\ StakeWith(v, id) = StakeWith(u, id)
      BY <1>3, <2>1, <2>3, <2>7
    <3>2. StakeWith(u, id) <= StakeWith(u, other) + 1
      BY <2>2, <3>1 DEF FairWith
    <3> QED BY <2>3, <2>4, <3>1, <3>2
  <2> QED BY <2>6, <2>7
<1>8. SupplyOf(v) = SupplyOf(u) + 1
  <2>1. IsFiniteSet(Ids)
    BY ActiveIdsFinite DEF RegistryInv
  <2>2. b \in Ids /\ u \in [Ids -> Nat] /\ v \in [Ids -> Nat]
    BY <1>2, <1>3
  <2>3. v[b] = u[b] + 1
    BY <1>3
  <2>4. \A id \in Ids \ {b} : v[id] = u[id]
    BY <1>3
  <2>5. 1 \in Nat
    OBVIOUS
  <2> QED BY ONLY <2>1, <2>2, <2>3, <2>4, <2>5, SupplyChange
<1> QED BY <1>5, <1>7, <1>8

\* The whole search.
LEMMA UsedAfterFair ==
    ASSUME RegistryInv, NEW n \in Nat
    PROVE  /\ Counted(UsedAfter(n))
           /\ FairWith(UsedAfter(n))
           /\ CompleteWith(UsedAfter(n), n)
<1>1. PICK f : UsedAfter(n) = f[n] /\ IsUsed(f, n)
  BY UsedAfterIs
<1> DEFINE T == {k \in 0 .. n : Counted(f[k]) /\ FairWith(f[k]) /\ CompleteWith(f[k], k)}
<1>2. IsFiniteSet(Ids)
  BY ActiveIdsFinite DEF RegistryInv
<1>3. \A id \in Ids : operators[id].used \in Nat /\ operators[id].used <= operators[id].total
  BY OperatorBefore DEF NodeOperator, OperatorOK
<1>4. 0 \in T
  <2>1. f[0] = UsedNow
    BY <1>1 DEF IsUsed
  <2>2. Counted(UsedNow)
    BY <1>3 DEF Counted, UsedNow
  <2>3. FairWith(UsedNow)
    BY <1>3 DEF FairWith, UsedNow
  <2>4. SupplyOf(UsedNow) \in Nat
    BY <1>2, <2>2, UnitsFinite DEF Counted
  <2>5. CompleteWith(UsedNow, 0)
    BY <2>4 DEF CompleteWith
  <2> QED BY <2>1, <2>2, <2>3, <2>5
<1>5. ASSUME NEW k \in 0 .. n - 1, k \in T PROVE k + 1 \in T
  <2> DEFINE u == f[k]
             v == f[k + 1]
  <2>1. v = IF Eligible(u) = {} THEN u ELSE [u EXCEPT ![Best(u)] = @ + 1]
    <3>1. k + 1 \in 0 .. n /\ k + 1 # 0 /\ (k + 1) - 1 = k
      OBVIOUS
    <3> QED BY <1>1, <3>1 DEF IsUsed, OneMore
  <2>2. Counted(u) /\ FairWith(u) /\ CompleteWith(u, k)
    BY <1>5
  <2>3. Counted(v) /\ FairWith(v) /\ CompleteWith(v, k + 1)
    <3> HIDE DEF u, v
    <3>1. CASE Eligible(u) = {}
      BY <2>1, <2>2, <3>1 DEF CompleteWith
    <3>2. CASE Eligible(u) # {}
      <4>1. Counted(v) /\ FairWith(v) /\ SupplyOf(v) = SupplyOf(u) + 1
        BY <2>1, <2>2, <3>2, FoundKeeps
      <4>2. SupplyOf(u) = SupplyOf(UsedNow) + k
        BY <2>2, <3>2 DEF CompleteWith
      <4>3. SupplyOf(UsedNow) \in Nat
        <5>1. UsedNow \in [Ids -> Nat]
          BY <1>3 DEF UsedNow
        <5> QED BY <1>2, <5>1, UnitsFinite
      <4> QED BY <4>1, <4>2, <4>3 DEF CompleteWith
    <3> QED BY <3>1, <3>2
  <2>4. k + 1 \in 0 .. n
    OBVIOUS
  <2> QED BY <2>3, <2>4
<1> HIDE DEF T
<1>6. T \in SUBSET (0 .. n)
  BY DEF T
<1>7. n \in T
  BY <1>4, <1>5, <1>6, UpTo
<1> QED BY <1>1, <1>7 DEF T

LEMMA AssignNextSigningKeysKeeps ==
    ASSUME RegistryAssumption, RegistryInv, NEW n \in Nat, AssignNextSigningKeys(n)
    PROVE  /\ RegistryInv'
           /\ Ids' = Ids
           /\ \A id \in Ids : operators'[id] = [operators[id] EXCEPT !.used = UsedAfter(n)[id]]
<1> DEFINE u == UsedAfter(n)
           new == [id \in Ids |-> [operators[id] EXCEPT !.used = u[id]]]
<1>1. Counted(u)
  BY UsedAfterFair
<1>2. operators' = new /\ UNCHANGED activeCount
  BY DEF AssignNextSigningKeys
<1>3. keysOpIndex' \in 0 .. WORD - 1
  BY IndexStays DEF AssignNextSigningKeys
<1> HIDE DEF u
<1>4. ASSUME NEW id \in Ids
      PROVE  /\ new[id] \in NodeOperator
             /\ OperatorOK(new[id])
             /\ new[id].active = operators[id].active
  <2>1. new[id] = [operators[id] EXCEPT !.used = u[id]]
    OBVIOUS
  <2>2. operators[id] \in NodeOperator /\ OperatorOK(operators[id])
    BY OperatorBefore
  <2>3. u[id] \in Nat /\ operators[id].used <= u[id] /\ u[id] <= operators[id].total
    BY <1>1 DEF Counted
  <2>4. MaxKeys \in Nat
    BY DEF RegistryAssumption
  <2>5. u[id] \in 0 .. MaxKeys
    BY <2>2, <2>3, <2>4 DEF NodeOperator
  <2> HIDE DEF new
  <2> QED BY <2>1, <2>2, <2>3, <2>5 DEF NodeOperator, OperatorOK
<1>5. new \in [Ids -> NodeOperator]
  BY <1>4
<1>6. \A id \in Ids : operators'[id] = [operators[id] EXCEPT !.used = UsedAfter(n)[id]]
  BY <1>2 DEF u
<1>7. Ids' = Ids
  BY <1>2 DEF Ids
<1> HIDE DEF new
<1>8. RegistryInv'
  BY <1>2, <1>3, <1>4, <1>5, RecountKeeps
<1> QED BY <1>6, <1>7, <1>8

LEMMA RegistryInit == RegistryAssumption /\ Init => RegistryInv
<1>1. SUFFICES ASSUME RegistryAssumption, Init PROVE RegistryInv
  OBVIOUS
<1>2. operators = <<>> /\ activeCount = 0 /\ keysOpIndex = 0
  BY <1>1 DEF Init
<1>3. Ids = {} /\ operators \in Seq(NodeOperator)
  BY <1>2 DEF Ids
<1>4. ActiveIds = {}
  BY <1>3 DEF ActiveIds
<1>5. RegistryTypeOK
  BY <1>1, <1>2, <1>3 DEF RegistryTypeOK, RegistryAssumption
<1> QED BY <1>2, <1>3, <1>4, <1>5, FS_EmptySet DEF RegistryInv

LEMMA RegistrySame ==
    RegistryInv /\ UNCHANGED registryVars => RegistryInv'
BY DEF RegistryInv, RegistryTypeOK, registryVars, ActiveIds, Ids, OperatorOK

LEMMA RegistryNext == RegistryAssumption /\ RegistryInv /\ [Next]_registryVars => RegistryInv'
<1>1. SUFFICES ASSUME RegistryAssumption, RegistryInv, [Next]_registryVars PROVE RegistryInv'
  OBVIOUS
<1>2. CASE Operation
  BY <1>1, <1>2, OperationKeeps
<1>3. ASSUME NEW n \in 1 .. MaxAssigned, AssignNextSigningKeys(n) PROVE RegistryInv'
  <2>1. n \in Nat
    OBVIOUS
  <2> QED BY <1>1, <1>3, <2>1, AssignNextSigningKeysKeeps
<1>4. CASE UNCHANGED registryVars
  BY <1>1, <1>4, RegistrySame
<1> QED BY <1>1, <1>2, <1>3, <1>4 DEF Next

LEMMA RegistryInvariant == Spec => []RegistryInv
<1>1. Init => RegistryInv
  BY RegistryInit, RegistryAssumption
<1>2. RegistryInv /\ [Next]_registryVars => RegistryInv'
  BY RegistryNext, RegistryAssumption
<1> QED BY <1>1, <1>2, PTL DEF Spec

-----------------------------------------------------------------------------
(* Invariants *)

\* The counters of an operator stay in order and the cached count is the number
\* of active operators, whatever is added, removed, trimmed, assigned, reported
\* stopped or switched on and off (_loadOperatorCache, assignNextSigningKeys).
THEOREM RegistryCountersInOrder == Spec => []CountersInOrder
<1>1. RegistryInv => CountersInOrder
  BY RegistryInvMeans
<1> QED BY <1>1, RegistryInvariant, PTL

\* No slot below the total is empty, however many keys _removeSigningKey moved.
THEOREM RegistryKeysAreStored == Spec => []KeysAreStored
<1>1. RegistryInv => KeysAreStored
  BY RegistryInvMeans
<1> QED BY <1>1, RegistryInvariant, PTL

\* A ledger times a number sums to the sum times the number.
LEMMA SupplyTimes ==
    ASSUME NEW S, IsFiniteSet(S), NEW f \in [S -> Nat], NEW c \in Nat
    PROVE  SupplyOf([x \in S |-> f[x] * c]) = SupplyOf(f) * c
<1> DEFINE Times(k) == [x \in S |-> f[x] * k]
           T == {k \in 0 .. c : SupplyOf(Times(k)) = SupplyOf(f) * k}
<1>1. SupplyOf(f) \in Nat
  BY UnitsFinite
<1>2. 0 \in T
  <2>1. Times(0) \in [S -> {0}]
    OBVIOUS
  <2> HIDE DEF Times
  <2>2. SupplyOf(Times(0)) = 0
    BY <2>1, SupplyNone
  <2> QED BY <1>1, <2>2
<1>3. ASSUME NEW k \in 0 .. c - 1, k \in T PROVE k + 1 \in T
  <2>1. Times(k) \in [S -> Nat]
    OBVIOUS
  <2>2. \A x \in S : f[x] * (k + 1) = f[x] * k + f[x]
    OBVIOUS
  <2>3. Times(k + 1) = Sum(S, Times(k), f)
    BY <2>2 DEF Sum
  <2> HIDE DEF Times
  <2>4. SupplyOf(Times(k + 1)) = SupplyOf(Times(k)) + SupplyOf(f)
    BY <2>1, <2>3, SupplyAdd
  <2>5. SupplyOf(f) * (k + 1) = SupplyOf(f) * k + SupplyOf(f)
    BY <1>1
  <2>6. k + 1 \in 0 .. c
    OBVIOUS
  <2> QED BY <1>3, <2>4, <2>5, <2>6
<1> HIDE DEF T
<1>4. T \in SUBSET (0 .. c)
  BY DEF T
<1>5. c \in T
  BY <1>2, <1>3, <1>4, UpTo
<1> QED BY <1>5 DEF T

LEMMA Share ==
    ASSUME NEW amount \in Nat, NEW all \in Nat \ {0}
    PROVE  amount \div all \in Nat /\ all * (amount \div all) <= amount
OBVIOUS

\* The operators never get more than what is divided, of any amount.
LEMMA DividedWithin ==
    ASSUME RegistryInv, NEW amount \in Nat
    PROVE  SupplyOf(RewardsDistribution(amount)) <= amount
<1> DEFINE all == SupplyOf(Validators)
           c == amount \div all
<1>1. Validators \in [ActiveIds -> Nat]
  <2>1. ASSUME NEW id \in ActiveIds PROVE Stake(operators[id]) \in Nat
    <3>1. id \in Ids
      BY DEF ActiveIds
    <3> QED BY <3>1, OperatorBefore DEF Stake, NodeOperator, OperatorOK
  <2> QED BY <2>1 DEF Validators
<1>2. IsFiniteSet(ActiveIds)
  BY ActiveIdsFinite DEF RegistryInv
<1>3. all \in Nat
  BY <1>1, <1>2, UnitsFinite
<1>4. CASE all = 0
  <2>1. RewardsDistribution(amount) = Validators
    BY <1>4 DEF RewardsDistribution
  <2> QED BY <1>4, <2>1
<1>5. CASE all # 0
  <2>1. c \in Nat /\ all * c <= amount
    BY <1>3, <1>5, Share
  <2>2. RewardsDistribution(amount) = [id \in ActiveIds |-> Validators[id] * c]
    BY <1>5 DEF RewardsDistribution
  <2> HIDE DEF c
  <2>3. SupplyOf([id \in ActiveIds |-> Validators[id] * c]) = all * c
    BY <1>1, <1>2, <2>1, SupplyTimes
  <2> QED BY <2>1, <2>2, <2>3
<1> QED BY <1>4, <1>5

\* The division of a reward never hands out more than the reward
\* (getRewardsDistribution), so that what is left for the treasury exists.
THEOREM RegistryRewardsWithinTotal == Spec => []RewardsWithinTotal
<1>1. ASSUME RegistryInv PROVE RewardsWithinTotal
  <2>1. \A amount \in 0 .. 2 * MaxKeys : amount \in Nat
    OBVIOUS
  <2> QED BY <1>1, <2>1, DividedWithin DEF RewardsWithinTotal
<1> QED BY <1>1, RegistryInvariant, PTL

-----------------------------------------------------------------------------
(* Action properties *)

\* An operation leaves the used keys of every operator alone.
UsedStays ==
    \A id \in Ids :
        /\ operators'[id].used = operators[id].used
        /\ \A s \in 0 .. operators[id].used - 1 : operators'[id].keys[s] = operators[id].keys[s]

LEMMA UpdateLeavesUsed ==
    ASSUME RegistryInv, NEW id \in Ids, NEW r, Update(id, r), r.used = operators[id].used,
           \A s \in 0 .. operators[id].used - 1 : r.keys[s] = operators[id].keys[s]
    PROVE  UsedStays
<1>1. operators'[id] = r /\ \A x \in Ids \ {id} : operators'[x] = operators[x]
  BY DEF Update, Ids
<1> QED BY <1>1 DEF UsedStays

LEMMA OperationLeavesUsed ==
    ASSUME RegistryAssumption, RegistryInv, Operation
    PROVE  UsedStays
<1>1. ASSUME NEW address \in RewardAddresses, AddNodeOperator(address) PROVE UsedStays
  <2>1. \A x \in Ids : operators'[x] = operators[x]
    BY <1>1 DEF AddNodeOperator, RegistryInv, RegistryTypeOK, Ids
  <2> QED BY <2>1 DEF UsedStays
<1>2. ASSUME NEW id \in Ids, NEW active \in BOOLEAN, SetNodeOperatorActive(id, active)
      PROVE  UsedStays
  <2> DEFINE r == [operators[id] EXCEPT !.active = active]
  <2>1. r.used = operators[id].used /\ r.keys = operators[id].keys
    BY OperatorBefore DEF NodeOperator
  <2>2. Update(id, r)
    BY <1>2 DEF SetNodeOperatorActive
  <2> HIDE DEF r
  <2> QED BY <2>1, <2>2, UpdateLeavesUsed
<1>3. ASSUME NEW id \in Ids, NEW address \in RewardAddresses,
             SetNodeOperatorRewardAddress(id, address)
      PROVE  UsedStays
  <2> DEFINE r == [operators[id] EXCEPT !.rewardAddress = address]
  <2>1. r.used = operators[id].used /\ r.keys = operators[id].keys
    BY OperatorBefore DEF NodeOperator
  <2>2. Update(id, r)
    BY <1>3 DEF SetNodeOperatorRewardAddress
  <2> HIDE DEF r
  <2> QED BY <2>1, <2>2, UpdateLeavesUsed
<1>4. ASSUME NEW id \in Ids, NEW limit \in StakingLimits, SetNodeOperatorStakingLimit(id, limit)
      PROVE  UsedStays
  <2> DEFINE r == [operators[id] EXCEPT !.stakingLimit = limit]
  <2>1. r.used = operators[id].used /\ r.keys = operators[id].keys
    BY OperatorBefore DEF NodeOperator
  <2>2. Update(id, r)
    BY <1>4 DEF SetNodeOperatorStakingLimit
  <2> HIDE DEF r
  <2> QED BY <2>1, <2>2, UpdateLeavesUsed
<1>5. ASSUME NEW id \in Ids, NEW increment \in 1 .. MaxKeys, ReportStoppedValidators(id, increment)
      PROVE  UsedStays
  <2> DEFINE r == [operators[id] EXCEPT !.stopped = @ + increment]
  <2>1. r.used = operators[id].used /\ r.keys = operators[id].keys
    BY OperatorBefore DEF NodeOperator
  <2>2. Update(id, r)
    BY <1>5 DEF ReportStoppedValidators
  <2> HIDE DEF r
  <2> QED BY <2>1, <2>2, UpdateLeavesUsed
<1>6. ASSUME NEW id \in Ids, NEW new, AddSigningKeys(id, new) PROVE UsedStays
  <2> DEFINE o == operators[id]
             keys == [s \in Slots |-> IF s \in o.total .. o.total + Len(new) - 1
                                      THEN new[s - o.total + 1] ELSE o.keys[s]]
             r == [o EXCEPT !.total = @ + Len(new), !.keys = keys]
  <2>1. o \in NodeOperator /\ OperatorOK(o)
    BY OperatorBefore
  <2>2. ASSUME NEW s \in 0 .. o.used - 1 PROVE keys[s] = o.keys[s]
    <3>1. s \in Slots /\ s < o.total
      BY <2>1 DEF Slots, NodeOperator, OperatorOK, RegistryAssumption
    <3>2. s \notin o.total .. o.total + Len(new) - 1
      BY <2>1, <3>1 DEF NodeOperator
    <3> QED BY <3>1, <3>2
  <2>3. Update(id, r)
    BY <1>6 DEF AddSigningKeys
  <2> HIDE DEF keys
  <2>4. r.used = o.used /\ r.keys = keys
    BY <2>1 DEF NodeOperator
  <2> HIDE DEF r
  <2> QED BY <2>2, <2>3, <2>4, UpdateLeavesUsed
<1>7. ASSUME NEW id \in Ids, NEW index \in Slots, NEW amount \in 1 .. MaxKeys,
             RemoveSigningKeys(id, index, amount)
      PROVE  UsedStays
  <2> DEFINE o == operators[id]
             r == AllRemoved(o, index, amount)
  <2>1. /\ o \in NodeOperator
        /\ OperatorOK(o)
        /\ index \in Nat
        /\ amount \in Nat
        /\ index + amount <= o.total
        /\ o.used <= index
    BY <1>7, OperatorBefore DEF RemoveSigningKeys, NodeOperator, Slots, RegistryAssumption
  <2>2. Shrunk(r, o, amount)
    BY <2>1, AllRemovedShrinks
  <2>3. Update(id, r)
    BY <1>7 DEF RemoveSigningKeys
  <2> HIDE DEF r
  <2> QED BY <2>2, <2>3, UpdateLeavesUsed DEF Shrunk
<1>8. ASSUME TrimUnusedKeys PROVE UsedStays
  <2>1. ASSUME NEW id \in Ids
        PROVE  operators'[id].used = operators[id].used /\ operators'[id].keys = operators[id].keys
    <3>1. operators'[id] = [operators[id] EXCEPT !.total = operators[id].used]
      BY <1>8 DEF TrimUnusedKeys
    <3> QED BY <3>1, OperatorBefore DEF NodeOperator
  <2> QED BY <2>1 DEF UsedStays
<1> QED BY <1>1, <1>2, <1>3, <1>4, <1>5, <1>6, <1>7, <1>8 DEF Operation

\* What an assignment changes: as many used keys as the search came to.
LEMMA AssignmentCounts ==
    ASSUME RegistryAssumption, RegistryInv, NEW n \in Nat, AssignNextSigningKeys(n)
    PROVE  /\ Ids' = Ids
           /\ [i \in Ids |-> operators'[i].used] = UsedAfter(n)
           /\ Eligible([i \in Ids |-> operators[i].used])' = Eligible(UsedAfter(n))
           /\ \A id \in Ids : /\ operators'[id].used = UsedAfter(n)[id]
                              /\ operators'[id].stopped = operators[id].stopped
                              /\ operators'[id].keys = operators[id].keys
<1> DEFINE u == UsedAfter(n)
<1>1. Ids' = Ids /\ \A id \in Ids : operators'[id] = [operators[id] EXCEPT !.used = u[id]]
  BY AssignNextSigningKeysKeeps
<1>2. Counted(u)
  BY UsedAfterFair
<1> HIDE DEF u
<1>3. ASSUME NEW id \in Ids
      PROVE  /\ operators'[id].used = u[id]
             /\ operators'[id].stopped = operators[id].stopped
             /\ operators'[id].total = operators[id].total
             /\ operators'[id].active = operators[id].active
             /\ operators'[id].stakingLimit = operators[id].stakingLimit
             /\ operators'[id].keys = operators[id].keys
  BY <1>1, OperatorBefore DEF NodeOperator
<1>4. [i \in Ids |-> operators'[i].used] = u
  BY <1>2, <1>3 DEF Counted
<1>5. ActiveIds' = ActiveIds /\ ActiveIds \subseteq Ids
  BY <1>1, <1>3 DEF ActiveIds
<1>6. Eligible([i \in Ids |-> operators[i].used])' = Eligible(u)
  BY <1>1, <1>3, <1>4, <1>5 DEF Eligible
<1> QED BY <1>1, <1>3, <1>4, <1>6 DEF u

\* A key that was handed out keeps its place through every call.
LEMMA UsedKeysStep ==
    ASSUME RegistryAssumption, RegistryInv, Next
    PROVE  \A id \in Ids :
              /\ operators'[id].used >= operators[id].used
              /\ \A s \in 0 .. operators[id].used - 1 :
                    operators'[id].keys[s] = operators[id].keys[s]
<1>1. \A id \in Ids : operators[id].used \in Nat
  BY OperatorBefore DEF NodeOperator
<1>2. CASE Operation
  BY <1>1, <1>2, OperationLeavesUsed DEF UsedStays
<1>3. ASSUME NEW n \in 1 .. MaxAssigned, AssignNextSigningKeys(n)
      PROVE  \A id \in Ids : /\ operators'[id].used >= operators[id].used
                             /\ operators'[id].keys = operators[id].keys
  <2>1. n \in Nat
    OBVIOUS
  <2>2. \A id \in Ids : /\ operators'[id].used = UsedAfter(n)[id]
                        /\ operators'[id].keys = operators[id].keys
    BY <1>3, <2>1, AssignmentCounts
  <2>3. Counted(UsedAfter(n))
    BY <2>1, UsedAfterFair
  <2> QED BY <1>1, <2>2, <2>3 DEF Counted
<1> QED BY <1>2, <1>3 DEF Next

\* A key that was handed out is never removed, replaced or handed out again.
THEOREM RegistryUsedKeysAreFinal == Spec => UsedKeysAreFinal
<1>1. RegistryInv /\ [Next]_registryVars =>
        [ \A id \in Ids :
            /\ operators'[id].used >= operators[id].used
            /\ \A s \in 0 .. operators[id].used - 1 :
                  operators'[id].keys[s] = operators[id].keys[s] ]_registryVars
  BY UsedKeysStep, RegistryAssumption
<1> QED BY <1>1, RegistryInvariant, PTL DEF Spec, UsedKeysAreFinal

LEMMA AssignmentFairStep ==
    ASSUME RegistryAssumption, RegistryInv, Next
    PROVE  \A id, other \in Ids :
              Reached(id) /\ other \in Eligible([i \in Ids |-> operators[i].used])'
                => Stake(operators'[id]) <= Stake(operators'[other]) + 1
<1>1. CASE Operation
  <2>1. \A id \in Ids : operators'[id].used = operators[id].used /\ operators[id].used \in Nat
    BY <1>1, OperationLeavesUsed, OperatorBefore DEF UsedStays, NodeOperator
  <2> QED BY <2>1 DEF Reached
<1>2. ASSUME NEW n \in 1 .. MaxAssigned, AssignNextSigningKeys(n),
             NEW id \in Ids, NEW other \in Ids, Reached(id),
             other \in Eligible([i \in Ids |-> operators[i].used])'
      PROVE  Stake(operators'[id]) <= Stake(operators'[other]) + 1
  <2>1. n \in Nat
    OBVIOUS
  <2> DEFINE u == UsedAfter(n)
  <2>2. FairWith(u)
    BY <2>1, UsedAfterFair
  <2>3. /\ Eligible([i \in Ids |-> operators[i].used])' = Eligible(u)
        /\ \A x \in Ids : /\ operators'[x].used = u[x]
                          /\ operators'[x].stopped = operators[x].stopped
    BY <1>2, <2>1, AssignmentCounts
  <2> HIDE DEF u
  <2>4. other \in Eligible(u) /\ u[id] > operators[id].used
    BY <1>2, <2>3 DEF Reached
  <2>5. StakeWith(u, id) <= StakeWith(u, other) + 1
    BY <2>2, <2>4 DEF FairWith
  <2> QED BY <2>3, <2>5 DEF StakeWith, Stake
<1> QED BY <1>1, <1>2 DEF Next

\* The keys go to the operators with the smallest stake (assignNextSigningKeys).
THEOREM RegistryAssignmentIsFair == Spec => AssignmentIsFair
<1>1. RegistryInv /\ [Next]_registryVars =>
        [ \A id, other \in Ids :
            Reached(id) /\ other \in Eligible([i \in Ids |-> operators[i].used])'
              => Stake(operators'[id]) <= Stake(operators'[other]) + 1 ]_registryVars
  BY AssignmentFairStep, RegistryAssumption
<1> QED BY <1>1, RegistryInvariant, PTL DEF Spec, AssignmentIsFair

LEMMA AssignmentCompleteStep ==
    ASSUME RegistryAssumption, RegistryInv, NEW n \in Nat, AssignNextSigningKeys(n)
    PROVE  \/ SupplyOf([id \in Ids |-> operators'[id].used])
                = SupplyOf([id \in Ids |-> operators[id].used]) + n
           \/ Eligible([id \in Ids |-> operators[id].used])' = {}
<1>1. CompleteWith(UsedAfter(n), n)
  BY UsedAfterFair
<1>2. /\ [id \in Ids |-> operators'[id].used] = UsedAfter(n)
      /\ Eligible([id \in Ids |-> operators[id].used])' = Eligible(UsedAfter(n))
  BY AssignmentCounts
<1> QED BY <1>1, <1>2 DEF CompleteWith, UsedNow

\* Fewer keys than asked for are handed out only when nobody can get one more.
THEOREM RegistryAssignmentIsComplete == Spec => AssignmentIsComplete
<1>1. ASSUME RegistryInv, NEW n \in 1 .. MaxAssigned, AssignNextSigningKeys(n)
      PROVE  \/ SupplyOf([id \in Ids |-> operators'[id].used])
                  = SupplyOf([id \in Ids |-> operators[id].used]) + n
             \/ Eligible([id \in Ids |-> operators[id].used])' = {}
  <2>1. n \in Nat
    OBVIOUS
  <2> QED BY <1>1, <2>1, AssignmentCompleteStep, RegistryAssumption
<1>2. RegistryInv /\ [Next]_registryVars =>
        [ \A n \in 1 .. MaxAssigned :
            AssignNextSigningKeys(n) =>
              \/ SupplyOf([id \in Ids |-> operators'[id].used])
                   = SupplyOf([id \in Ids |-> operators[id].used]) + n
              \/ Eligible([id \in Ids |-> operators[id].used])' = {} ]_registryVars
  BY <1>1
<1> QED BY <1>2, RegistryInvariant, PTL DEF Spec, AssignmentIsComplete

-----------------------------------------------------------------------------
(* The committee of guardians *)

CommitteeTypeOK ==
    /\ guardians \in Seq(Addresses)
    /\ guardianIndicesOneBased \in [Addresses -> Nat]

\* GuardiansAreIndexed, with an index that is one of the list.
CommitteeInv ==
    /\ CommitteeTypeOK
    /\ \A i \in DOMAIN guardians : guardianIndicesOneBased[guardians[i]] = i
    /\ \A a \in Addresses : IsGuardian(a) =>
          /\ guardianIndicesOneBased[a] \in DOMAIN guardians
          /\ guardians[guardianIndicesOneBased[a]] = a

-----------------------------------------------------------------------------
(* The list of guardians *)

LEMMA AddGuardiansKeeps ==
    ASSUME CommitteeInv, NEW new \in Seq(Addresses), NEW q, AddGuardians(new, q)
    PROVE  CommitteeInv'
<1> DEFINE n == Len(guardians)
           place(a) == CHOOSE i \in DOMAIN new : new[i] = a
<1>1. /\ guardians \in Seq(Addresses)
      /\ guardianIndicesOneBased \in [Addresses -> Nat]
      /\ n \in Nat
      /\ DOMAIN guardians = 1 .. n
      /\ DOMAIN new = 1 .. Len(new)
      /\ Len(new) \in Nat
  BY DEF CommitteeInv, CommitteeTypeOK
<1>2. /\ guardians' = guardians \o new
      /\ \A i \in DOMAIN new : ~IsGuardian(new[i])
      /\ \A i, j \in DOMAIN new : new[i] = new[j] => i = j
      /\ guardianIndicesOneBased' =
           [a \in Addresses |-> IF \E i \in DOMAIN new : new[i] = a
                                THEN n + place(a) ELSE guardianIndicesOneBased[a]]
  BY DEF AddGuardians
<1>3. \A i \in DOMAIN new : new[i] \in Addresses /\ place(new[i]) = i
  <2>1. SUFFICES ASSUME NEW i \in DOMAIN new PROVE new[i] \in Addresses /\ place(new[i]) = i
    OBVIOUS
  <2>2. place(new[i]) \in DOMAIN new /\ new[place(new[i])] = new[i]
    OBVIOUS
  <2> QED BY <1>2, <2>2
<1> HIDE DEF place
<1>4. /\ \A i \in DOMAIN new : guardianIndicesOneBased'[new[i]] = n + i
      /\ \A a \in Addresses : (\A i \in DOMAIN new : new[i] # a) =>
            guardianIndicesOneBased'[a] = guardianIndicesOneBased[a]
  BY <1>2, <1>3
<1>5. guardianIndicesOneBased' \in [Addresses -> Nat]
  <2>1. ASSUME NEW a \in Addresses, NEW i \in DOMAIN new, new[i] = a
        PROVE  n + place(a) \in Nat
    BY <1>1, <1>3, <2>1
  <2> QED BY <1>1, <1>2, <2>1
<1>6. /\ guardians' \in Seq(Addresses)
      /\ Len(guardians') = n + Len(new)
      /\ DOMAIN guardians' = 1 .. n + Len(new)
      /\ \A i \in 1 .. n : guardians'[i] = guardians[i]
      /\ \A i \in DOMAIN new : guardians'[n + i] = new[i]
  BY <1>1, <1>2
<1>7. ASSUME NEW i \in DOMAIN guardians' PROVE guardianIndicesOneBased'[guardians'[i]] = i
  <2>1. CASE i \in 1 .. n
    <3>1. /\ guardians'[i] = guardians[i]
          /\ guardians[i] \in Addresses
          /\ guardianIndicesOneBased[guardians[i]] = i
      BY <1>1, <1>6, <2>1 DEF CommitteeInv
    <3>2. \A j \in DOMAIN new : new[j] # guardians[i]
      BY <1>2, <2>1, <3>1 DEF IsGuardian
    <3> QED BY <1>4, <3>1, <3>2
  <2>2. CASE i \notin 1 .. n
    <3>1. i - n \in DOMAIN new /\ i = n + (i - n)
      BY <1>1, <1>6, <2>2
    <3> QED BY <1>4, <1>6, <3>1
  <2> QED BY <2>1, <2>2
<1>8. ASSUME NEW a \in Addresses, guardianIndicesOneBased'[a] > 0
      PROVE  /\ guardianIndicesOneBased'[a] \in DOMAIN guardians'
             /\ guardians'[guardianIndicesOneBased'[a]] = a
  <2>1. ASSUME NEW i \in DOMAIN new, new[i] = a
        PROVE  /\ guardianIndicesOneBased'[a] \in DOMAIN guardians'
               /\ guardians'[guardianIndicesOneBased'[a]] = a
    <3>1. guardianIndicesOneBased'[a] = n + i /\ n + i \in 1 .. n + Len(new)
      BY <1>1, <1>4, <2>1
    <3> QED BY <1>6, <2>1, <3>1
  <2>2. CASE \A i \in DOMAIN new : new[i] # a
    <3>1. guardianIndicesOneBased'[a] = guardianIndicesOneBased[a] /\ IsGuardian(a)
      BY <1>4, <1>8, <2>2 DEF IsGuardian
    <3>2. guardianIndicesOneBased[a] \in 1 .. n /\ guardians[guardianIndicesOneBased[a]] = a
      BY <1>1, <3>1 DEF CommitteeInv
    <3>3. guardianIndicesOneBased[a] \in 1 .. n + Len(new)
      BY <1>1, <3>2
    <3> QED BY <1>6, <3>1, <3>2, <3>3
  <2> QED BY <2>1, <2>2
<1> QED BY <1>5, <1>6, <1>7, <1>8 DEF CommitteeInv, CommitteeTypeOK, IsGuardian

LEMMA RemoveGuardianKeeps ==
    ASSUME CommitteeInv, NEW addr \in Addresses, NEW q, RemoveGuardian(addr, q)
    PROVE  CommitteeInv'
<1> DEFINE n == Len(guardians)
           index == guardianIndicesOneBased[addr]
           moved == guardians[n]
           swapped == [guardians EXCEPT ![index] = moved]
<1>1. /\ guardians \in Seq(Addresses)
      /\ guardianIndicesOneBased \in [Addresses -> Nat]
      /\ n \in Nat
      /\ DOMAIN guardians = 1 .. n
      /\ \A i \in 1 .. n : guardians[i] \in Addresses /\ guardianIndicesOneBased[guardians[i]] = i
      /\ \A a \in Addresses : guardianIndicesOneBased[a] > 0 =>
            /\ guardianIndicesOneBased[a] \in 1 .. n
            /\ guardians[guardianIndicesOneBased[a]] = a
  BY DEF CommitteeInv, CommitteeTypeOK, IsGuardian
<1>2. /\ index # 0
      /\ guardians' = SubSeq(swapped, 1, n - 1)
      /\ guardianIndicesOneBased' =
           [guardianIndicesOneBased EXCEPT ![moved] = index, ![addr] = 0]
  BY DEF RemoveGuardian
<1>3. index \in 1 .. n /\ guardians[index] = addr /\ n \in 1 .. n
  BY <1>1, <1>2
<1>4. moved \in Addresses /\ guardianIndicesOneBased[moved] = n
  BY <1>1, <1>3
<1>5. /\ swapped \in Seq(Addresses)
      /\ Len(swapped) = n
      /\ \A i \in 1 .. n : swapped[i] = IF i = index THEN moved ELSE guardians[i]
  BY <1>1, <1>3, <1>4
<1>6. /\ guardianIndicesOneBased' \in [Addresses -> Nat]
      /\ guardianIndicesOneBased'[addr] = 0
      /\ moved # addr => guardianIndicesOneBased'[moved] = index
      /\ \A a \in Addresses \ {addr, moved} :
            guardianIndicesOneBased'[a] = guardianIndicesOneBased[a]
  BY <1>1, <1>2, <1>3, <1>4
<1>10. n \in Nat
  BY <1>1
<1> HIDE DEF swapped, moved, index, n
<1>7. /\ guardians' \in Seq(Addresses)
      /\ DOMAIN guardians' = 1 .. n - 1
      /\ \A i \in 1 .. n - 1 : guardians'[i] = IF i = index THEN moved ELSE guardians[i]
  BY <1>1, <1>2, <1>3, <1>5
<1>8. ASSUME NEW i \in 1 .. n - 1 PROVE guardianIndicesOneBased'[guardians'[i]] = i
  <2>1. i \in 1 .. n /\ i # n
    BY <1>10
  <2>2. CASE i = index
    <3>1. moved # addr
      BY <1>4, <2>1, <2>2 DEF index
    <3> QED BY <1>6, <1>7, <2>2, <3>1
  <2>3. CASE i # index
    <3>1. guardians'[i] = guardians[i] /\ guardians[i] \in Addresses
      BY <1>1, <1>7, <2>1, <2>3
    <3>2. guardianIndicesOneBased[guardians[i]] = i
      BY <1>1, <2>1
    <3>3. guardians[i] # addr /\ guardians[i] # moved
      BY <1>4, <2>1, <2>3, <3>2 DEF index
    <3> QED BY <1>6, <3>1, <3>2, <3>3
  <2> QED BY <2>2, <2>3
<1>9. ASSUME NEW a \in Addresses, guardianIndicesOneBased'[a] > 0
      PROVE  /\ guardianIndicesOneBased'[a] \in 1 .. n - 1
             /\ guardians'[guardianIndicesOneBased'[a]] = a
  <2>1. a # addr
    BY <1>6, <1>9
  <2>2. CASE a = moved
    <3>1. index # n
      BY <1>3, <2>1, <2>2 DEF moved
    <3>2. index \in 1 .. n - 1
      BY <1>3, <1>10, <3>1
    <3>3. guardianIndicesOneBased'[a] = index
      BY <1>6, <2>1, <2>2
    <3> QED BY <1>7, <2>2, <3>2, <3>3
  <2>3. CASE a # moved
    <3> DEFINE i == guardianIndicesOneBased[a]
    <3>1. guardianIndicesOneBased'[a] = i
      BY <1>6, <2>1, <2>3
    <3>2. i \in 1 .. n /\ guardians[i] = a
      BY <1>1, <1>9, <3>1
    <3>3. i # index /\ i # n
      BY <1>3, <2>1, <2>3, <3>2 DEF moved
    <3>4. i \in 1 .. n - 1
      BY <1>10, <3>2, <3>3
    <3> QED BY <1>7, <3>1, <3>2, <3>3, <3>4
  <2> QED BY <2>2, <2>3
<1> QED BY <1>6, <1>7, <1>8, <1>9 DEF CommitteeInv, CommitteeTypeOK, IsGuardian

\* Who else changes the list.
LEMMA CommitteeStep ==
    ASSUME NextDSM
    PROVE  \/ \E q \in Quorums, a, b \in Addresses :
                 AddGuardians(<<a>>, q) \/ AddGuardians(<<a, b>>, q) \/ RemoveGuardian(a, q)
           \/ UNCHANGED <<guardians, guardianIndicesOneBased>>
BY DEF NextDSM, dsmVars, committeeVars, SetGuardianQuorum, SetLimits, UnpauseDeposits,
       SetLastDepositBlock, Attest, SignPauseIntent, PauseDeposits, DepositBufferedEther,
       DirectDeposit, NextBlock

LEMMA CommitteeInit == InitDSM => CommitteeInv
BY DEF InitDSM, CommitteeInv, CommitteeTypeOK, IsGuardian

LEMMA CommitteeNext == CommitteeInv /\ [NextDSM]_allVars => CommitteeInv'
<1>1. SUFFICES ASSUME CommitteeInv, [NextDSM]_allVars PROVE CommitteeInv'
  OBVIOUS
<1>2. ASSUME UNCHANGED <<guardians, guardianIndicesOneBased>> PROVE CommitteeInv'
  BY <1>1, <1>2 DEF CommitteeInv, CommitteeTypeOK, IsGuardian
<1>3. ASSUME NEW q \in Quorums, NEW a \in Addresses, NEW b \in Addresses,
             AddGuardians(<<a>>, q) \/ AddGuardians(<<a, b>>, q)
      PROVE  CommitteeInv'
  <2>1. <<a>> \in Seq(Addresses) /\ <<a, b>> \in Seq(Addresses)
    OBVIOUS
  <2> QED BY <1>1, <1>3, <2>1, AddGuardiansKeeps
<1>4. ASSUME NEW q \in Quorums, NEW a \in Addresses, RemoveGuardian(a, q)
      PROVE  CommitteeInv'
  BY <1>1, <1>4, RemoveGuardianKeeps
<1>5. CASE NextDSM
  BY <1>2, <1>3, <1>4, <1>5, CommitteeStep
<1>6. CASE UNCHANGED allVars
  BY <1>2, <1>6 DEF allVars, dsmVars, committeeVars
<1> QED BY <1>1, <1>5, <1>6

\* The index of each guardian is its place in the list, whatever guardians come
\* and go (_addGuardian, removeGuardian).
THEOREM DSMGuardiansAreIndexed == SpecDSM => []GuardiansAreIndexed
<1>1. CommitteeInv => GuardiansAreIndexed
  BY DEF CommitteeInv, GuardiansAreIndexed
<1> QED BY <1>1, CommitteeInit, CommitteeNext, PTL DEF SpecDSM

-----------------------------------------------------------------------------
(* The messages *)

PauseIntentsOK ==
    /\ blockNumber \in Nat
    /\ pauseIntentValidityPeriodBlocks \in Nat
    /\ \A m \in pauseIntents : m.signer \in Addresses /\ m.blockNumber \in Nat

LEMMA PauseIntentsInit == DSMAssumption /\ InitDSM => PauseIntentsOK
BY DEF InitDSM, PauseIntentsOK, DSMAssumption

LEMMA PauseIntentsSame ==
    ASSUME PauseIntentsOK, UNCHANGED blockNumber, UNCHANGED pauseIntents,
           UNCHANGED pauseIntentValidityPeriodBlocks
    PROVE  PauseIntentsOK'
BY DEF PauseIntentsOK

LEMMA PauseIntentsNext ==
    DSMAssumption /\ PauseIntentsOK /\ [NextDSM]_allVars => PauseIntentsOK'
<1>1. SUFFICES ASSUME DSMAssumption, PauseIntentsOK, [NextDSM]_allVars PROVE PauseIntentsOK'
  OBVIOUS
<1>2. CASE SetLimits
  BY <1>1, <1>2 DEF SetLimits, PauseIntentsOK, DSMAssumption, chainVars, messageVars
<1>3. ASSUME NEW g \in Addresses, SignPauseIntent(g) PROVE PauseIntentsOK'
  BY <1>1, <1>3 DEF SignPauseIntent, PauseIntentsOK, limitVars, chainVars
<1>4. CASE NextBlock
  BY <1>1, <1>4 DEF NextBlock, PauseIntentsOK, limitVars, messageVars
<1>5. CASE UNCHANGED allVars
  BY <1>1, <1>5, PauseIntentsSame DEF allVars, dsmVars, limitVars, chainVars, messageVars
<1>6. CASE Operation /\ UNCHANGED dsmVars
  BY <1>1, <1>6, PauseIntentsSame DEF dsmVars, limitVars, chainVars, messageVars
<1>7. ASSUME NEW new, NEW q, AddGuardians(new, q) PROVE PauseIntentsOK'
  BY <1>1, <1>7, PauseIntentsSame DEF AddGuardians, limitVars, chainVars, messageVars
<1>8. ASSUME NEW a, NEW q, RemoveGuardian(a, q) PROVE PauseIntentsOK'
  BY <1>1, <1>8, PauseIntentsSame DEF RemoveGuardian, limitVars, chainVars, messageVars
<1>9. ASSUME NEW q, SetGuardianQuorum(q) PROVE PauseIntentsOK'
  BY <1>1, <1>9, PauseIntentsSame DEF SetGuardianQuorum, limitVars, chainVars, messageVars
<1>10. CASE UnpauseDeposits
  BY <1>1, <1>10, PauseIntentsSame DEF UnpauseDeposits, limitVars, chainVars, messageVars
<1>11. ASSUME NEW b, SetLastDepositBlock(b) PROVE PauseIntentsOK'
  BY <1>1, <1>11, PauseIntentsSame DEF SetLastDepositBlock, limitVars, chainVars, messageVars
<1>12. ASSUME NEW g, Attest(g) PROVE PauseIntentsOK'
  BY <1>1, <1>12, PauseIntentsSame DEF Attest, limitVars, chainVars
<1>13. ASSUME NEW intent, PauseDeposits(intent) PROVE PauseIntentsOK'
  BY <1>1, <1>13, PauseIntentsSame DEF PauseDeposits, limitVars, chainVars, messageVars
<1>14. ASSUME NEW index, NEW b, NEW signers, NEW n, DepositBufferedEther(index, b, signers, n)
       PROVE  PauseIntentsOK'
  BY <1>1, <1>14, PauseIntentsSame DEF DepositBufferedEther, limitVars, messageVars
<1>15. CASE DirectDeposit
  BY <1>1, <1>15, PauseIntentsSame DEF DirectDeposit, limitVars, messageVars
<1> QED BY <1>1, <1>2, <1>3, <1>4, <1>5, <1>6, <1>7, <1>8, <1>9, <1>10, <1>11, <1>12, <1>13,
           <1>14, <1>15 DEF NextDSM

\* Whoever pauses the deposits.
LEMMA PauseStep ==
    ASSUME NextDSM, ~paused, paused'
    PROVE  \E intent \in pauseIntents : PauseDeposits(intent)
BY DEF NextDSM, dsmVars, AddGuardians, RemoveGuardian, SetGuardianQuorum, SetLimits,
       UnpauseDeposits, SetLastDepositBlock, Attest, SignPauseIntent, DepositBufferedEther,
       DirectDeposit, NextBlock

\* Deposits are stopped only by what a guardian of the moment decided within the
\* validity period (pauseDeposits).
THEOREM DSMPauseIsIntended == SpecDSM => PauseIsIntended
<1>1. ASSUME CommitteeInv, PauseIntentsOK, NextDSM, ~paused, paused'
      PROVE  \E m \in pauseIntents :
                /\ \E i \in DOMAIN guardians : guardians[i] = m.signer
                /\ m.blockNumber + pauseIntentValidityPeriodBlocks >= blockNumber
  <2>1. PICK m \in pauseIntents : PauseDeposits(m)
    BY <1>1, PauseStep
  <2>2. m.signer \in Addresses /\ m.blockNumber \in Nat
    BY <1>1 DEF PauseIntentsOK
  <2>3. \E i \in DOMAIN guardians : guardians[i] = m.signer
    BY <1>1, <2>1, <2>2 DEF PauseDeposits, CommitteeInv
  <2>4. m.blockNumber + pauseIntentValidityPeriodBlocks >= blockNumber
    BY <1>1, <2>1, <2>2 DEF PauseDeposits, NotExpired, PauseIntentsOK
  <2> QED BY <2>3, <2>4
<1>2. CommitteeInv /\ PauseIntentsOK /\ [NextDSM]_allVars =>
        [ ~paused /\ paused' =>
            \E m \in pauseIntents :
              /\ \E i \in DOMAIN guardians : guardians[i] = m.signer
              /\ m.blockNumber + pauseIntentValidityPeriodBlocks >= blockNumber ]_allVars
  BY <1>1
<1>3. InitDSM => PauseIntentsOK
  BY PauseIntentsInit, DSMAssumption
<1>4. PauseIntentsOK /\ [NextDSM]_allVars => PauseIntentsOK'
  BY PauseIntentsNext, DSMAssumption
<1> QED BY <1>2, <1>3, <1>4, CommitteeInit, CommitteeNext, PTL DEF SpecDSM, PauseIsIntended

-----------------------------------------------------------------------------
(* The index of the operations on keys *)

\* What has to stay of the operators that were there, and of the new ones, for
\* what was said of the unused keys to remain true.
KeysStay ==
    /\ Ids \subseteq Ids'
    /\ \A id \in Ids' \ Ids : operators'[id].used = 0 /\ operators'[id].total = 0
    /\ \A id \in Ids :
          /\ operators'[id].active = operators[id].active
          /\ operators'[id].stakingLimit = operators[id].stakingLimit
          /\ operators'[id].used = operators[id].used
          /\ operators'[id].total \in {operators[id].total, operators[id].used}
          /\ operators'[id].keys = operators[id].keys

LEMMA UpdateLeavesKeys ==
    ASSUME RegistryInv, NEW id \in Ids, NEW r, Update(id, r),
           r.active = operators[id].active, r.stakingLimit = operators[id].stakingLimit,
           r.used = operators[id].used, r.total = operators[id].total,
           r.keys = operators[id].keys
    PROVE  KeysStay
<1>1. /\ operators'[id] = r
      /\ \A x \in Ids \ {id} : operators'[x] = operators[x]
      /\ Ids' = Ids
  BY DEF Update, Ids
<1> QED BY <1>1 DEF KeysStay

\* Less than a whole turn does not leave the index where it was.
LEMMA IndexMoves ==
    ASSUME NEW word \in Nat, NEW k \in 0 .. word - 1, NEW n \in 1 .. word - 1
    PROVE  (k + n) % word # k
<1>1. CASE k + n < word
  <2>1. (k + n) % word = k + n
    BY <1>1
  <2> QED BY <2>1
<1>2. CASE k + n >= word
  <2>1. k + n - word \in 0 .. word - 1
    BY <1>2
  <2>2. (k + n) % word = k + n - word
    BY <1>2, <2>1
  <2> QED BY <2>2
<1> QED BY <1>1, <1>2

LEMMA IndexIncreases ==
    ASSUME RegistryAssumption, DSMAssumption, RegistryInv
    PROVE  /\ IncreaseKeysOpIndex => keysOpIndex' # keysOpIndex
           /\ \A n \in 1 .. MaxKeys : (keysOpIndex + n) % WORD # keysOpIndex
<1>1. /\ WORD \in Nat
      /\ MaxKeys \in Nat \ {0}
      /\ MaxKeys < WORD
      /\ keysOpIndex \in 0 .. WORD - 1
  BY DEF RegistryAssumption, DSMAssumption, RegistryInv, RegistryTypeOK
<1>2. 1 \in 1 .. MaxKeys /\ \A n \in 1 .. MaxKeys : n \in 1 .. WORD - 1
  BY <1>1
<1>3. \A n \in 1 .. MaxKeys : (keysOpIndex + n) % WORD # keysOpIndex
  BY <1>1, <1>2, IndexMoves
<1> QED BY <1>2, <1>3 DEF IncreaseKeysOpIndex

LEMMA OperationLeavesKeys ==
    ASSUME RegistryAssumption, DSMAssumption, RegistryInv, Operation,
           keysOpIndex' = keysOpIndex
    PROVE  KeysStay
<1>1. ASSUME NEW address \in RewardAddresses, AddNodeOperator(address) PROVE KeysStay
  <2>1. operators \in Seq(NodeOperator) /\ operators' = Append(operators, NewOperator(address))
    BY <1>1 DEF AddNodeOperator, RegistryInv, RegistryTypeOK
  <2>2. /\ Ids = 1 .. Len(operators)
        /\ Ids' = Ids \cup {Len(operators) + 1}
        /\ operators'[Len(operators) + 1] = NewOperator(address)
        /\ \A x \in Ids : operators'[x] = operators[x]
    BY <2>1 DEF Ids
  <2> QED BY SMTT(60), <2>2 DEF KeysStay, NewOperator
<1>2. ASSUME NEW id \in Ids, NEW address \in RewardAddresses,
             SetNodeOperatorRewardAddress(id, address)
      PROVE  KeysStay
  <2> DEFINE o == operators[id]
             r == [o EXCEPT !.rewardAddress = address]
  <2>1. /\ r.active = o.active
        /\ r.stakingLimit = o.stakingLimit
        /\ r.used = o.used
        /\ r.total = o.total
        /\ r.keys = o.keys
    BY OperatorBefore DEF NodeOperator
  <2>2. Update(id, r)
    BY <1>2 DEF SetNodeOperatorRewardAddress
  <2> HIDE DEF r
  <2> QED BY <2>1, <2>2, UpdateLeavesKeys
<1>3. ASSUME NEW id \in Ids, NEW increment \in 1 .. MaxKeys, ReportStoppedValidators(id, increment)
      PROVE  KeysStay
  <2> DEFINE o == operators[id]
             r == [o EXCEPT !.stopped = @ + increment]
  <2>1. /\ r.active = o.active
        /\ r.stakingLimit = o.stakingLimit
        /\ r.used = o.used
        /\ r.total = o.total
        /\ r.keys = o.keys
    BY OperatorBefore DEF NodeOperator
  <2>2. Update(id, r)
    BY <1>3 DEF ReportStoppedValidators
  <2> HIDE DEF r
  <2> QED BY <2>1, <2>2, UpdateLeavesKeys
<1>4. ASSUME TrimUnusedKeys PROVE KeysStay
  <2>1. Ids' = Ids
    BY <1>4 DEF TrimUnusedKeys, Ids
  <2>2. ASSUME NEW id \in Ids
        PROVE  /\ operators'[id].active = operators[id].active
               /\ operators'[id].stakingLimit = operators[id].stakingLimit
               /\ operators'[id].used = operators[id].used
               /\ operators'[id].total = operators[id].used
               /\ operators'[id].keys = operators[id].keys
    <3>1. operators'[id] = [operators[id] EXCEPT !.total = operators[id].used]
      BY <1>4 DEF TrimUnusedKeys
    <3> QED BY <3>1, OperatorBefore DEF NodeOperator
  <2> QED BY <2>1, <2>2 DEF KeysStay
<1>5. ASSUME NEW id \in Ids, NEW index \in Slots, NEW amount \in 1 .. MaxKeys
      PROVE  ~RemoveSigningKeys(id, index, amount)
  BY IndexIncreases DEF RemoveSigningKeys
<1>6. ~IncreaseKeysOpIndex
  BY IndexIncreases
<1> QED BY <1>1, <1>2, <1>3, <1>4, <1>5, <1>6
        DEF Operation, SetNodeOperatorActive, SetNodeOperatorStakingLimit, AddSigningKeys

LEMMA SameLeavesKeys ==
    ASSUME RegistryInv, UNCHANGED operators
    PROVE  KeysStay
BY DEF KeysStay, Ids

\* An assignment that finds a key moves the index.
LEMMA AssignmentLeavesKeys ==
    ASSUME RegistryAssumption, DSMAssumption, RegistryInv, NEW n, AssignNextSigningKeys(n),
           keysOpIndex' = keysOpIndex
    PROVE  KeysStay
<1>1. UNCHANGED operators
  BY IndexIncreases DEF AssignNextSigningKeys
<1> QED BY <1>1, SameLeavesKeys

\* The deposits and the operations are all that touches the registry.
LEMMA RegistryStep ==
    ASSUME NextDSM
    PROVE  \/ Operation /\ keysOpIndex' \in keysOpIndex .. MaxIndex /\ UNCHANGED dsmVars
           \/ \E index \in 0 .. MaxIndex, b \in 0 .. MaxBlock, signers \in SignerLists,
                 n \in 0 .. MaxAssigned : DepositBufferedEther(index, b, signers, n)
           \/ UNCHANGED registryVars
BY DEF NextDSM, AddGuardians, RemoveGuardian, SetGuardianQuorum, SetLimits, UnpauseDeposits,
       SetLastDepositBlock, Attest, SignPauseIntent, PauseDeposits, DirectDeposit, NextBlock

LEMMA DepositStep ==
    ASSUME NEW index, NEW b, NEW signers, NEW n \in Nat, DepositBufferedEther(index, b, signers, n)
    PROVE  UNCHANGED registryVars \/ AssignNextSigningKeys(n)
BY DEF DepositBufferedEther, LidoDepositBufferedEther

LEMMA DSMRegistryNext ==
    RegistryAssumption /\ RegistryInv /\ [NextDSM]_allVars => RegistryInv'
<1>1. SUFFICES ASSUME RegistryAssumption, RegistryInv, [NextDSM]_allVars PROVE RegistryInv'
  OBVIOUS
<1>2. CASE UNCHANGED registryVars
  BY <1>1, <1>2, RegistrySame
<1>3. CASE Operation
  BY <1>1, <1>3, OperationKeeps
<1>4. ASSUME NEW index, NEW b, NEW signers, NEW n \in 0 .. MaxAssigned,
             DepositBufferedEther(index, b, signers, n)
      PROVE  RegistryInv'
  <2>1. n \in Nat
    OBVIOUS
  <2> QED BY <1>1, <1>2, <1>4, <2>1, DepositStep, RegistrySame, AssignNextSigningKeysKeeps
<1> QED BY <1>1, <1>2, <1>3, <1>4, RegistryStep DEF allVars

LEMMA DSMRegistryInit == RegistryAssumption /\ InitDSM => RegistryInv
BY RegistryInit DEF InitDSM

\* While the index stays, the keys stay.
LEMMA KeysStayStep ==
    ASSUME RegistryAssumption, DSMAssumption, RegistryInv, [NextDSM]_allVars,
           keysOpIndex' = keysOpIndex
    PROVE  KeysStay
<1>1. CASE UNCHANGED registryVars
  BY <1>1, SameLeavesKeys DEF registryVars
<1>2. CASE Operation
  BY <1>2, OperationLeavesKeys
<1>3. ASSUME NEW index, NEW b, NEW signers, NEW n \in 0 .. MaxAssigned,
             DepositBufferedEther(index, b, signers, n)
      PROVE  KeysStay
  <2>1. n \in Nat
    OBVIOUS
  <2> QED BY <1>1, <1>3, <2>1, DepositStep, AssignmentLeavesKeys
<1> QED BY <1>1, <1>2, <1>3, RegistryStep DEF allVars

\* While keysOpIndex stays what the guardians saw, no operator is switched on or
\* off or given another limit, and its keys stay what and where they were.
THEOREM DSMIndexGuardsKeys == SpecDSM => IndexGuardsKeys
<1>1. RegistryInv /\ [NextDSM]_allVars =>
        [ keysOpIndex' = keysOpIndex =>
            \A id \in Ids :
              /\ operators'[id].active = operators[id].active
              /\ operators'[id].stakingLimit = operators[id].stakingLimit
              /\ operators'[id].used = operators[id].used
              /\ operators'[id].total \in {operators[id].total, operators[id].used}
              /\ \A s \in 0 .. operators'[id].total - 1 :
                    operators'[id].keys[s] = operators[id].keys[s] ]_registryVars
  BY KeysStayStep, RegistryAssumption, DSMAssumption DEF KeysStay
<1>2. InitDSM => RegistryInv
  BY DSMRegistryInit, RegistryAssumption
<1>3. RegistryInv /\ [NextDSM]_allVars => RegistryInv'
  BY DSMRegistryNext, RegistryAssumption
<1> QED BY <1>1, <1>2, <1>3, PTL DEF SpecDSM, IndexGuardsKeys

\* The registry stays in order under Lido's assignments as the committee asks for
\* them: the counters, and a key in every slot below the total.
THEOREM DSMRegistryInOrder == SpecDSM => [](CountersInOrder /\ KeysAreStored)
<1>1. RegistryInv => CountersInOrder /\ KeysAreStored
  BY RegistryInvMeans
<1>2. InitDSM => RegistryInv
  BY DSMRegistryInit, RegistryAssumption
<1>3. RegistryInv /\ [NextDSM]_allVars => RegistryInv'
  BY DSMRegistryNext, RegistryAssumption
<1> QED BY <1>1, <1>2, <1>3, PTL DEF SpecDSM

-----------------------------------------------------------------------------
(* What the guardians have seen *)

\* The unused keys of the moment are among those that a message vouches for.
Seen(m) ==
    \A id \in Ids : \A s \in operators[id].used .. operators[id].total - 1 :
        /\ id \in DOMAIN m.keys
        /\ s \in DOMAIN m.keys[id]
        /\ m.keys[id][s] = operators[id].keys[s]

AttestationsInv ==
    \A m \in attestations :
        /\ m.signer \in Addresses
        /\ m.keysOpIndex \in Nat
        /\ m.keysOpIndex <= keysOpIndex
        /\ m.keysOpIndex = keysOpIndex => Seen(m)

LEMMA SeenStays ==
    ASSUME RegistryInv, KeysStay, NEW m, Seen(m)
    PROVE  Seen(m)'
<1>1. SUFFICES ASSUME NEW id \in Ids',
                      NEW s \in operators'[id].used .. operators'[id].total - 1
               PROVE  /\ id \in DOMAIN m.keys
                      /\ s \in DOMAIN m.keys[id]
                      /\ m.keys[id][s] = operators'[id].keys[s]
  BY DEF Seen
<1>2. CASE id \notin Ids
  <2>1. operators'[id].used = 0 /\ operators'[id].total = 0
    BY <1>2 DEF KeysStay
  <2> QED BY <2>1
<1>3. CASE id \in Ids
  <2>1. /\ operators[id].used \in Nat
        /\ operators[id].total \in Nat
        /\ operators[id].used <= operators[id].total
    BY <1>3, OperatorBefore DEF NodeOperator, OperatorOK
  <2>2. /\ operators'[id].used = operators[id].used
        /\ operators'[id].total \in {operators[id].total, operators[id].used}
        /\ operators'[id].keys = operators[id].keys
    BY <1>3 DEF KeysStay
  <2>3. s \in operators[id].used .. operators[id].total - 1
    BY <1>1, <2>1, <2>2
  <2> QED BY <1>3, <2>2, <2>3 DEF Seen
<1> QED BY <1>2, <1>3

\* The index never goes back.
LEMMA IndexAdvances ==
    ASSUME RegistryAssumption, DSMAssumption, RegistryInv, [NextDSM]_allVars
    PROVE  keysOpIndex' \in Nat /\ keysOpIndex' >= keysOpIndex
<1>1. /\ keysOpIndex \in Nat
      /\ WORD \in Nat
      /\ MaxIndex \in 0 .. WORD - 2
  BY DEF RegistryAssumption, DSMAssumption, RegistryInv, RegistryTypeOK
<1>2. CASE UNCHANGED registryVars
  BY <1>1, <1>2 DEF registryVars
<1>3. CASE keysOpIndex' \in keysOpIndex .. MaxIndex
  BY <1>1, <1>3
<1>4. ASSUME NEW index \in 0 .. MaxIndex, NEW b, NEW signers, NEW n \in 0 .. MaxAssigned,
             DepositBufferedEther(index, b, signers, n)
      PROVE  keysOpIndex' \in Nat /\ keysOpIndex' >= keysOpIndex
  <2>1. n \in Nat /\ index = keysOpIndex
    BY <1>4 DEF DepositBufferedEther
  <2>2. keysOpIndex + 1 \in 0 .. WORD - 1
    BY <1>1, <1>4, <2>1
  <2>3. (keysOpIndex + 1) % WORD = keysOpIndex + 1
    BY <1>1, <2>2
  <2>4. CASE AssignNextSigningKeys(n)
    BY <1>1, <2>3, <2>4 DEF AssignNextSigningKeys, IncreaseKeysOpIndex
  <2> QED BY <1>2, <1>4, <2>1, <2>4, DepositStep
<1> QED BY <1>2, <1>3, <1>4, RegistryStep DEF allVars

LEMMA AttestationsInit == InitDSM => AttestationsInv
BY DEF InitDSM, AttestationsInv

LEMMA AttestationsStep ==
    ASSUME NextDSM
    PROVE  UNCHANGED attestations \/ \E g \in Addresses : Attest(g)
BY DEF NextDSM, dsmVars, messageVars, AddGuardians, RemoveGuardian, SetGuardianQuorum, SetLimits,
       UnpauseDeposits, SetLastDepositBlock, SignPauseIntent, PauseDeposits,
       DepositBufferedEther, DirectDeposit, NextBlock

LEMMA AttestKeeps ==
    ASSUME RegistryAssumption, RegistryInv, AttestationsInv, NEW g \in Addresses, Attest(g)
    PROVE  AttestationsInv'
<1> DEFINE new == [signer |-> g, depositRoot |-> depositRoot, keysOpIndex |-> keysOpIndex,
                   blockNumber |-> blockNumber, keys |-> UnusedKeys]
<1>1. attestations' = attestations \cup {new} /\ UNCHANGED registryVars
  BY DEF Attest
<1>2. keysOpIndex \in Nat
  BY DEF RegistryInv, RegistryTypeOK, RegistryAssumption
<1>3. new.signer = g /\ new.keysOpIndex = keysOpIndex /\ new.keys = UnusedKeys
  OBVIOUS
<1> HIDE DEF new
<1>4. Seen(new)
  BY <1>3 DEF Seen, UnusedKeys
<1>5. \A m \in attestations' : /\ m.signer \in Addresses
                               /\ m.keysOpIndex \in Nat
                               /\ m.keysOpIndex <= keysOpIndex
                               /\ m.keysOpIndex = keysOpIndex => Seen(m)
  BY <1>1, <1>2, <1>3, <1>4 DEF AttestationsInv
<1>6. \A m : Seen(m) => Seen(m)'
  BY <1>1 DEF Seen, registryVars, Ids
<1> QED BY <1>1, <1>5, <1>6 DEF AttestationsInv, registryVars

LEMMA AttestationsNext ==
    /\ RegistryAssumption
    /\ DSMAssumption
    /\ RegistryInv
    /\ AttestationsInv
    /\ [NextDSM]_allVars
    => AttestationsInv'
<1>1. SUFFICES ASSUME RegistryAssumption, DSMAssumption, RegistryInv, AttestationsInv,
                      [NextDSM]_allVars
               PROVE  AttestationsInv'
  OBVIOUS
<1>2. ASSUME NEW g \in Addresses, Attest(g) PROVE AttestationsInv'
  BY <1>1, <1>2, AttestKeeps
<1>3. CASE UNCHANGED attestations
  <2>1. keysOpIndex \in Nat /\ keysOpIndex' \in Nat /\ keysOpIndex' >= keysOpIndex
    BY <1>1, IndexAdvances DEF RegistryInv, RegistryTypeOK, RegistryAssumption
  <2>2. SUFFICES ASSUME NEW m \in attestations
                 PROVE  /\ m.signer \in Addresses
                        /\ m.keysOpIndex \in Nat
                        /\ m.keysOpIndex <= keysOpIndex'
                        /\ m.keysOpIndex = keysOpIndex' => Seen(m)'
    BY <1>3 DEF AttestationsInv
  <2>3. /\ m.signer \in Addresses
        /\ m.keysOpIndex \in Nat
        /\ m.keysOpIndex <= keysOpIndex
        /\ m.keysOpIndex = keysOpIndex => Seen(m)
    BY <1>1 DEF AttestationsInv
  <2>4. ASSUME m.keysOpIndex = keysOpIndex' PROVE Seen(m)'
    <3>1. keysOpIndex' = keysOpIndex /\ Seen(m)
      BY <2>1, <2>3, <2>4
    <3>2. KeysStay
      BY <1>1, <3>1, KeysStayStep
    <3> QED BY <1>1, <3>1, <3>2, SeenStays
  <2> QED BY <2>1, <2>3, <2>4
<1>4. CASE NextDSM
  BY <1>2, <1>3, <1>4, AttestationsStep
<1>5. CASE UNCHANGED allVars
  BY <1>3, <1>5 DEF allVars, dsmVars, messageVars
<1> QED BY <1>1, <1>4, <1>5

\* Signatures in ascending order are of as many signers.
LEMMA AscendingAreDistinct ==
    ASSUME NEW k \in Nat, NEW list \in [1 .. k -> Nat],
           \A i \in 1 .. k : i > 1 => list[i] > list[i - 1]
    PROVE  \A i, j \in 1 .. k : list[i] = list[j] => i = j
<1>1. ASSUME NEW i \in 1 .. k, NEW j \in 1 .. k, i < j PROVE list[i] < list[j]
  <2> DEFINE T == {d \in 0 .. k - i : d > 0 => list[i] < list[i + d]}
  <2>1. 0 \in T
    OBVIOUS
  <2>2. ASSUME NEW d \in 0 .. (k - i) - 1, d \in T PROVE d + 1 \in T
    <3>1. /\ i + d \in 1 .. k
          /\ i + (d + 1) \in 1 .. k
          /\ i + (d + 1) > 1
          /\ (i + (d + 1)) - 1 = i + d
      OBVIOUS
    <3>2. list[i + (d + 1)] > list[i + d]
      BY <3>1
    <3>3. list[i] \in Nat /\ list[i + d] \in Nat /\ list[i + (d + 1)] \in Nat
      BY <3>1
    <3>4. CASE d = 0
      BY <3>2, <3>3, <3>4
    <3>5. CASE d > 0
      BY <2>2, <3>2, <3>3, <3>5
    <3> QED BY <3>4, <3>5
  <2>3. T \in SUBSET (0 .. k - i) /\ k - i \in Nat
    OBVIOUS
  <2> HIDE DEF T
  <2>4. T = 0 .. k - i
    BY <2>1, <2>2, <2>3, UpTo
  <2>5. j - i \in T /\ i + (j - i) = j /\ j - i > 0
    BY <1>1, <2>4
  <2> QED BY <2>5 DEF T
<1>2. ASSUME NEW i \in 1 .. k, NEW j \in 1 .. k, list[i] = list[j] PROVE i = j
  <2>1. list[i] \in Nat /\ list[j] \in Nat
    OBVIOUS
  <2>2. ~(i < j) /\ ~(j < i)
    <3>1. ~(list[i] < list[j]) /\ ~(list[j] < list[i])
      BY <1>2, <2>1
    <3> QED BY <1>1, <3>1
  <2> QED BY <2>2
<1> QED BY <1>2

\* What a deposit takes is what a quorum has seen.
LEMMA DepositIsVetted ==
    ASSUME DSMAssumption, RegistryAssumption, RegistryInv, CommitteeInv, AttestationsInv,
           NEW index, NEW b, NEW signers \in SignerLists, NEW n \in Nat,
           DepositBufferedEther(index, b, signers, n), AssignNextSigningKeys(n)
    PROVE  \E seen \in SUBSET {m \in attestations : m.depositRoot = depositRoot} :
              /\ Cardinality({m.signer : m \in seen}) >= quorum
              /\ \A m \in seen :
                   /\ \E i \in DOMAIN guardians : guardians[i] = m.signer
                   /\ \A k \in Deposited :
                        /\ k[1] \in DOMAIN m.keys
                        /\ k[2] \in DOMAIN m.keys[k[1]]
                        /\ m.keys[k[1]][k[2]] = operators[k[1]].keys[k[2]]
<1> DEFINE seen == {m \in attestations : /\ m.depositRoot = depositRoot
                                         /\ m.keysOpIndex = keysOpIndex
                                         /\ \E i \in DOMAIN signers : signers[i] = m.signer}
           who == {m.signer : m \in seen}
<1>1. /\ Len(signers) >= quorum
      /\ index = keysOpIndex
      /\ \A i \in DOMAIN signers : /\ Signed(signers[i], depositRoot, index, b)
                                   /\ IsGuardian(signers[i])
                                   /\ i > 1 => signers[i] > signers[i - 1]
  BY DEF DepositBufferedEther, VerifySignatures
<1>2. PICK k \in Nat : signers \in [1 .. k -> Addresses]
  <2>1. PICK k \in 0 .. Cardinality(Addresses) : signers \in [1 .. k -> Addresses]
    BY DEF SignerLists
  <2> QED BY <2>1
<1>3. DOMAIN signers = 1 .. k /\ Len(signers) = k /\ signers \in [1 .. k -> Nat]
  <2>1. Addresses \subseteq Nat
    BY DEF DSMAssumption
  <2>2. signers \in Seq(Addresses)
    BY <1>2
  <2>3. DOMAIN signers = 1 .. k
    BY <1>2
  <2>4. Len(signers) = k
    BY <2>2, <2>3
  <2> QED BY <1>2, <2>1, <2>3, <2>4
<1>4. \A i, j \in 1 .. k : signers[i] = signers[j] => i = j
  <2>1. \A i \in 1 .. k : i > 1 => signers[i] > signers[i - 1]
    BY <1>1, <1>3
  <2> QED BY <1>3, <2>1, AscendingAreDistinct
<1>5. \A i \in 1 .. k : signers[i] \in who
  <2>1. SUFFICES ASSUME NEW i \in 1 .. k PROVE signers[i] \in who
    OBVIOUS
  <2>2. PICK m \in attestations : /\ m.signer = signers[i]
                                  /\ m.depositRoot = depositRoot
                                  /\ m.keysOpIndex = keysOpIndex
    BY <1>1, <1>3 DEF Signed
  <2>3. m \in seen
    BY <1>3, <2>2
  <2> QED BY <2>2, <2>3
<1>6. \A a \in who : \E i \in 1 .. k : signers[i] = a
  BY <1>3
<1>7. signers \in Bijection(1 .. k, who)
  <2> HIDE DEF who
  <2>1. signers \in [1 .. k -> who]
    BY <1>2, <1>5
  <2> QED BY <1>4, <1>6, <2>1, Fun_IsBij
<1>8. Cardinality(who) = k
  <2> HIDE DEF who
  <2>1. IsFiniteSet(1 .. k) /\ Cardinality(1 .. k) = k
    BY ONLY k \in Nat, FS_Interval
  <2> QED BY <1>7, <2>1, FS_Bijection DEF ExistsBijection
<1>9. ASSUME NEW m \in seen
      PROVE  /\ \E i \in DOMAIN guardians : guardians[i] = m.signer
             /\ Seen(m)
  <2>1. m \in attestations /\ m.keysOpIndex = keysOpIndex
    OBVIOUS
  <2>2. m.signer \in Addresses /\ Seen(m)
    BY <2>1 DEF AttestationsInv
  <2>3. IsGuardian(m.signer)
    BY <1>1
  <2> QED BY <2>2, <2>3 DEF CommitteeInv
<1>10. \A c \in Deposited : /\ c[1] \in Ids
                            /\ c[2] \in operators[c[1]].used .. operators[c[1]].total - 1
  <2>1. SUFFICES ASSUME NEW c \in Deposited
                 PROVE  /\ c[1] \in Ids
                        /\ c[2] \in operators[c[1]].used .. operators[c[1]].total - 1
    OBVIOUS
  <2>2. /\ c[1] \in Ids
        /\ c[2] \in operators[c[1]].used .. operators'[c[1]].used - 1
    BY DEF Deposited
  <2>3. operators'[c[1]].used = UsedAfter(n)[c[1]]
    BY <2>2, AssignmentCounts
  <2>4. /\ UsedAfter(n)[c[1]] \in Nat
        /\ UsedAfter(n)[c[1]] <= operators[c[1]].total
    BY <2>2, UsedAfterFair DEF Counted
  <2>5. operators[c[1]].used \in Nat /\ operators[c[1]].total \in Nat
    BY <2>2, OperatorBefore DEF NodeOperator
  <2> QED BY <2>2, <2>3, <2>4, <2>5
<1>11. \A m \in seen : \A c \in Deposited :
          /\ c[1] \in DOMAIN m.keys
          /\ c[2] \in DOMAIN m.keys[c[1]]
          /\ m.keys[c[1]][c[2]] = operators[c[1]].keys[c[2]]
  BY <1>9, <1>10 DEF Seen
<1>12. seen \in SUBSET {m \in attestations : m.depositRoot = depositRoot}
  OBVIOUS
<1>13. Cardinality(who) >= quorum
  BY <1>1, <1>3, <1>8
<1> HIDE DEF seen
<1> WITNESS seen \in SUBSET {m \in attestations : m.depositRoot = depositRoot}
<1> QED BY <1>9, <1>11, <1>13

LEMMA NothingDeposited ==
    ASSUME RegistryInv, \A id \in Ids : operators'[id].used = operators[id].used
    PROVE  Deposited = {}
<1>1. \A id \in Ids : operators[id].used \in Nat
  BY OperatorBefore DEF NodeOperator
<1> QED BY <1>1 DEF Deposited

\* Key by key, a deposit takes what a quorum of the guardians of the moment have
\* seen in that very slot, of a deposit contract that has not changed since
\* (depositBufferedEther).
THEOREM DSMDepositsAreVetted == SpecDSM => DepositsAreVetted
<1>1. ASSUME RegistryInv, CommitteeInv, AttestationsInv, NextDSM, Deposited # {}
      PROVE  \E signers \in SUBSET {m \in attestations : m.depositRoot = depositRoot} :
                /\ Cardinality({m.signer : m \in signers}) >= quorum
                /\ \A m \in signers :
                     /\ \E i \in DOMAIN guardians : guardians[i] = m.signer
                     /\ \A k \in Deposited :
                          /\ k[1] \in DOMAIN m.keys
                          /\ k[2] \in DOMAIN m.keys[k[1]]
                          /\ m.keys[k[1]][k[2]] = operators[k[1]].keys[k[2]]
  <2>1. ~Operation
    BY <1>1, OperationLeavesUsed, NothingDeposited, RegistryAssumption DEF UsedStays
  <2>2. ~UNCHANGED registryVars
    BY <1>1, NothingDeposited DEF registryVars
  <2>3. PICK index \in 0 .. MaxIndex, b \in 0 .. MaxBlock, signers \in SignerLists,
             n \in 0 .. MaxAssigned : DepositBufferedEther(index, b, signers, n)
    BY <1>1, <2>1, <2>2, RegistryStep
  <2>4. n \in Nat
    OBVIOUS
  <2>5. AssignNextSigningKeys(n)
    BY <2>2, <2>3, <2>4, DepositStep
  <2> QED BY <1>1, <2>3, <2>4, <2>5, DepositIsVetted, DSMAssumption, RegistryAssumption
<1>2. RegistryInv /\ CommitteeInv /\ AttestationsInv /\ [NextDSM]_allVars =>
        [ Deposited # {} =>
            \E signers \in SUBSET {m \in attestations : m.depositRoot = depositRoot} :
              /\ Cardinality({m.signer : m \in signers}) >= quorum
              /\ \A m \in signers :
                   /\ \E i \in DOMAIN guardians : guardians[i] = m.signer
                   /\ \A k \in Deposited :
                        /\ k[1] \in DOMAIN m.keys
                        /\ k[2] \in DOMAIN m.keys[k[1]]
                        /\ m.keys[k[1]][k[2]] = operators[k[1]].keys[k[2]] ]_allVars
  BY <1>1
<1>3. InitDSM => RegistryInv
  BY DSMRegistryInit, RegistryAssumption
<1>4. RegistryInv /\ [NextDSM]_allVars => RegistryInv'
  BY DSMRegistryNext, RegistryAssumption
<1>5. RegistryInv /\ AttestationsInv /\ [NextDSM]_allVars => AttestationsInv'
  BY AttestationsNext, RegistryAssumption, DSMAssumption
<1> QED BY <1>2, <1>3, <1>4, <1>5, AttestationsInit, CommitteeInit, CommitteeNext, PTL
        DEF SpecDSM, DepositsAreVetted

=============================================================================
