------------------------- MODULE RegistryProperties -------------------------
(***************************************************************************)
(* What must be true of the registry of node operators.                    *)
(***************************************************************************)
EXTENDS NodeOperatorsRegistry

(* Invariants *)

RegistryTypeOK ==
    /\ operators \in Seq(NodeOperator)
    /\ activeCount \in Nat
    /\ keysOpIndex \in 0 .. WORD - 1

\* The counters of an operator stay in order through additions, removals,
\* trimming and assignments: the assert of assignNextSigningKeys and the
\* subtractions of getRewardsDistribution never fail.  The cached count is the
\* number of active operators, so that the require of _loadOperatorCache never
\* locks the deposits up.
CountersInOrder ==
    /\ activeCount = Cardinality(ActiveIds)
    /\ \A id \in Ids : /\ operators[id].stopped <= operators[id].used
                       /\ operators[id].used <= operators[id].total

\* A slot below the total holds a key, however often keys were removed or
\* trimmed and others stored over them: no deposit is made for an empty key.
KeysAreStored ==
    \A id \in Ids : \A s \in 0 .. operators[id].total - 1 : operators[id].keys[s] # EmptyKey

\* The operators never get more than the shares that are divided (Lido
\* transfers what is left of them to the treasury).
RewardsWithinTotal ==
    \A amount \in 0 .. 2 * MaxKeys : SupplyOf(RewardsDistribution(amount)) <= amount

-----------------------------------------------------------------------------
(* Action properties *)

\* A key that was handed out keeps its place: a validator that was deposited is
\* never removed, replaced or handed out again.
UsedKeysAreFinal ==
    [][ \A id \in Ids :
          /\ operators'[id].used >= operators[id].used
          /\ \A s \in 0 .. operators[id].used - 1 :
                operators'[id].keys[s] = operators[id].keys[s] ]_registryVars

Reached(id) == operators'[id].used > operators[id].used

\* The keys go to the operators with the smallest stake: whoever got one has at
\* most one validator more than whoever could still get one.
AssignmentIsFair ==
    [][ \A id, other \in Ids :
          Reached(id) /\ other \in Eligible([i \in Ids |-> operators[i].used])'
            => Stake(operators'[id]) <= Stake(operators'[other]) + 1 ]_registryVars

\* Fewer keys than asked for are handed out only when nobody can get one more.
AssignmentIsComplete ==
    [][ \A n \in 1 .. MaxAssigned :
          AssignNextSigningKeys(n) =>
            \/ SupplyOf([id \in Ids |-> operators'[id].used])
                 = SupplyOf([id \in Ids |-> operators[id].used]) + n
            \/ Eligible([id \in Ids |-> operators[id].used])' = {} ]_registryVars

\* While the index stays what the guardians saw, no operator is switched on or
\* off or given another limit, and its keys stay what and where they were, except
\* that the unused ones may all be trimmed.
IndexGuardsKeys ==
    [][ keysOpIndex' = keysOpIndex =>
          \A id \in Ids :
            /\ operators'[id].active = operators[id].active
            /\ operators'[id].stakingLimit = operators[id].stakingLimit
            /\ operators'[id].used = operators[id].used
            /\ operators'[id].total \in {operators[id].total, operators[id].used}
            /\ \A s \in 0 .. operators'[id].total - 1 :
                  operators'[id].keys[s] = operators[id].keys[s] ]_registryVars

=============================================================================
