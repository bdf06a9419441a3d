------------------------ MODULE SelfOwnedStETHBurner ------------------------
(***************************************************************************)
(* The contract that burns the tokens the DAO hands over                   *)
(* (src/contracts/0.8.9/SelfOwnedStETHBurner.sol), on the token it burns.  *)
(* Requests for a cover and other ones are counted apart.  Each report of  *)
(* the oracle burns what was requested, covers first, up to a part of all  *)
(* shares.                                                                 *)
(***************************************************************************)
EXTENDS StETH

CONSTANTS Burner, Voting, Treasury, MAX_BASIS_POINTS

ASSUME BurnerAssumption ==
    /\ {Burner, Voting, Treasury} \subseteq Accounts
    /\ Burner \notin {Voting, Treasury}
    /\ MAX_BASIS_POINTS \in Nat \ {0}

VARIABLES
    coverSharesBurnRequested, nonCoverSharesBurnRequested,
    totalCoverSharesBurnt, totalNonCoverSharesBurnt,
    maxBurnAmountPerRunBasisPoints

requestVars == <<coverSharesBurnRequested, nonCoverSharesBurnRequested>>
burntVars == <<totalCoverSharesBurnt, totalNonCoverSharesBurnt>>
burnerVars == <<requestVars, burntVars, maxBurnAmountPerRunBasisPoints>>

Quotas == 1 .. MAX_BASIS_POINTS

BurnerInit ==
    /\ coverSharesBurnRequested = 0
    /\ nonCoverSharesBurnRequested = 0
    /\ totalCoverSharesBurnt = 0
    /\ totalNonCoverSharesBurnt = 0
    /\ maxBurnAmountPerRunBasisPoints \in Quotas

BurnerTypeOK ==
    /\ {coverSharesBurnRequested, nonCoverSharesBurnRequested} \subseteq Nat
    /\ {totalCoverSharesBurnt, totalNonCoverSharesBurnt} \subseteq Nat
    /\ maxBurnAmountPerRunBasisPoints \in Quotas

Requested == coverSharesBurnRequested + nonCoverSharesBurnRequested
Burnt == totalCoverSharesBurnt + totalNonCoverSharesBurnt

-----------------------------------------------------------------------------
\* Calls that only the DAO's Voting may make.

SetBurnAmountPerRunQuota(quota) ==
    /\ quota \in Quotas
    /\ maxBurnAmountPerRunBasisPoints' = quota
    /\ UNCHANGED <<requestVars, burntVars, shares, totalShares, allowances, active>>

\* _requestBurnMyStETH: the tokens are moved first, and the shares they stand
\* for are asked for afterwards.
RequestBurn(amount, isCover, tp) ==
    LET n == SharesByPooledEth(amount, tp)
    IN  /\ amount > 0
        /\ TransferFrom(Burner, Voting, Burner, amount, tp)
        /\ coverSharesBurnRequested' = coverSharesBurnRequested + IF isCover THEN n ELSE 0
        /\ nonCoverSharesBurnRequested' = nonCoverSharesBurnRequested + IF isCover THEN 0 ELSE n
        /\ UNCHANGED <<burntVars, maxBurnAmountPerRunBasisPoints>>

-----------------------------------------------------------------------------
\* Calls that anybody may make.

\* Mutant: only one of the two counters is kept back.
ExcessStETH_CoverOnly(tp) ==
    IF shares[Burner] <= coverSharesBurnRequested THEN 0
    ELSE PooledEthByShares(shares[Burner] - coverSharesBurnRequested, tp)

\* getExcessStETH
ExcessStETH(tp) ==
    IF shares[Burner] <= Requested THEN 0 ELSE PooledEthByShares(shares[Burner] - Requested, tp)

RecoverExcessStETH(tp) ==
    /\ ExcessStETH(tp) > 0
    /\ Transfer(Burner, Treasury, ExcessStETH(tp), tp)
    /\ UNCHANGED burnerVars

-----------------------------------------------------------------------------
\* processLidoOracleReport

Smaller(m, n) == IF m <= n THEN m ELSE n

MaxSharesToBurnNow == (totalShares * maxBurnAmountPerRunBasisPoints) \div MAX_BASIS_POINTS

CoverNow == Smaller(MaxSharesToBurnNow, coverSharesBurnRequested)

\* Mutant: the covers do not count against the quota.
NonCoverNow_FullQuota == Smaller(MaxSharesToBurnNow, nonCoverSharesBurnRequested)

\* Nothing if the covers take the whole quota.
NonCoverNow == Smaller(MaxSharesToBurnNow - CoverNow, nonCoverSharesBurnRequested)

\* With nothing requested the burner returns before it looks at the caller.
ProcessLidoOracleReport(callerIsOracle) ==
    \/ Requested = 0 /\ UNCHANGED <<tokenVars, active, burnerVars>>
    \/ /\ Requested > 0
       /\ callerIsOracle
       /\ BurnShares(Burner, CoverNow + NonCoverNow)
       /\ coverSharesBurnRequested' = coverSharesBurnRequested - CoverNow
       /\ nonCoverSharesBurnRequested' = nonCoverSharesBurnRequested - NonCoverNow
       /\ totalCoverSharesBurnt' = totalCoverSharesBurnt + CoverNow
       /\ totalNonCoverSharesBurnt' = totalNonCoverSharesBurnt + NonCoverNow
       /\ UNCHANGED maxBurnAmountPerRunBasisPoints

ProcessReverts(callerIsOracle) ==
    /\ Requested > 0
    /\ ~callerIsOracle \/ ~active \/ shares[Burner] < CoverNow + NonCoverNow
=============================================================================
