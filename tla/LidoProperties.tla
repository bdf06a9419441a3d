--------------------------- MODULE LidoProperties ---------------------------
(***************************************************************************)
(* What must be true of Lido.                                              *)
(***************************************************************************)
EXTENDS Lido

-----------------------------------------------------------------------------
(* Invariants *)

\* The two books StETH keeps agree: the shares of all the accounts add up to
\* TOTAL_SHARES_POSITION, through mints, burns, transfers to oneself and the
\* transfers of a fee to recipients that may coincide.
SharesSumToTotal == SupplyOf(shares) = totalShares

\* The asserts of _getBufferedEther and _getTransientBalance never fire: the
\* buffer is covered by the contract's ether, and no more validators were seen
\* on the beacon chain than were deposited.
BooksAreCovered ==
    /\ bufferedEther <= balance
    /\ beaconValidators <= depositedValidators

-----------------------------------------------------------------------------
(* Action properties *)

ReportArrives == beaconVars' # beaconVars /\ depositedValidators' = depositedValidators

Profitable(validators, reported) ==
    reported > beaconBalance + (validators - beaconValidators) * DEPOSIT_SIZE

\* The ether nobody accounts for is only changed by a forced transfer or by its
\* recovery: stakes, deposits and rewards from the vault leave it alone (the
\* assert of _depositBufferedEther, extended to every other call).
UnaccountedUntouched ==
    [][ UnaccountedEther' # UnaccountedEther =>
          \/ UnaccountedEther' = 0 /\ outside' > outside
          \/ outside' < outside /\ bufferedEther' = bufferedEther ]_lidoVars

\* The shares minted as a fee are worth, after they are minted, no more than
\* the fee's part of the profit.
FeeWithinItsPart ==
    [][ totalShares' > totalShares /\ outside' = outside
          => (totalShares' - totalShares) * TotalPooledEther' * TOTAL_BASIS_POINTS
               <= config.fee * (TotalPooledEther' - TotalPooledEther) * totalShares' ]_lidoVars

\* Spending an allowance never costs its owner more tokens than the allowance
\* spent, although the allowance is in tokens and what moves is whole shares.
SpenderWithinAllowance ==
    [][ \A owner, spender \in Accounts :
          shares' # shares /\ allowances'[owner][spender] < allowances[owner][spender]
            => BalanceOf(owner, TotalPooledEther)
                 <= BalanceOf(owner, TotalPooledEther)'
                      + (allowances[owner][spender] - allowances'[owner][spender]) ]_lidoVars

-----------------------------------------------------------------------------
(* What holders are promised *)

Pool == INSTANCE RebasingPool WITH
            pooled <- TotalPooledEther, NoNews <- <<0, 0, 0>>,
            news <- <<beaconValidators, beaconBalance, totalELRewards>>, claims <- shares, open <- active

\* Lido implements the pool of claims: deposits, governance, rate limits and
\* recovered ether never show, nothing moves while the protocol is stopped, and
\* whatever changes a claim or the pooled ether is a step the pool allows.
ImplementsPool == Pool!PoolSpec

=============================================================================
