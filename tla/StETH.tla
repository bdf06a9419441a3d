------------------------------- MODULE StETH --------------------------------
(***************************************************************************)
(* The rebasing token (src/contracts/0.4.24/StETH.sol) with the pause flag *)
(* it inherits from Pausable.  A holder owns shares; its token balance is  *)
(* its part of the pooled ether, so every conversion takes the pooled      *)
(* ether `tp' of the moment: the contract leaves _getTotalPooledEther      *)
(* abstract and Lido implements it.                                        *)
(***************************************************************************)
EXTENDS Supply

CONSTANTS
    Accounts,          \* every address that may own shares
    AllowanceValues    \* bound: the allowances approve & co. may leave

ASSUME AccountsAssumption == IsFiniteSet(Accounts)

VARIABLES
    shares,            \* shares held by each account
    totalShares,       \* TOTAL_SHARES_POSITION
    allowances,        \* token amount owner -> spender
    active             \* Pausable: FALSE while the protocol is stopped

tokenVars == <<shares, totalShares, allowances>>

NoShares == [a \in Accounts |-> 0]

StETHInit ==
    /\ shares = NoShares
    /\ totalShares = 0
    /\ allowances = [o \in Accounts |-> [s \in Accounts |-> 0]]
    /\ active = FALSE

StETHTypeOK ==
    /\ shares \in [Accounts -> Nat]
    /\ totalShares \in Nat
    /\ allowances \in [Accounts -> [Accounts -> Nat]]
    /\ active \in BOOLEAN

-----------------------------------------------------------------------------
(* Conversions, rounded down *)

\* Mutant: rounds up.
SharesByPooledEth_Up(amount, tp) ==
    IF tp = 0 THEN 0 ELSE (amount * totalShares + tp - 1) \div tp

SharesByPooledEth(amount, tp) ==
    IF tp = 0 THEN 0 ELSE (amount * totalShares) \div tp

PooledEthByShares(n, tp) ==
    IF totalShares = 0 THEN 0 ELSE (n * tp) \div totalShares

BalanceOf(a, tp) == PooledEthByShares(shares[a], tp)

\* Mutant: both balances are read before either is written.
Moved_Cached(s, from, to, n) == [s EXCEPT ![from] = s[from] - n, ![to] = s[to] + n]

\* Ledger s after _transferShares; correct when from = to as well.
Moved(s, from, to, n) == [s EXCEPT ![from] = @ - n, ![to] = @ + n]

-----------------------------------------------------------------------------
(* Internal operations, each guarded by whenNotStopped *)

\* Mutant: TOTAL_SHARES_POSITION is not written.
MintShares_Uncounted(a, n) ==
    /\ active
    /\ shares' = [shares EXCEPT ![a] = @ + n]
    /\ UNCHANGED totalShares

\* Mutant: not guarded by whenNotStopped.
MintShares_Stopped(a, n) ==
    /\ shares' = [shares EXCEPT ![a] = @ + n]
    /\ totalShares' = totalShares + n

MintShares(a, n) ==
    /\ active
    /\ shares' = [shares EXCEPT ![a] = @ + n]
    /\ totalShares' = totalShares + n

MoveShares(from, to, n) ==
    /\ active
    /\ n <= shares[from]
    /\ shares' = Moved(shares, from, to, n)

SetAllowance(owner, spender, amount) ==
    /\ active
    /\ allowances' = [allowances EXCEPT ![owner][spender] = amount]

-----------------------------------------------------------------------------
(* What holders call *)

\* transfer: the amount is in tokens and is converted to shares.
Transfer(from, to, amount, tp) ==
    /\ MoveShares(from, to, SharesByPooledEth(amount, tp))
    /\ UNCHANGED <<totalShares, allowances, active>>

TransferShares(from, to, n) ==
    /\ MoveShares(from, to, n)
    /\ UNCHANGED <<totalShares, allowances, active>>

\* transferFrom: the allowance is spent by the token amount asked for.
TransferFrom(spender, from, to, amount, tp) ==
    /\ allowances[from][spender] >= amount
    /\ MoveShares(from, to, SharesByPooledEth(amount, tp))
    /\ SetAllowance(from, spender, allowances[from][spender] - amount)
    /\ UNCHANGED <<totalShares, active>>

\* approve, increaseAllowance, decreaseAllowance all write one allowance: the
\* first any value, the others the current value plus or minus something.
Approve(owner, spender, amount) ==
    /\ SetAllowance(owner, spender, amount)
    /\ UNCHANGED <<shares, totalShares, active>>

IncreaseAllowance(owner, spender, added) ==
    Approve(owner, spender, allowances[owner][spender] + added)

DecreaseAllowance(owner, spender, subtracted) ==
    /\ allowances[owner][spender] >= subtracted
    /\ Approve(owner, spender, allowances[owner][spender] - subtracted)

\* _burnShares (reached through Lido.burnShares)
BurnShares(a, n) ==
    /\ active
    /\ n <= shares[a]
    /\ shares' = [shares EXCEPT ![a] = @ - n]
    /\ totalShares' = totalShares - n
    /\ UNCHANGED <<allowances, active>>

=============================================================================
