------------------------------- MODULE WstETH -------------------------------
(***************************************************************************)
(* The wrapper (src/contracts/0.6.12/WstETH.sol): a token whose units are  *)
(* shares that the wrapper holds.  It asks for the shares an amount stands *)
(* for, and then has the amount moved, which is converted again.           *)
(***************************************************************************)
EXTENDS StETH

CONSTANTS Wrapper, Wrappers    \* the contract; who wraps

ASSUME WrapperAssumption == Wrapper \in Accounts /\ Wrappers \subseteq Accounts \ {Wrapper}

VARIABLE wstETH     \* the balances of the wrapped token

WstETHInit == wstETH = [u \in Wrappers |-> 0]

Wrap(u, amount, tp) ==
    /\ amount > 0
    /\ wstETH' = [wstETH EXCEPT ![u] = @ + SharesByPooledEth(amount, tp)]
    /\ TransferFrom(Wrapper, u, Wrapper, amount, tp)

Unwrap(u, n, tp) ==
    /\ 0 < n /\ n <= wstETH[u]
    /\ wstETH' = [wstETH EXCEPT ![u] = @ - n]
    /\ Transfer(Wrapper, u, PooledEthByShares(n, tp), tp)

\* ERC20: transfer
TransferWstETH(u, v, n) ==
    /\ n <= wstETH[u]
    /\ wstETH' = Moved(wstETH, u, v, n)
    /\ UNCHANGED <<tokenVars, active>>

\* What Lido.submit mints for the value.
SubmittedShares(value, tp) ==
    LET n == SharesByPooledEth(value, tp) IN IF n = 0 THEN value ELSE n

\* Mutant: the value is minted, not the shares of it.
Receive_OneToOne(u, value, tp) ==
    /\ wstETH' = [wstETH EXCEPT ![u] = @ + value]
    /\ MintShares(Wrapper, SubmittedShares(value, tp))
    /\ UNCHANGED <<allowances, active>>

\* The fallback function stakes for the wrapper.
Receive(u, value, tp) ==
    /\ wstETH' = [wstETH EXCEPT ![u] = @ + SubmittedShares(value, tp)]
    /\ MintShares(Wrapper, SubmittedShares(value, tp))
    /\ UNCHANGED <<allowances, active>>
=============================================================================
