---------------------------- MODULE RebasingPool ----------------------------
(***************************************************************************)
(* What the pool promises its holders, with nothing of how it works: some  *)
(* ether is pooled, every account has a claim on a part of it, and a       *)
(* handful of steps may change either.  Buffers, deposits, validators,     *)
(* vaults, limits, fee settings and recovered ether are invisible.         *)
(***************************************************************************)
EXTENDS Supply

CONSTANTS Accounts, NoNews

VARIABLES
    pooled,    \* ether the claims divide
    news,      \* what was last heard of the ether outside the pool's hands
    claims,    \* shares of each account
    open       \* FALSE while the protocol is stopped

poolVars == <<pooled, news, claims, open>>

PoolInit ==
    /\ pooled = 0
    /\ news = NoNews
    /\ claims = [a \in Accounts |-> 0]
    /\ open = FALSE

AllClaims == SupplyOf(claims)

\* A staker buys claims at the going price, rounded down; if that is nothing
\* the claims are one for one with the ether.
Stake(a) ==
    /\ open
    /\ pooled' > pooled
    /\ LET value == pooled' - pooled
           bought == IF pooled = 0 THEN 0 ELSE (value * AllClaims) \div pooled
       IN  claims' = [claims EXCEPT ![a] = @ + (IF bought = 0 THEN value ELSE bought)]
    /\ UNCHANGED <<news, open>>

\* Claims change hands.
Exchange(from, to) ==
    /\ open
    /\ \E n \in 0 .. claims[from] :
          claims' = [claims EXCEPT ![from] = @ - n, ![to] = @ + n]
    /\ UNCHANGED <<pooled, news, open>>

\* Claims are given up, in favour of all the others.
GiveUp(a) ==
    /\ open
    /\ \E n \in 0 .. claims[a] : claims' = [claims EXCEPT ![a] = @ - n]
    /\ UNCHANGED <<pooled, news, open>>

\* News that the pool is richer and a fee may be taken:
\* new claims dilute the old ones by no more than the profit.
Profit ==
    /\ open
    /\ news' # news
    /\ pooled' > pooled
    /\ \A a \in Accounts : claims'[a] >= claims[a]
    /\ pooled' * AllClaims >= pooled * SupplyOf(claims')
    /\ UNCHANGED open

\* News without profit may change the pooled ether, and nobody's claims.
Rebase ==
    /\ open
    /\ news' # news
    /\ UNCHANGED <<claims, open>>

StopOrResume ==
    /\ open' = ~open
    /\ UNCHANGED <<pooled, news, claims>>

PoolNext ==
    \/ \E a \in Accounts : Stake(a) \/ GiveUp(a)
    \/ \E from, to \in Accounts : Exchange(from, to)
    \/ Profit
    \/ Rebase
    \/ StopOrResume

PoolSpec == PoolInit /\ [][PoolNext]_poolVars

=============================================================================
