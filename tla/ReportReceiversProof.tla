------------------------ MODULE ReportReceiversProof ------------------------
(***************************************************************************)
(* Proofs that the burner holds what it was asked to burn and the wrapper  *)
(* what it owes, for any accounts, amounts, rates and order of callbacks,  *)
(* and that changes to the list of callbacks keep its order.               *)
(*                                                                         *)
(* A report that reverts brings old ledgers back.  The invariant therefore *)
(* says of the ledgers before the report in progress what it says of the   *)
(* present ones: both cover the wrapped tokens of the moment.              *)
(***************************************************************************)
EXTENDS ReportReceivers, SharedLemmas

LedgersOK(ledger, total, cover, nonCover) ==
    /\ ledger \in [Accounts -> Nat]
    /\ total \in Nat
    /\ SupplyOf(ledger) = total
    /\ cover \in Nat
    /\ nonCover \in Nat
    /\ cover + nonCover <= ledger[Burner]
    /\ SupplyOf(wstETH) <= ledger[Wrapper]

Present == LedgersOK(shares, totalShares, coverSharesBurnRequested, nonCoverSharesBurnRequested)

Before ==
    LET before == report.before
    IN  /\ LedgersOK(before.shares, before.totalShares, before.requested[1], before.requested[2])
        /\ before.pooledEther \in Nat
        /\ report = [calls |-> report.calls, before |-> before]

OthersOK ==
    /\ active = TRUE
    /\ allowances \in [Accounts -> [Accounts -> Nat]]
    /\ wstETH \in [Wrappers -> Nat]
    /\ pooledEther \in Nat
    /\ maxBurnAmountPerRunBasisPoints \in Nat

ReceiversInv == OthersOK /\ Present /\ (InReport => Before)

-----------------------------------------------------------------------------
(* Arithmetic *)

\* Quotients of natural numbers.
LEMMA QuotientNat ==
    ASSUME NEW a \in Nat, NEW b \in Nat, b > 0
    PROVE  a \div b \in Nat /\ (a \div b) * b <= a /\ a < (a \div b + 1) * b
OBVIOUS

\* Products of natural numbers.
LEMMA ProductNat ==
    ASSUME NEW a \in Nat, NEW b \in Nat
    PROVE  a * b \in Nat
OBVIOUS

\* A common factor may be cancelled.
LEMMA CancelFactor ==
    ASSUME NEW a \in Nat, NEW b \in Nat, NEW c \in Nat, c > 0, a * c <= b * c
    PROVE  a <= b
OBVIOUS

\* Shares that are converted to tokens and back are not more.
LEMMA ConvertedTwice ==
    ASSUME totalShares \in Nat, NEW n \in Nat, NEW tp \in Nat
    PROVE  /\ PooledEthByShares(n, tp) \in Nat
           /\ SharesByPooledEth(PooledEthByShares(n, tp), tp) \in 0 .. n
<1> DEFINE T == totalShares
           p == PooledEthByShares(n, tp)
           m == SharesByPooledEth(p, tp)
<1>1. p \in Nat /\ p * T <= n * tp
  <2>1. CASE T = 0
    BY <2>1, ProductNat DEF PooledEthByShares
  <2>2. CASE T > 0
    BY <2>2, ProductNat, QuotientNat DEF PooledEthByShares
  <2> QED BY <2>1, <2>2
<1>2. m \in Nat /\ (tp = 0 \/ m * tp <= p * T)
  <2>1. CASE tp = 0
    BY <2>1 DEF SharesByPooledEth
  <2>2. CASE tp > 0
    <3>1. p * T \in Nat
      BY <1>1, ProductNat
    <3> HIDE DEF p
    <3> QED BY <2>2, <3>1, QuotientNat DEF SharesByPooledEth
  <2> QED BY <2>1, <2>2
<1>3. m <= n
  <2>1. CASE tp = 0
    BY <2>1 DEF SharesByPooledEth
  <2>2. CASE tp > 0
    <3>1. m * tp \in Nat /\ p * T \in Nat /\ n * tp \in Nat
      BY <1>1, <1>2, ProductNat
    <3>2. m * tp <= n * tp
      <4> HIDE DEF m, p, T
      <4> QED BY <1>1, <1>2, <2>2, <3>1
    <3> HIDE DEF m
    <3> QED BY <1>2, <2>2, <3>2, CancelFactor
  <2> QED BY <2>1, <2>2
<1> QED BY <1>1, <1>2, <1>3

\* Amounts are converted to shares.
LEMMA SharesNat ==
    ASSUME totalShares \in Nat, NEW amount \in Nat, NEW tp \in Nat
    PROVE  SharesByPooledEth(amount, tp) \in Nat
<1>1. amount * totalShares \in Nat
  BY ProductNat
<1> QED BY <1>1, QuotientNat DEF SharesByPooledEth

-----------------------------------------------------------------------------
(* Ledgers *)

Plus(f, a, n) == [f EXCEPT ![a] = @ + n]
Minus(f, a, n) == [f EXCEPT ![a] = @ - n]

\* Units are added to one account.
LEMMA LedgerPlus ==
    ASSUME NEW S, IsFiniteSet(S), NEW f \in [S -> Nat], NEW a \in S, NEW n \in Nat
    PROVE  /\ Plus(f, a, n) \in [S -> Nat]
           /\ Plus(f, a, n)[a] = f[a] + n
           /\ \A x \in S \ {a} : Plus(f, a, n)[x] = f[x]
           /\ SupplyOf(Plus(f, a, n)) = SupplyOf(f) + n
<1> DEFINE g == Plus(f, a, n)
<1>1. g \in [S -> Nat] /\ g[a] = f[a] + n /\ \A x \in S \ {a} : g[x] = f[x]
  BY DEF Plus
<1> HIDE DEF g
<1>2. SupplyOf(g) = SupplyOf(f) + n
  BY <1>1, SupplyChange
<1> QED BY <1>1, <1>2 DEF g

\* Units that an account has are taken from it.
LEMMA LedgerMinus ==
    ASSUME NEW S, IsFiniteSet(S), NEW f \in [S -> Nat], NEW a \in S, NEW n \in Nat, n <= f[a]
    PROVE  /\ Minus(f, a, n) \in [S -> Nat]
           /\ Minus(f, a, n)[a] = f[a] - n
           /\ \A x \in S \ {a} : Minus(f, a, n)[x] = f[x]
           /\ SupplyOf(Minus(f, a, n)) \in Nat
           /\ SupplyOf(f) = SupplyOf(Minus(f, a, n)) + n
<1> DEFINE g == Minus(f, a, n)
<1>1. /\ g \in [S -> Nat] /\ g[a] = f[a] - n /\ f[a] = g[a] + n
      /\ \A x \in S \ {a} : g[x] = f[x]
  BY DEF Minus
<1> HIDE DEF g
<1>2. SupplyOf(f) = SupplyOf(g) + n
  BY <1>1, SupplyChange
<1>3. SupplyOf(g) \in Nat
  BY <1>1, UnitsFinite
<1> QED BY <1>1, <1>2, <1>3 DEF g

\* Units are moved, perhaps to where they are.
LEMMA LedgerMoved ==
    ASSUME NEW S, IsFiniteSet(S), NEW f \in [S -> Nat], NEW a \in S, NEW b \in S,
           NEW n \in Nat, n <= f[a]
    PROVE  /\ Moved(f, a, b, n) \in [S -> Nat]
           /\ SupplyOf(Moved(f, a, b, n)) = SupplyOf(f)
           /\ \A x \in S \ {a} : Moved(f, a, b, n)[x] >= f[x]
           /\ Moved(f, a, b, n)[a] >= f[a] - n
           /\ a # b => Moved(f, a, b, n)[b] = f[b] + n
<1> DEFINE h == [f EXCEPT ![a] = @ - n]
           g == Moved(f, a, b, n)
<1>1. /\ h \in [S -> Nat]
      /\ h[a] = f[a] - n
      /\ f[a] = h[a] + n
      /\ \A x \in S \ {a} : f[x] = h[x]
  OBVIOUS
<1>2. /\ g \in [S -> Nat]
      /\ g[b] = h[b] + n
      /\ \A x \in S \ {b} : g[x] = h[x]
  <2> SUFFICES ASSUME NEW k, k = Moved(f, a, b, n)
               PROVE  /\ k \in [S -> Nat]
                      /\ k[b] = h[b] + n
                      /\ \A x \in S \ {b} : k[x] = h[x]
    OBVIOUS
  <2> QED BY <1>1 DEF Moved
<1> HIDE DEF h, g
<1>3. SupplyOf(f) = SupplyOf(h) + n
  BY <1>1, SupplyChange
<1>4. SupplyOf(g) = SupplyOf(h) + n
  BY <1>1, <1>2, SupplyChange
<1>5. SupplyOf(g) = SupplyOf(f)
  BY <1>3, <1>4
<1>6. /\ \A x \in S \ {a} : g[x] >= f[x]
      /\ g[a] >= f[a] - n
      /\ a # b => g[b] = f[b] + n
  BY <1>1, <1>2
<1> QED BY <1>2, <1>5, <1>6 DEF g

-----------------------------------------------------------------------------
(* The token *)

\* The sum of the wrapped token is a number, and its holders are finitely many.
LEMMA WrappedNat ==
    ASSUME OthersOK
    PROVE  IsFiniteSet(Wrappers) /\ SupplyOf(wstETH) \in Nat
<1>1. IsFiniteSet(Wrappers)
  BY AccountsAssumption, WrapperAssumption, FS_Subset
<1> QED BY <1>1, UnitsFinite DEF OthersOK

\* Shares that move stay counted, and only their holder has less.
LEMMA MovedShares ==
    ASSUME Present, NEW from \in Accounts, NEW to \in Accounts, NEW n \in Nat,
           MoveShares(from, to, n)
    PROVE  /\ shares' \in [Accounts -> Nat]
           /\ SupplyOf(shares') = SupplyOf(shares)
           /\ \A x \in Accounts \ {from} : shares'[x] >= shares[x]
           /\ shares'[from] >= shares[from] - n
           /\ from # to => shares'[to] = shares[to] + n
<1>1. shares \in [Accounts -> Nat] /\ n <= shares[from] /\ shares' = Moved(shares, from, to, n)
  BY DEF Present, LedgersOK, MoveShares
<1> QED BY <1>1, LedgerMoved, AccountsAssumption

\* Shares that are minted are counted.
LEMMA MintedShares ==
    ASSUME Present, NEW a \in Accounts, NEW n \in Nat, MintShares(a, n)
    PROVE  /\ shares' \in [Accounts -> Nat]
           /\ totalShares' \in Nat
           /\ SupplyOf(shares') = totalShares'
           /\ \A x \in Accounts \ {a} : shares'[x] = shares[x]
           /\ shares'[a] = shares[a] + n
<1>1. /\ shares \in [Accounts -> Nat] /\ totalShares \in Nat /\ SupplyOf(shares) = totalShares
      /\ shares' = Plus(shares, a, n) /\ totalShares' = totalShares + n
  BY DEF Present, LedgersOK, MintShares, Plus
<1> QED BY <1>1, LedgerPlus, AccountsAssumption

\* Shares that are burnt were counted.
LEMMA BurntShares ==
    ASSUME Present, NEW a \in Accounts, NEW n \in Nat, BurnShares(a, n)
    PROVE  /\ shares' \in [Accounts -> Nat]
           /\ totalShares' \in Nat
           /\ SupplyOf(shares') = totalShares'
           /\ \A x \in Accounts \ {a} : shares'[x] = shares[x]
           /\ shares'[a] = shares[a] - n
<1>1. /\ shares \in [Accounts -> Nat] /\ totalShares \in Nat /\ SupplyOf(shares) = totalShares
      /\ n <= shares[a]
      /\ shares' = Minus(shares, a, n) /\ totalShares' = totalShares - n
  BY DEF Present, LedgersOK, BurnShares, Minus
<1>2. /\ shares' \in [Accounts -> Nat]
      /\ SupplyOf(shares') \in Nat
      /\ SupplyOf(shares) = SupplyOf(shares') + n
      /\ \A x \in Accounts \ {a} : shares'[x] = shares[x]
      /\ shares'[a] = shares[a] - n
  BY <1>1, LedgerMinus, AccountsAssumption
<1> QED BY <1>1, <1>2

\* An allowance that is spent was there.
LEMMA SpentAllowance ==
    ASSUME OthersOK, NEW spender \in Accounts, NEW from \in Accounts, NEW to,
           NEW amount \in Nat, TransferFrom(spender, from, to, amount, pooledEther)
    PROVE  allowances' \in [Accounts -> [Accounts -> Nat]]
<1>1. /\ allowances \in [Accounts -> [Accounts -> Nat]]
      /\ allowances[from][spender] >= amount
      /\ allowances' = [allowances EXCEPT ![from][spender] = allowances[from][spender] - amount]
  BY DEF OthersOK, TransferFrom, SetAllowance
<1>2. allowances[from][spender] - amount \in Nat
  BY <1>1
<1> QED BY <1>1, <1>2

-----------------------------------------------------------------------------
(* Holders and the wrapper *)

\* A holder that moves its own shares takes none from the burner or the wrapper.
LEMMA TransferKeeps ==
    ASSUME OthersOK, Present, NEW from \in Holders, NEW to \in Accounts, NEW amount \in Nat,
           Transfer(from, to, amount, pooledEther),
           UNCHANGED <<wstETH, burnerVars, pooledEther>>
    PROVE  OthersOK' /\ Present'
<1>1. from \in Accounts /\ from # Burner /\ from # Wrapper
  BY BurnerAssumption, WrapperAssumption, ReceiversAssumption DEF Holders
<1>2. SharesByPooledEth(amount, pooledEther) \in Nat
  BY SharesNat DEF OthersOK, Present, LedgersOK
<1>3. /\ shares' \in [Accounts -> Nat]
      /\ SupplyOf(shares') = SupplyOf(shares)
      /\ \A x \in Accounts \ {from} : shares'[x] >= shares[x]
  BY <1>1, <1>2, MovedShares DEF Transfer
<1>4. shares'[Burner] >= shares[Burner] /\ shares'[Wrapper] >= shares[Wrapper]
  BY <1>1, <1>3, BurnerAssumption, WrapperAssumption
<1>5. UNCHANGED <<totalShares, allowances, active>>
  BY DEF Transfer
<1>6. OthersOK'
  BY <1>5 DEF OthersOK, burnerVars
<1>7. shares[Burner] \in Nat /\ shares'[Burner] \in Nat
      /\ shares[Wrapper] \in Nat /\ shares'[Wrapper] \in Nat /\ SupplyOf(wstETH) \in Nat
  BY <1>3, WrappedNat, BurnerAssumption, WrapperAssumption DEF Present, LedgersOK
<1>8. Present'
  BY <1>3, <1>4, <1>5, <1>7 DEF Present, LedgersOK, burnerVars, requestVars
<1> QED BY <1>6, <1>8

\* wrap: the wrapper gets the shares of the amount, and owes as many.
LEMMA WrapKeeps ==
    ASSUME OthersOK, Present, NEW u \in Wrappers, NEW amount \in Nat,
           Wrap(u, amount, pooledEther), UNCHANGED <<burnerVars, pooledEther>>
    PROVE  OthersOK' /\ Present'
<1> DEFINE n == SharesByPooledEth(amount, pooledEther)
<1>1. u \in Accounts /\ u # Burner /\ u # Wrapper
  BY WrapperAssumption, ReceiversAssumption
<1>2. n \in Nat
  BY SharesNat DEF OthersOK, Present, LedgersOK
<1>3. /\ TransferFrom(Wrapper, u, Wrapper, amount, pooledEther)
      /\ MoveShares(u, Wrapper, n)
      /\ UNCHANGED <<totalShares, active>>
      /\ wstETH' = Plus(wstETH, u, n)
  BY DEF Wrap, TransferFrom, Plus
<1> HIDE DEF n
<1>4. /\ shares' \in [Accounts -> Nat]
      /\ SupplyOf(shares') = SupplyOf(shares)
      /\ shares'[Burner] >= shares[Burner]
      /\ shares'[Wrapper] = shares[Wrapper] + n
  BY <1>1, <1>2, <1>3, MovedShares, BurnerAssumption, WrapperAssumption
<1>5. wstETH' \in [Wrappers -> Nat] /\ SupplyOf(wstETH') = SupplyOf(wstETH) + n
  BY <1>2, <1>3, WrappedNat, LedgerPlus DEF OthersOK
<1>6. allowances' \in [Accounts -> [Accounts -> Nat]]
  BY <1>1, <1>3, SpentAllowance, WrapperAssumption
<1>7. OthersOK'
  BY <1>3, <1>5, <1>6 DEF OthersOK, burnerVars
<1>8. shares[Burner] \in Nat /\ shares'[Burner] \in Nat
      /\ shares[Wrapper] \in Nat /\ SupplyOf(wstETH) \in Nat
  BY <1>4, WrappedNat, BurnerAssumption, WrapperAssumption DEF Present, LedgersOK
<1>9. Present'
  BY <1>2, <1>3, <1>4, <1>5, <1>8 DEF Present, LedgersOK, burnerVars, requestVars
<1> QED BY <1>7, <1>9

\* unwrap: the amount, converted back, is not more shares than were owed.
LEMMA UnwrapKeeps ==
    ASSUME OthersOK, Present, NEW u \in Wrappers, NEW n \in Nat,
           Unwrap(u, n, pooledEther), UNCHANGED <<burnerVars, pooledEther>>
    PROVE  OthersOK' /\ Present'
<1> DEFINE m == SharesByPooledEth(PooledEthByShares(n, pooledEther), pooledEther)
<1>1. u \in Accounts /\ Wrapper # Burner
  BY WrapperAssumption, ReceiversAssumption
<1>2. m \in Nat /\ m <= n
  BY ConvertedTwice DEF OthersOK, Present, LedgersOK
<1>3. /\ MoveShares(Wrapper, u, m)
      /\ UNCHANGED <<totalShares, allowances, active>>
      /\ n <= wstETH[u]
      /\ wstETH' = Minus(wstETH, u, n)
  BY DEF Unwrap, Transfer, Minus
<1> HIDE DEF m
<1>4. /\ shares' \in [Accounts -> Nat]
      /\ SupplyOf(shares') = SupplyOf(shares)
      /\ shares'[Burner] >= shares[Burner]
      /\ shares'[Wrapper] >= shares[Wrapper] - m
  BY <1>1, <1>2, <1>3, MovedShares, BurnerAssumption, WrapperAssumption
<1>5. /\ wstETH' \in [Wrappers -> Nat]
      /\ SupplyOf(wstETH') \in Nat
      /\ SupplyOf(wstETH) = SupplyOf(wstETH') + n
  BY <1>3, WrappedNat, LedgerMinus DEF OthersOK
<1>6. OthersOK'
  BY <1>3, <1>5 DEF OthersOK, burnerVars
<1>7. shares[Burner] \in Nat /\ shares'[Burner] \in Nat
      /\ shares[Wrapper] \in Nat /\ shares'[Wrapper] \in Nat
  BY <1>4, BurnerAssumption, WrapperAssumption DEF Present, LedgersOK
<1>8. Present'
  BY <1>2, <1>3, <1>4, <1>5, <1>7 DEF Present, LedgersOK, burnerVars, requestVars
<1> QED BY <1>6, <1>8

\* A transfer of the wrapped token leaves its sum alone.
LEMMA TransferWstETHKeeps ==
    ASSUME OthersOK, Present, NEW u \in Wrappers, NEW v \in Wrappers, NEW n \in Nat,
           TransferWstETH(u, v, n), UNCHANGED <<burnerVars, pooledEther>>
    PROVE  OthersOK' /\ Present'
<1>1. /\ n <= wstETH[u]
      /\ wstETH' = Moved(wstETH, u, v, n)
      /\ UNCHANGED <<shares, totalShares, allowances, active>>
  BY DEF TransferWstETH, tokenVars
<1>2. wstETH' \in [Wrappers -> Nat] /\ SupplyOf(wstETH') = SupplyOf(wstETH)
  BY <1>1, WrappedNat, LedgerMoved DEF OthersOK
<1> QED BY <1>1, <1>2 DEF OthersOK, Present, LedgersOK, burnerVars, requestVars

\* What holders and the wrapper do outside a report.
LEMMA HolderStepKeeps == OthersOK /\ Present /\ HolderStep => OthersOK' /\ Present'
<1> SUFFICES ASSUME OthersOK, Present, HolderStep PROVE OthersOK' /\ Present'
  OBVIOUS
<1>1. UNCHANGED <<burnerVars, pooledEther>>
  BY DEF HolderStep
<1>2. Amounts \subseteq Nat /\ AllowanceValues \subseteq Nat /\ 1 .. MaxShares \subseteq Nat
  BY ReceiversAssumption
<1>3. ASSUME NEW from \in Holders, NEW to \in Accounts, NEW amount \in Amounts,
             Transfer(from, to, amount, pooledEther), UNCHANGED wstETH
      PROVE  OthersOK' /\ Present'
  BY <1>1, <1>2, <1>3, TransferKeeps
<1>4. ASSUME NEW owner \in Holders, NEW spender, NEW amount \in AllowanceValues,
             spender = Burner \/ spender = Wrapper,
             Approve(owner, spender, amount), UNCHANGED wstETH
      PROVE  OthersOK' /\ Present'
  <2>1. allowances' \in [Accounts -> [Accounts -> Nat]]
    BY <1>2, <1>4, BurnerAssumption, WrapperAssumption DEF OthersOK, Approve, SetAllowance, Holders
  <2> QED BY <1>1, <1>4, <2>1
          DEF Approve, OthersOK, Present, LedgersOK, burnerVars, requestVars
<1>5. ASSUME NEW u \in Wrappers, NEW amount \in Amounts, Wrap(u, amount, pooledEther)
      PROVE  OthersOK' /\ Present'
  BY <1>1, <1>2, <1>5, WrapKeeps
<1>6. ASSUME NEW u \in Wrappers, NEW n \in 1 .. MaxShares, Unwrap(u, n, pooledEther)
      PROVE  OthersOK' /\ Present'
  BY <1>1, <1>2, <1>6, UnwrapKeeps
<1>7. ASSUME NEW u \in Wrappers, NEW v \in Wrappers, NEW n \in 1 .. MaxShares,
             TransferWstETH(u, v, n)
      PROVE  OthersOK' /\ Present'
  BY <1>1, <1>2, <1>7, TransferWstETHKeeps
<1> QED BY <1>3, <1>4, <1>5, <1>6, <1>7 DEF HolderStep

\* Staking through the wrapper: it owes what was minted for it.
LEMMA StakeAndWrapKeeps == OthersOK /\ Present /\ StakeAndWrap => OthersOK' /\ Present'
<1> SUFFICES ASSUME OthersOK, Present, NEW u \in Wrappers, NEW value \in Amounts,
                    Receive(u, value, pooledEther), pooledEther' = pooledEther + value,
                    UNCHANGED burnerVars
             PROVE  OthersOK' /\ Present'
  BY DEF StakeAndWrap
<1> DEFINE n == SubmittedShares(value, pooledEther)
<1>1. value \in Nat
  BY ReceiversAssumption
<1>2. n \in Nat
  BY <1>1, SharesNat DEF SubmittedShares, OthersOK, Present, LedgersOK
<1>3. /\ MintShares(Wrapper, n)
      /\ UNCHANGED <<allowances, active>>
      /\ wstETH' = Plus(wstETH, u, n)
  BY DEF Receive, Plus
<1> HIDE DEF n
<1>4. /\ shares' \in [Accounts -> Nat]
      /\ totalShares' \in Nat
      /\ SupplyOf(shares') = totalShares'
      /\ shares'[Burner] = shares[Burner]
      /\ shares'[Wrapper] = shares[Wrapper] + n
  BY <1>2, <1>3, MintedShares, BurnerAssumption, WrapperAssumption, ReceiversAssumption
<1>5. wstETH' \in [Wrappers -> Nat] /\ SupplyOf(wstETH') = SupplyOf(wstETH) + n
  BY <1>2, <1>3, WrappedNat, LedgerPlus DEF OthersOK
<1>6. OthersOK'
  BY <1>1, <1>3, <1>5 DEF OthersOK, burnerVars
<1>7. shares[Wrapper] \in Nat /\ SupplyOf(wstETH) \in Nat
  BY WrappedNat, WrapperAssumption DEF Present, LedgersOK
<1>8. Present'
  BY <1>2, <1>4, <1>5, <1>7 DEF Present, LedgersOK, burnerVars, requestVars
<1> QED BY <1>6, <1>8

-----------------------------------------------------------------------------
(* The burner *)

\* A request: the burner gets the shares that are asked for.
LEMMA RequestBurnKeeps ==
    ASSUME OthersOK, Present, NEW amount \in Nat, NEW isCover \in BOOLEAN,
           RequestBurn(amount, isCover, pooledEther), UNCHANGED <<wstETH, pooledEther>>
    PROVE  OthersOK' /\ Present'
<1> DEFINE n == SharesByPooledEth(amount, pooledEther)
           cover == IF isCover THEN n ELSE 0
           other == IF isCover THEN 0 ELSE n
<1>1. Voting \in Accounts /\ Burner \in Accounts /\ Voting # Burner /\ Voting # Wrapper
  BY BurnerAssumption, ReceiversAssumption
<1>2. n \in Nat
  BY SharesNat DEF OthersOK, Present, LedgersOK
<1>3. /\ TransferFrom(Burner, Voting, Burner, amount, pooledEther)
      /\ MoveShares(Voting, Burner, n)
      /\ coverSharesBurnRequested' = coverSharesBurnRequested + cover
      /\ nonCoverSharesBurnRequested' = nonCoverSharesBurnRequested + other
      /\ UNCHANGED <<totalShares, active, maxBurnAmountPerRunBasisPoints>>
  BY DEF RequestBurn, TransferFrom
<1> HIDE DEF n
<1>4. cover \in Nat /\ other \in Nat /\ cover + other = n
  BY <1>2
<1>5. /\ shares' \in [Accounts -> Nat]
      /\ SupplyOf(shares') = SupplyOf(shares)
      /\ shares'[Burner] = shares[Burner] + n
      /\ shares'[Wrapper] >= shares[Wrapper]
  BY <1>1, <1>2, <1>3, MovedShares, WrapperAssumption
<1>6. allowances' \in [Accounts -> [Accounts -> Nat]]
  BY <1>1, <1>3, SpentAllowance
<1>7. OthersOK'
  BY <1>3, <1>6 DEF OthersOK
<1>8. shares[Burner] \in Nat /\ shares[Wrapper] \in Nat /\ shares'[Wrapper] \in Nat
      /\ SupplyOf(wstETH) \in Nat
  BY <1>5, WrappedNat, BurnerAssumption, WrapperAssumption DEF Present, LedgersOK
<1> HIDE DEF cover, other
<1>9. Present'
  BY <1>3, <1>4, <1>5, <1>8 DEF Present, LedgersOK
<1> QED BY <1>7, <1>9

\* The excess, converted to tokens and back, is not more shares than are free.
LEMMA RecoverExcessKeeps ==
    ASSUME OthersOK, Present, RecoverExcessStETH(pooledEther), UNCHANGED <<wstETH, pooledEther>>
    PROVE  OthersOK' /\ Present'
<1> DEFINE free == shares[Burner] - Requested
           m == SharesByPooledEth(ExcessStETH(pooledEther), pooledEther)
<1>1. /\ Burner \in Accounts /\ Treasury \in Accounts /\ Wrapper \in Accounts
      /\ Burner # Wrapper
  BY BurnerAssumption, WrapperAssumption, ReceiversAssumption
<1>2. free \in Nat /\ Requested \in Nat /\ shares[Burner] \in Nat
  BY <1>1 DEF Present, LedgersOK, Requested
<1>3. ExcessStETH(pooledEther) = PooledEthByShares(free, pooledEther)
  BY <1>2 DEF RecoverExcessStETH, ExcessStETH
<1>4. m \in Nat /\ m <= free
  <2> HIDE DEF free
  <2> QED BY <1>2, <1>3, ConvertedTwice DEF OthersOK, Present, LedgersOK
<1>5. /\ MoveShares(Burner, Treasury, m)
      /\ UNCHANGED <<totalShares, allowances, active, burnerVars>>
  BY DEF RecoverExcessStETH, Transfer
<1> HIDE DEF m
<1>6. /\ shares' \in [Accounts -> Nat]
      /\ SupplyOf(shares') = SupplyOf(shares)
      /\ shares'[Burner] >= shares[Burner] - m
      /\ shares'[Wrapper] >= shares[Wrapper]
  BY <1>1, <1>4, <1>5, MovedShares
<1>7. OthersOK'
  BY <1>5 DEF OthersOK, burnerVars
<1>8. shares'[Burner] \in Nat /\ shares[Wrapper] \in Nat /\ shares'[Wrapper] \in Nat
      /\ SupplyOf(wstETH) \in Nat
  BY <1>1, <1>6, WrappedNat DEF Present, LedgersOK
<1>9. Present'
  BY <1>2, <1>4, <1>5, <1>6, <1>8 DEF Present, LedgersOK, burnerVars, requestVars, Requested
<1> QED BY <1>7, <1>9

\* What the burner does outside a report.
LEMMA BurnerStepKeeps == OthersOK /\ Present /\ BurnerStep => OthersOK' /\ Present'
<1> SUFFICES ASSUME OthersOK, Present, BurnerStep PROVE OthersOK' /\ Present'
  OBVIOUS
<1>1. UNCHANGED <<wstETH, pooledEther>> /\ Amounts \subseteq Nat
  BY ReceiversAssumption DEF BurnerStep
<1>2. ASSUME NEW quota \in Quotas, SetBurnAmountPerRunQuota(quota) PROVE OthersOK' /\ Present'
  <2>1. quota \in Nat
    BY BurnerAssumption DEF Quotas
  <2> QED BY <1>1, <1>2, <2>1
          DEF SetBurnAmountPerRunQuota, OthersOK, Present, LedgersOK, requestVars
<1>3. ASSUME NEW amount \in Amounts, NEW isCover \in BOOLEAN,
             RequestBurn(amount, isCover, pooledEther)
      PROVE  OthersOK' /\ Present'
  BY <1>1, <1>3, RequestBurnKeeps
<1>4. CASE RecoverExcessStETH(pooledEther)
  BY <1>1, <1>4, RecoverExcessKeeps
<1> QED BY <1>2, <1>3, <1>4 DEF BurnerStep

\* A run burns no more than was requested, cover by cover and in all.
LEMMA WithinRequests ==
    ASSUME OthersOK, Present
    PROVE  /\ CoverNow \in 0 .. coverSharesBurnRequested
           /\ NonCoverNow \in 0 .. nonCoverSharesBurnRequested
<1>1. MaxSharesToBurnNow \in Nat
  <2>1. totalShares * maxBurnAmountPerRunBasisPoints \in Nat
    BY ProductNat DEF OthersOK, Present, LedgersOK
  <2> QED BY <2>1, QuotientNat, BurnerAssumption DEF MaxSharesToBurnNow
<1>2. coverSharesBurnRequested \in Nat /\ nonCoverSharesBurnRequested \in Nat
  BY DEF Present, LedgersOK
<1>3. CoverNow \in 0 .. coverSharesBurnRequested /\ MaxSharesToBurnNow - CoverNow \in Nat
  BY <1>1, <1>2 DEF CoverNow, Smaller
<1>4. NonCoverNow \in 0 .. nonCoverSharesBurnRequested
  BY <1>2, <1>3 DEF NonCoverNow, Smaller
<1> QED BY <1>3, <1>4

-----------------------------------------------------------------------------
(* A report *)

\* Lido's part of a report mints shares, and keeps what there was before.
LEMMA ReportKeeps == ReceiversInv /\ Report => ReceiversInv'
<1> SUFFICES ASSUME ReceiversInv, NEW pooled \in PooledValues, NEW fee \in FeeShares,
                    pooledEther' = pooled, MintShares(Treasury, fee), Report
             PROVE  ReceiversInv'
  BY DEF Report
<1>1. OthersOK /\ Present
  BY DEF ReceiversInv
<1>2. pooled \in Nat /\ fee \in Nat
  BY ReceiversAssumption
<1>3. UNCHANGED <<allowances, active, burnerVars, wstETH>>
  BY DEF Report
<1>4. OthersOK'
  BY <1>1, <1>2, <1>3 DEF OthersOK, burnerVars
<1>5. Present'
  <2>1. /\ Burner \in Accounts /\ Treasury \in Accounts /\ Wrapper \in Accounts
        /\ Burner # Treasury
    BY BurnerAssumption, WrapperAssumption
  <2>2. /\ shares' \in [Accounts -> Nat]
        /\ totalShares' \in Nat
        /\ SupplyOf(shares') = totalShares'
        /\ \A x \in Accounts \ {Treasury} : shares'[x] = shares[x]
        /\ shares'[Treasury] = shares[Treasury] + fee
    BY <1>1, <1>2, <2>1, MintedShares
  <2>3. shares'[Burner] = shares[Burner]
    BY <2>1, <2>2
  <2>4. SupplyOf(wstETH) <= shares'[Wrapper]
    <3>1. shares[Wrapper] \in Nat /\ SupplyOf(wstETH) \in Nat /\ SupplyOf(wstETH) <= shares[Wrapper]
      BY <1>1, <2>1, WrappedNat DEF Present, LedgersOK
    <3> QED BY <1>2, <2>1, <2>2, <3>1
  <2> QED BY <1>1, <1>3, <2>2, <2>3, <2>4 DEF Present, LedgersOK, burnerVars, requestVars
<1>6. InReport' => Before'
  <2> SUFFICES ASSUME InReport' PROVE Before'
    OBVIOUS
  <2>1. PICK calls : report' = [calls |-> calls, before |-> ReportState]
    BY DEF Report, InReport, NoReport
  <2>2. /\ report'.calls = calls
        /\ report'.before.shares = shares
        /\ report'.before.totalShares = totalShares
        /\ report'.before.pooledEther = pooledEther
        /\ report'.before.requested[1] = coverSharesBurnRequested
        /\ report'.before.requested[2] = nonCoverSharesBurnRequested
        /\ report' = [calls |-> report'.calls, before |-> report'.before]
    BY <2>1 DEF ReportState, requestVars
  <2> QED BY <1>1, <1>3, <2>2 DEF Before, Present, LedgersOK, OthersOK
<1> QED BY <1>4, <1>5, <1>6 DEF ReceiversInv

\* What there was before stays what it was while callbacks are called.
LEMMA CalledKeeps ==
    ASSUME Before, Called, UNCHANGED wstETH
    PROVE  InReport' => Before'
<1> SUFFICES ASSUME InReport' PROVE Before'
  OBVIOUS
<1>1. report' = [report EXCEPT !.calls = Tail(@)]
  BY DEF Called, InReport
<1>2. report = [calls |-> report.calls, before |-> report.before]
  BY DEF Before
<1>3. /\ report' = [calls |-> report'.calls, before |-> report'.before]
      /\ report'.before = report.before
  BY <1>1, <1>2
<1> QED BY <1>3 DEF Before, LedgersOK

\* The burner's part of a report.
LEMMA CallBurnerKeeps == ReceiversInv /\ CallBurner => ReceiversInv'
<1> SUFFICES ASSUME ReceiversInv, CallBurner PROVE ReceiversInv'
  OBVIOUS
<1>1. OthersOK /\ Present /\ Before
  BY DEF ReceiversInv, CallBurner, CalledNext
<1>2. Called /\ UNCHANGED <<wstETH, pooledEther>>
  BY DEF CallBurner
<1>3. InReport' => Before'
  BY <1>1, <1>2, CalledKeeps
<1>4. CASE UNCHANGED <<tokenVars, active, burnerVars>>
  BY <1>1, <1>2, <1>3, <1>4
     DEF ReceiversInv, OthersOK, Present, LedgersOK, tokenVars, burnerVars, requestVars
<1>5. CASE /\ BurnShares(Burner, CoverNow + NonCoverNow)
           /\ coverSharesBurnRequested' = coverSharesBurnRequested - CoverNow
           /\ nonCoverSharesBurnRequested' = nonCoverSharesBurnRequested - NonCoverNow
           /\ UNCHANGED maxBurnAmountPerRunBasisPoints
  <2> DEFINE n == CoverNow + NonCoverNow
  <2>1. /\ CoverNow \in 0 .. coverSharesBurnRequested
        /\ NonCoverNow \in 0 .. nonCoverSharesBurnRequested
        /\ coverSharesBurnRequested \in Nat /\ nonCoverSharesBurnRequested \in Nat
    BY <1>1, WithinRequests DEF Present, LedgersOK
  <2>2. n \in Nat
    BY <2>1
  <2>3. /\ Burner \in Accounts /\ Wrapper \in Accounts /\ Burner # Wrapper
    BY BurnerAssumption, WrapperAssumption, ReceiversAssumption
  <2>4. /\ shares' \in [Accounts -> Nat]
        /\ totalShares' \in Nat
        /\ SupplyOf(shares') = totalShares'
        /\ shares'[Wrapper] = shares[Wrapper]
        /\ shares'[Burner] = shares[Burner] - n
    <3> HIDE DEF n
    <3>1. BurnShares(Burner, n)
      BY <1>5 DEF n
    <3> QED BY <1>1, <2>2, <2>3, <3>1, BurntShares
  <2>5. UNCHANGED <<allowances, active>>
    BY <1>5 DEF BurnShares
  <2>6. OthersOK'
    BY <1>1, <1>2, <1>5, <2>5 DEF OthersOK
  <2>7. shares[Burner] \in Nat
    BY <1>1, <2>3 DEF Present, LedgersOK
  <2>8. Present'
    BY <1>1, <1>2, <1>5, <2>1, <2>4, <2>7 DEF Present, LedgersOK
  <2> QED BY <1>3, <2>6, <2>8 DEF ReceiversInv
<1> QED BY <1>4, <1>5 DEF CallBurner, ProcessLidoOracleReport

\* A report that is taken back leaves the ledgers of before, and the wrapped
\* token, which no part of a report touches.
LEMMA ReportRevertsKeeps == ReceiversInv /\ ReportReverts => ReceiversInv'
<1> SUFFICES ASSUME ReceiversInv, ReportReverts PROVE ReceiversInv'
  OBVIOUS
<1>1. OthersOK /\ Before
  BY DEF ReceiversInv, ReportReverts, CalledNext
<1>2. UNCHANGED <<allowances, active, maxBurnAmountPerRunBasisPoints, wstETH>> /\ ~InReport'
  BY DEF ReportReverts, InReport, NoReport
<1>3. OthersOK'
  BY <1>1, <1>2 DEF OthersOK, Before, ReportReverts
<1>4. Present'
  BY <1>1, <1>2 DEF Present, LedgersOK, Before, ReportReverts
<1> QED BY <1>2, <1>3, <1>4 DEF ReceiversInv

-----------------------------------------------------------------------------
(* The invariant *)

\* A deployed protocol with holders and nothing requested or wrapped.
LEMMA ReceiversInit == Init => ReceiversInv
<1> SUFFICES ASSUME Init PROVE ReceiversInv
  OBVIOUS
<1>1. /\ Burner \in Accounts /\ Wrapper \in Accounts
      /\ maxBurnAmountPerRunBasisPoints \in Nat
  BY BurnerAssumption, WrapperAssumption DEF Init, BurnerInit, Quotas
<1>2. shares \in [Accounts -> Nat] /\ totalShares = SupplyOf(shares)
  BY ReceiversAssumption DEF Init
<1>3. totalShares \in Nat
  BY <1>2, UnitsFinite, AccountsAssumption
<1>4. wstETH \in [Wrappers -> {0}] /\ wstETH \in [Wrappers -> Nat]
  BY DEF Init, WstETHInit
<1>5. SupplyOf(wstETH) = 0
  BY <1>4, SupplyNone
<1>6. OthersOK
  BY <1>1, <1>3, <1>4 DEF Init, OthersOK
<1>7. shares[Burner] \in Nat /\ shares[Wrapper] \in Nat
  BY <1>1, <1>2
<1>8. Present
  BY <1>2, <1>3, <1>5, <1>7 DEF Init, BurnerInit, Present, LedgersOK
<1> QED BY <1>6, <1>8 DEF Init, InReport, ReceiversInv

\* Every step keeps the invariant.
LEMMA ReceiversNext == ReceiversInv /\ [Next]_vars => ReceiversInv'
<1> SUFFICES ASSUME ReceiversInv, [Next]_vars PROVE ReceiversInv'
  OBVIOUS
<1>1. OthersOK /\ Present
  BY DEF ReceiversInv
<1>2. ASSUME OthersOK' /\ Present', ~InReport, UNCHANGED report PROVE ReceiversInv'
  BY <1>2 DEF ReceiversInv, InReport, NoReport
<1>3. CASE ~InReport /\ HolderStep
  BY <1>1, <1>2, <1>3, HolderStepKeeps DEF HolderStep
<1>4. CASE ~InReport /\ StakeAndWrap
  BY <1>1, <1>2, <1>4, StakeAndWrapKeeps DEF StakeAndWrap
<1>5. CASE ~InReport /\ BurnerStep
  BY <1>1, <1>2, <1>5, BurnerStepKeeps DEF BurnerStep
<1>6. CASE ~InReport /\ ReceiverStep
  <2>1. UNCHANGED <<tokenVars, active, burnerVars, wstETH, pooledEther, report>>
    BY <1>6 DEF ReceiverStep
  <2> QED BY <1>1, <1>2, <1>6, <2>1
          DEF OthersOK, Present, LedgersOK, tokenVars, burnerVars, requestVars
<1>7. CASE Report
  BY <1>7, ReportKeeps
<1>8. CASE CallBurner
  BY <1>8, CallBurnerKeeps
<1>9. CASE CallOther
  <2>1. Before /\ Called /\ UNCHANGED <<tokenVars, active, burnerVars, wstETH, pooledEther>>
    BY <1>9 DEF CallOther, CalledNext, ReceiversInv
  <2>2. InReport' => Before'
    BY <2>1, CalledKeeps
  <2> QED BY <1>1, <2>1, <2>2
          DEF ReceiversInv, OthersOK, Present, LedgersOK, tokenVars, burnerVars, requestVars
<1>10. CASE ReportReverts
  BY <1>10, ReportRevertsKeeps
<1>11. CASE UNCHANGED vars
  <2>1. UNCHANGED <<tokenVars, active, burnerVars, wstETH, pooledEther, report>>
    BY <1>11 DEF vars
  <2>2. InReport' => Before'
    BY <2>1 DEF ReceiversInv, InReport, NoReport, Before, LedgersOK
  <2> QED BY <1>1, <2>1, <2>2
          DEF ReceiversInv, OthersOK, Present, LedgersOK, tokenVars, burnerVars, requestVars
<1> QED BY <1>3, <1>4, <1>5, <1>6, <1>7, <1>8, <1>9, <1>10, <1>11 DEF Next

-----------------------------------------------------------------------------
\* The burner holds every share it was asked to burn, whatever the amounts, the
\* rates and the order of the callbacks: burnShares never reverts for it, and no
\* report fails for want of shares.
THEOREM ReceiversRequestsAreHeld == Spec => []RequestsAreHeld
<1>1. ReceiversInv => RequestsAreHeld
  <2> SUFFICES ASSUME ReceiversInv PROVE RequestsAreHeld
    OBVIOUS
  <2>1. OthersOK /\ Present
    BY DEF ReceiversInv
  <2>2. /\ coverSharesBurnRequested \in Nat /\ nonCoverSharesBurnRequested \in Nat
        /\ coverSharesBurnRequested + nonCoverSharesBurnRequested <= shares[Burner]
        /\ shares[Burner] \in Nat
    BY <2>1, BurnerAssumption DEF Present, LedgersOK
  <2>3. CoverNow + NonCoverNow <= shares[Burner] /\ CoverNow + NonCoverNow \in Nat
    BY <2>1, <2>2, WithinRequests
  <2>4. ~ProcessReverts(TRUE)
    BY <2>1, <2>2, <2>3 DEF ProcessReverts, OthersOK
  <2> QED BY <2>2, <2>4 DEF RequestsAreHeld, Requested
<1> QED BY ReceiversInit, ReceiversNext, <1>1, PTL DEF Spec

\* The wrapper holds a share for each unit of the wrapped token, for any rate:
\* the two roundings of wrap and of unwrap never leave it short.
THEOREM ReceiversWrapperIsCovered == Spec => []WrapperIsCovered
<1>1. ReceiversInv => WrapperIsCovered
  BY DEF ReceiversInv, Present, LedgersOK, WrapperIsCovered
<1> QED BY ReceiversInit, ReceiversNext, <1>1, PTL DEF Spec

-----------------------------------------------------------------------------
(* What a run of the burner burns *)

NatPair(p) == p[1] \in Nat /\ p[2] \in Nat

\* The counters of what was burnt are numbers, also those a report would bring back.
BurntInv ==
    /\ NatPair(burntVars)
    /\ InReport => NatPair(report.before.burnt)

\* The counters start at nothing.
LEMMA BurntInit == Init => BurntInv
BY DEF Init, BurnerInit, BurntInv, NatPair, burntVars, InReport

\* They are added to by the burner, and brought back by a report that reverts.
LEMMA BurntNext == ReceiversInv /\ BurntInv /\ [Next]_vars => BurntInv'
<1> SUFFICES ASSUME ReceiversInv, BurntInv, [Next]_vars PROVE BurntInv'
  OBVIOUS
<1>1. ASSUME UNCHANGED <<burntVars, report>> PROVE BurntInv'
  BY <1>1 DEF BurntInv, InReport, NoReport, burntVars
<1>2. ASSUME InReport, Called, NatPair(burntVars') PROVE BurntInv'
  <2>1. Before
    BY <1>2 DEF ReceiversInv
  <2>2. report = [calls |-> report.calls, before |-> report.before]
    BY <2>1 DEF Before
  <2>3. InReport' => report'.before = report.before
    BY <1>2, <2>2 DEF Called, InReport, NoReport
  <2> QED BY <1>2, <2>3 DEF BurntInv, NatPair, burntVars
<1>3. CASE HolderStep \/ StakeAndWrap \/ ReceiverStep \/ UNCHANGED vars
  BY <1>1, <1>3 DEF HolderStep, StakeAndWrap, ReceiverStep, burnerVars, vars
<1>4. CASE BurnerStep
  BY <1>1, <1>4 DEF BurnerStep, SetBurnAmountPerRunQuota, RequestBurn, RecoverExcessStETH, burnerVars
<1>5. CASE Report
  <2>1. UNCHANGED burntVars
    BY <1>5 DEF Report, burnerVars
  <2>2. InReport' => report'.before.burnt = burntVars
    BY <1>5 DEF Report, InReport, NoReport, ReportState
  <2> QED BY <2>1, <2>2 DEF BurntInv, NatPair, burntVars
<1>6. CASE CallBurner
  <2>1. CoverNow \in Nat /\ NonCoverNow \in Nat
    BY WithinRequests DEF ReceiversInv
  <2>2. totalCoverSharesBurnt \in Nat /\ totalNonCoverSharesBurnt \in Nat
    BY DEF BurntInv, NatPair, burntVars
  <2>3. NatPair(burntVars')
    BY <1>6, <2>1, <2>2 DEF CallBurner, ProcessLidoOracleReport, NatPair, burnerVars, burntVars
  <2> QED BY <1>2, <1>6, <2>3 DEF CallBurner, CalledNext
<1>7. CASE CallOther
  <2>1. NatPair(burntVars')
    BY <1>7 DEF CallOther, BurntInv, NatPair, burnerVars, burntVars
  <2> QED BY <1>2, <1>7, <2>1 DEF CallOther, CalledNext
<1>8. CASE ReportReverts
  <2>1. InReport /\ ~InReport'
    BY <1>8 DEF ReportReverts, CalledNext, InReport, NoReport
  <2>2. burntVars' = <<report.before.burnt[1], report.before.burnt[2]>>
    BY <1>8 DEF ReportReverts, burntVars
  <2> QED BY <2>1, <2>2 DEF BurntInv, NatPair
<1> QED BY <1>3, <1>4, <1>5, <1>6, <1>7, <1>8 DEF Next

\* How the quota of a run is divided, covers first.
LEMMA QuotaDivided ==
    ASSUME OthersOK, Present
    PROVE  /\ (CoverNow + NonCoverNow) * MAX_BASIS_POINTS
                <= totalShares * maxBurnAmountPerRunBasisPoints
           /\ NonCoverNow > 0 => CoverNow = coverSharesBurnRequested
           /\ CoverNow < coverSharesBurnRequested \/ NonCoverNow < nonCoverSharesBurnRequested =>
                (CoverNow + NonCoverNow + 1) * MAX_BASIS_POINTS
                  > totalShares * maxBurnAmountPerRunBasisPoints
<1> DEFINE limit == totalShares * maxBurnAmountPerRunBasisPoints
           most == MaxSharesToBurnNow
           b == MAX_BASIS_POINTS
<1>1. limit \in Nat /\ b \in Nat /\ b > 0
  BY ProductNat, BurnerAssumption DEF OthersOK, Present, LedgersOK
<1>2. most \in Nat /\ most * b <= limit /\ limit < (most + 1) * b
  <2> HIDE DEF limit, b
  <2>1. most = limit \div b
    BY DEF MaxSharesToBurnNow, limit, b
  <2> HIDE DEF most
  <2> QED BY <1>1, <2>1, QuotientNat
<1>3. coverSharesBurnRequested \in Nat /\ nonCoverSharesBurnRequested \in Nat
  BY DEF Present, LedgersOK
<1> HIDE DEF limit, b, most
<1>4. /\ CoverNow = (IF most <= coverSharesBurnRequested THEN most ELSE coverSharesBurnRequested)
      /\ NonCoverNow = (IF most - CoverNow <= nonCoverSharesBurnRequested
                        THEN most - CoverNow ELSE nonCoverSharesBurnRequested)
  BY DEF CoverNow, NonCoverNow, Smaller, most
<1>5. /\ CoverNow \in Nat /\ NonCoverNow \in Nat
      /\ CoverNow + NonCoverNow <= most
      /\ NonCoverNow > 0 => CoverNow = coverSharesBurnRequested
      /\ CoverNow < coverSharesBurnRequested \/ NonCoverNow < nonCoverSharesBurnRequested
            => CoverNow + NonCoverNow = most
  BY <1>2, <1>3, <1>4
<1>6. (CoverNow + NonCoverNow) * b <= most * b
  BY <1>1, <1>2, <1>5
<1>7. (CoverNow + NonCoverNow) * b \in Nat /\ most * b \in Nat
  BY <1>1, <1>2, <1>5, ProductNat
<1>8. (CoverNow + NonCoverNow) * b <= limit
  BY <1>1, <1>2, <1>6, <1>7
<1>9. CoverNow + NonCoverNow = most => (CoverNow + NonCoverNow + 1) * b > limit
  BY <1>1, <1>2
<1> QED BY <1>5, <1>8, <1>9 DEF limit, b

\* What a run burns of the shares, and takes off the requests.
LEMMA CallBurnerBurns ==
    ASSUME ReceiversInv, BurntInv, CallBurner
    PROVE  LET burnt == Burnt' - Burnt
           IN  /\ totalShares - totalShares' = burnt
               /\ Requested - Requested' = burnt
               /\ burnt * MAX_BASIS_POINTS <= totalShares * maxBurnAmountPerRunBasisPoints
               /\ totalNonCoverSharesBurnt' > totalNonCoverSharesBurnt
                    => coverSharesBurnRequested' = 0
               /\ Requested' > 0 =>
                    (burnt + 1) * MAX_BASIS_POINTS > totalShares * maxBurnAmountPerRunBasisPoints
<1>1. /\ OthersOK /\ Present
      /\ totalShares \in Nat /\ maxBurnAmountPerRunBasisPoints \in Nat
      /\ coverSharesBurnRequested \in Nat /\ nonCoverSharesBurnRequested \in Nat
      /\ totalCoverSharesBurnt \in Nat /\ totalNonCoverSharesBurnt \in Nat
  BY DEF ReceiversInv, OthersOK, Present, LedgersOK, BurntInv, NatPair, burntVars
<1>2. CASE Requested = 0 /\ UNCHANGED <<tokenVars, active, burnerVars>>
  <2>1. UNCHANGED <<totalShares, Burnt, Requested, totalNonCoverSharesBurnt>>
    BY <1>2 DEF tokenVars, burnerVars, requestVars, burntVars, Burnt, Requested
  <2>2. Burnt \in Nat /\ Burnt' - Burnt = 0 /\ Requested = 0 /\ Requested' = 0
    BY <1>1, <1>2, <2>1 DEF Burnt
  <2>3. totalShares * maxBurnAmountPerRunBasisPoints \in Nat /\ MAX_BASIS_POINTS \in Nat
    BY <1>1, ProductNat, BurnerAssumption
  <2> QED BY <1>1, <2>1, <2>2, <2>3
<1>3. CASE /\ BurnShares(Burner, CoverNow + NonCoverNow)
           /\ coverSharesBurnRequested' = coverSharesBurnRequested - CoverNow
           /\ nonCoverSharesBurnRequested' = nonCoverSharesBurnRequested - NonCoverNow
           /\ totalCoverSharesBurnt' = totalCoverSharesBurnt + CoverNow
           /\ totalNonCoverSharesBurnt' = totalNonCoverSharesBurnt + NonCoverNow
  <2>1. /\ CoverNow \in 0 .. coverSharesBurnRequested
        /\ NonCoverNow \in 0 .. nonCoverSharesBurnRequested
    BY <1>1, WithinRequests
  <2>2. totalShares' = totalShares - (CoverNow + NonCoverNow)
    BY <1>3 DEF BurnShares
  <2>3. /\ totalShares - totalShares' = CoverNow + NonCoverNow
        /\ Burnt' - Burnt = CoverNow + NonCoverNow
        /\ Requested - Requested' = CoverNow + NonCoverNow
    BY <1>1, <1>3, <2>1, <2>2 DEF Burnt, Requested
  <2>4. totalNonCoverSharesBurnt' > totalNonCoverSharesBurnt => NonCoverNow > 0
    BY <1>1, <1>3, <2>1
  <2>5. Requested' > 0 => CoverNow < coverSharesBurnRequested
                            \/ NonCoverNow < nonCoverSharesBurnRequested
    BY <1>1, <1>3, <2>1 DEF Requested
  <2>6. CoverNow = coverSharesBurnRequested => coverSharesBurnRequested' = 0
    BY <1>1, <1>3
  <2> QED BY <1>1, <2>3, <2>4, <2>5, <2>6, QuotaDivided
<1> QED BY <1>2, <1>3 DEF CallBurner, ProcessLidoOracleReport

\* A run burns what it says, within its quota of the shares of that moment, no
\* other request before every cover, and leaves requests only when the quota is
\* used up, for any quota, rate and list of callbacks.
THEOREM ReceiversBurnsFollowQuota == Spec => BurnsFollowQuota
<1>1. ReceiversInv /\ BurntInv /\ [Next]_vars =>
        [CallBurner =>
          LET burnt == Burnt' - Burnt
          IN  /\ totalShares - totalShares' = burnt
              /\ Requested - Requested' = burnt
              /\ burnt * MAX_BASIS_POINTS <= totalShares * maxBurnAmountPerRunBasisPoints
              /\ totalNonCoverSharesBurnt' > totalNonCoverSharesBurnt
                    => coverSharesBurnRequested' = 0
              /\ Requested' > 0 =>
                    (burnt + 1) * MAX_BASIS_POINTS
                      > totalShares * maxBurnAmountPerRunBasisPoints]_vars
  BY CallBurnerBurns
<1> QED BY ReceiversInit, ReceiversNext, BurntInit, BurntNext, <1>1, PTL
        DEF Spec, BurnsFollowQuota

-----------------------------------------------------------------------------
(* The list of callbacks *)

\* One entry overwritten by the one that is `distance' away.
Overwritten(l, k, distance) == [l EXCEPT ![k + 1] = l[k + 1 + distance]]

\* The lists that the shift makes on its way, for the positions with these
\* indexes: the last of them was overwritten last.
IsShift(f, list, positions, distance, S) ==
    f = [s \in SUBSET S |-> IF s = {} THEN list
                            ELSE Overwritten(f[s \ {Max(s)}], positions[Max(s)], distance)]

LEMMA MaxOfRange ==
    ASSUME NEW n \in Nat, NEW s \in SUBSET (1 .. n + 1)
    PROVE  /\ n + 1 \in s => Max(s) = n + 1
           /\ n + 1 \notin s => s \in SUBSET (1 .. n)
<1>1. ASSUME n + 1 \in s PROVE Max(s) = n + 1
  <2>1. \A y \in s : n + 1 >= y
    OBVIOUS
  <2>2. \A x \in s : (\A y \in s : x >= y) => x = n + 1
    BY <1>1, <2>1
  <2> QED BY <1>1, <2>1, <2>2 DEF Max
<1>2. ASSUME n + 1 \notin s PROVE s \in SUBSET (1 .. n)
  BY <1>2
<1> QED BY <1>1, <1>2

\* The recursive function is there, for any number of positions.
LEMMA ShiftExists ==
    ASSUME NEW list, NEW positions, NEW distance, NEW n \in Nat
    PROVE  \E f : IsShift(f, list, positions, distance, 1 .. n)
<1> DEFINE T == {m \in 0 .. n : \E f : IsShift(f, list, positions, distance, 1 .. m)}
<1>1. 0 \in T
  <2> DEFINE f == [s \in SUBSET (1 .. 0) |-> list]
  <2>1. \A s \in SUBSET (1 .. 0) : s = {}
    OBVIOUS
  <2>2. IsShift(f, list, positions, distance, 1 .. 0)
    BY <2>1 DEF IsShift
  <2> QED BY <2>2
<1>2. ASSUME NEW m \in 0 .. n - 1, m \in T PROVE m + 1 \in T
  <2>1. PICK f : IsShift(f, list, positions, distance, 1 .. m)
    BY <1>2
  <2> DEFINE g == [s \in SUBSET (1 .. m + 1) |->
                     IF m + 1 \in s THEN Overwritten(f[s \ {m + 1}], positions[m + 1], distance) ELSE f[s]]
             next(h, s) == IF s = {} THEN list
                           ELSE Overwritten(h[s \ {Max(s)}], positions[Max(s)], distance)
  <2>2. \A s \in SUBSET (1 .. m) : f[s] = next(f, s)
    BY <2>1 DEF IsShift
  <2>3. ASSUME NEW s \in SUBSET (1 .. m + 1) PROVE g[s] = next(g, s)
    <3>1. CASE m + 1 \in s
      <4>1. Max(s) = m + 1
        BY <3>1, MaxOfRange
      <4>2. s \ {m + 1} \in SUBSET (1 .. m + 1) /\ m + 1 \notin s \ {m + 1}
        OBVIOUS
      <4>3. g[s \ {m + 1}] = f[s \ {m + 1}]
        BY <4>2
      <4>4. g[s] = Overwritten(f[s \ {m + 1}], positions[m + 1], distance)
        BY <3>1
      <4> HIDE DEF g
      <4> QED BY <3>1, <4>1, <4>3, <4>4
    <3>2. CASE m + 1 \notin s
      <4>1. s \in SUBSET (1 .. m)
        BY <3>2, MaxOfRange
      <4>2. s \ {Max(s)} \in SUBSET (1 .. m)
        BY <4>1
      <4>3. g[s] = f[s] /\ g[s \ {Max(s)}] = f[s \ {Max(s)}]
        BY <3>2, <4>1, <4>2
      <4> HIDE DEF g
      <4> QED BY <2>2, <4>1, <4>3
    <3> QED BY <3>1, <3>2
  <2>4. g = [s \in SUBSET (1 .. m + 1) |-> g[s]]
    OBVIOUS
  <2> HIDE DEF g
  <2>5. g = [s \in SUBSET (1 .. m + 1) |-> next(g, s)]
    BY <2>3, <2>4
  <2>6. IsShift(g, list, positions, distance, 1 .. m + 1)
    BY <2>5 DEF IsShift
  <2>7. m + 1 \in 0 .. n
    OBVIOUS
  <2> QED BY <2>6, <2>7
<1> HIDE DEF T
<1>3. T \in SUBSET (0 .. n)
  BY DEF T
<1>4. n \in T
  BY <1>1, <1>2, <1>3, UpTo
<1> QED BY <1>4 DEF T

\* A shift is n lists after one another, each with one entry more overwritten.
LEMMA ShiftedIs ==
    ASSUME NEW list, NEW positions, NEW distance, NEW n \in Nat, DOMAIN positions = 1 .. n
    PROVE  \E h : /\ h[0] = list
                  /\ \A k \in 1 .. n : h[k] = Overwritten(h[k - 1], positions[k], distance)
                  /\ Shifted(list, positions, distance) = h[n]
<1> DEFINE f == CHOOSE f : IsShift(f, list, positions, distance, 1 .. n)
           h == [k \in 0 .. n |-> f[1 .. k]]
<1>1. IsShift(f, list, positions, distance, 1 .. n)
  <2>1. \E g : IsShift(g, list, positions, distance, 1 .. n)
    BY ShiftExists
  <2> QED BY <2>1
<1>2. Shifted(list, positions, distance) = f[1 .. n]
  BY DEF Shifted, FoldLeft, MapThenFoldSet, IsShift, Overwritten
<1> HIDE DEF f
<1>3. h[0] = list
  <2>1. 1 .. 0 = {} /\ {} \in SUBSET (1 .. n)
    OBVIOUS
  <2> QED BY <1>1, <2>1 DEF IsShift
<1>4. ASSUME NEW k \in 1 .. n PROVE h[k] = Overwritten(h[k - 1], positions[k], distance)
  <2>1. 1 .. k \in SUBSET (1 .. n) /\ 1 .. k # {} /\ (1 .. k) \ {k} = 1 .. k - 1
    OBVIOUS
  <2>2. Max(1 .. k) = k
    <3>1. PICK m \in Nat : m + 1 = k
      <4>1. k - 1 \in Nat /\ (k - 1) + 1 = k
        OBVIOUS
      <4> QED BY <4>1
    <3>2. 1 .. k \in SUBSET (1 .. m + 1) /\ m + 1 \in 1 .. k
      BY <3>1
    <3>3. Max(1 .. k) = m + 1
      BY ONLY <3>1, <3>2, MaxOfRange
    <3> QED BY <3>1, <3>3
  <2>3. f[1 .. k] = Overwritten(f[1 .. k - 1], positions[k], distance)
    BY <1>1, <2>1, <2>2 DEF IsShift
  <2> QED BY <2>3
<1>5. h[n] = f[1 .. n]
  OBVIOUS
<1> HIDE DEF h
<1> QED BY <1>2, <1>3, <1>4, <1>5

\* Where the entries of a concatenation come from.
LEMMA ConcatenationIs ==
    ASSUME NEW S, NEW a \in Seq(S), NEW b \in Seq(S)
    PROVE  /\ a \o b \in Seq(S)
           /\ Len(a \o b) = Len(a) + Len(b)
           /\ \A x \in 1 .. Len(a) : (a \o b)[x] = a[x]
           /\ \A x \in Len(a) + 1 .. Len(a) + Len(b) : (a \o b)[x] = b[x - Len(a)]
OBVIOUS

\* Inserting shifts the entries from the last to the first, each out of the way of
\* the next.
LEMMA InsertedIs ==
    ASSUME NEW S, NEW list \in Seq(S), NEW c \in S, NEW at \in Nat, at <= Len(list)
    PROVE  /\ Inserted(list, c, at) = InsertAt(list, at + 1, c)
           /\ at + 1 \in DOMAIN Inserted(list, c, at)
           /\ Len(Inserted(list, c, at)) = Len(list) + 1
           /\ Inserted(list, c, at) \in Seq(S)
<1> DEFINE n == Len(list)
           m == n - at
           pushed == Append(list, ZeroAddress)
           positions == Reverse(Ascending(at + 1, n))
           shifted == Shifted(pushed, positions, -1)
           now == [shifted EXCEPT ![at + 1] = c]
           then == InsertAt(list, at + 1, c)
<1>1. n \in Nat /\ m \in Nat /\ m <= n /\ at + 1 \in 1 .. n + 1
  OBVIOUS
<1>2. DOMAIN pushed = 1 .. n + 1 /\ \A x \in 1 .. n : pushed[x] = list[x]
  OBVIOUS
<1>3. DOMAIN positions = 1 .. m /\ \A k \in 1 .. m : positions[k] = n - k + 1
  <2>1. Ascending(at + 1, n) = [k \in 1 .. m |-> at + k]
    BY <1>1 DEF Ascending
  <2>2. Len([k \in 1 .. m |-> at + k]) = m
    BY <1>1
  <2>3. positions = [k \in 1 .. m |-> [j \in 1 .. m |-> at + j][(m - k) + 1]]
    BY <2>1, <2>2 DEF Reverse
  <2>4. \A k \in 1 .. m : (m - k) + 1 \in 1 .. m /\ at + ((m - k) + 1) = n - k + 1
    BY <1>1
  <2> QED BY <2>3, <2>4
<1> HIDE DEF pushed, positions
<1>4. PICK h : /\ h[0] = pushed
               /\ \A k \in 1 .. m : h[k] = Overwritten(h[k - 1], positions[k], -1)
               /\ shifted = h[m]
  BY SMTT(60), <1>1, <1>3, ShiftedIs
<1> HIDE DEF shifted
<1> DEFINE OK(l, k) == /\ DOMAIN l = 1 .. n + 1
                       /\ \A x \in 1 .. n + 1 : l[x] = IF x > n + 1 - k THEN list[x - 1] ELSE pushed[x]
           T == {k \in 0 .. m : OK(h[k], k)}
<1>5. 0 \in T
  BY <1>1, <1>2, <1>4
<1>6. ASSUME NEW k \in 0 .. m - 1, k \in T PROVE k + 1 \in T
  <2>1. k \in Nat /\ k + 1 \in 1 .. m /\ (k + 1) - 1 = k /\ n - k \in 1 .. n
    BY <1>1
  <2>2. positions[k + 1] = n - k
    BY <1>1, <1>3, <2>1
  <2>3. h[k + 1] = Overwritten(h[k], n - k, -1)
    BY <1>4, <2>1, <2>2
  <2> DEFINE l == h[k]
             r == h[k + 1]
  <2>4. OK(l, k)
    BY <1>6
  <2>5. n - k + 1 + (-1) = n - k /\ n - k \in 1 .. n + 1 /\ ~(n - k > n + 1 - k)
    BY <1>1, <2>1
  <2>6. l[n - k] = list[n - k]
    BY <1>2, <2>1, <2>4, <2>5
  <2>7. r = [l EXCEPT ![n - k + 1] = list[n - k]]
    BY <2>3, <2>5, <2>6 DEF Overwritten
  <2> HIDE DEF l, r
  <2>8. OK(r, k + 1)
    <3>1. DOMAIN r = 1 .. n + 1
      BY <2>4, <2>7
    <3>2. ASSUME NEW x \in 1 .. n + 1
          PROVE  r[x] = IF x > n + 1 - (k + 1) THEN list[x - 1] ELSE pushed[x]
      <4>1. CASE x = n - k + 1
        <5>1. x > n + 1 - (k + 1) /\ x - 1 = n - k
          BY <1>1, <2>1, <4>1
        <5>2. r[x] = list[n - k]
          BY <2>4, <2>7, <4>1
        <5> QED BY <5>1, <5>2
      <4>2. CASE x # n - k + 1
        <5>1. x > n + 1 - (k + 1) <=> x > n + 1 - k
          BY <1>1, <2>1, <4>2
        <5>2. r[x] = l[x]
          BY <2>4, <2>7, <4>2
        <5> QED BY <2>4, <5>1, <5>2
      <4> QED BY <4>1, <4>2
    <3> QED BY <3>1, <3>2
  <2> QED BY <2>1, <2>8 DEF r
<1>7. m \in T
  <2>1. T \in SUBSET (0 .. m)
    OBVIOUS
  <2> HIDE DEF T, m
  <2>2. m \in Nat
    BY <1>1
  <2> QED BY ONLY <2>2, <1>5, <1>6, <2>1, UpTo
<1>8. /\ DOMAIN shifted = 1 .. n + 1
      /\ \A x \in 1 .. n + 1 : shifted[x] = IF x > at + 1 THEN list[x - 1] ELSE pushed[x]
  <2>1. n + 1 - m = at + 1
    BY <1>1
  <2> QED BY <1>4, <1>7, <2>1
<1> HIDE DEF T, OK
<1>9. /\ DOMAIN now = 1 .. n + 1
      /\ \A x \in 1 .. n + 1 : now[x] = IF x = at + 1 THEN c ELSE IF x > at + 1 THEN list[x - 1] ELSE list[x]
  BY <1>1, <1>2, <1>8
<1>10. /\ then \in Seq(S)
       /\ Len(then) = n + 1
       /\ \A x \in 1 .. n + 1 : then[x] = IF x = at + 1 THEN c ELSE IF x > at + 1 THEN list[x - 1] ELSE list[x]
  <2> DEFINE before == SubSeq(list, 1, (at + 1) - 1)
             middle == before \o <<c>>
             after == SubSeq(list, at + 1, n)
  <2>1. then = middle \o after
    BY DEF InsertAt
  <2>2. before \in Seq(S) /\ Len(before) = at /\ \A x \in 1 .. at : before[x] = list[x]
    <3>1. (at + 1) - 1 = at /\ at <= n
      OBVIOUS
    <3> QED BY <3>1
  <2>3. after \in Seq(S) /\ Len(after) = m /\ \A x \in 1 .. m : after[x] = list[at + x]
    BY <1>1
  <2> HIDE DEF before, after, m, n, then
  <2>4. middle \in Seq(S) /\ Len(middle) = at + 1 /\ middle[at + 1] = c /\ \A x \in 1 .. at : middle[x] = list[x]
    BY <2>2
  <2> HIDE DEF middle
  <2>5. then \in Seq(S) /\ Len(then) = at + 1 + m
    <3>1. middle \o after \in Seq(S) /\ Len(middle \o after) = Len(middle) + Len(after)
      BY ONLY <2>3, <2>4, ConcatenationIs
    <3> QED BY ONLY <2>1, <2>3, <2>4, <3>1
  <2>6. at + 1 + m = n + 1
    BY <1>1 DEF m, n
  <2>7. ASSUME NEW x \in 1 .. at + 1 PROVE then[x] = IF x = at + 1 THEN c ELSE list[x]
    <3>1. x \in 1 .. Len(middle)
      BY <2>4
    <3>2. (middle \o after)[x] = middle[x]
      BY ONLY <3>1, <2>3, <2>4, ConcatenationIs
    <3>3. x = at + 1 \/ x \in 1 .. at
      BY <1>1
    <3> QED BY ONLY <2>1, <2>4, <3>2, <3>3
  <2>8. ASSUME NEW x \in at + 2 .. n + 1 PROVE then[x] = list[x - 1]
    <3>1. x - (at + 1) \in 1 .. m /\ at + (x - (at + 1)) = x - 1 /\ x \in at + 2 .. at + 1 + m
      BY <1>1, <2>6
    <3>2. x \in Len(middle) + 1 .. Len(middle) + Len(after) /\ x - Len(middle) = x - (at + 1)
      BY <2>3, <2>4, <3>1
    <3>3. (middle \o after)[x] = after[x - Len(middle)]
      BY ONLY <2>3, <2>4, <3>2, ConcatenationIs
    <3>4. then[x] = after[x - (at + 1)]
      BY ONLY <2>1, <3>2, <3>3
    <3> QED BY <2>3, <3>1, <3>4
  <2>9. ASSUME NEW x \in 1 .. n + 1
        PROVE  then[x] = IF x = at + 1 THEN c ELSE IF x > at + 1 THEN list[x - 1] ELSE list[x]
    <3>1. x \in 1 .. at + 1 \/ x \in at + 2 .. n + 1
      BY <1>1
    <3> QED BY <2>7, <2>8, <3>1
  <2> QED BY <2>5, <2>6, <2>9
<1>11. now = Inserted(list, c, at)
  BY DEF Inserted, pushed, positions, shifted
<1>12. now = then
  <2>1. now = [x \in 1 .. n + 1 |-> now[x]]
    BY <1>9
  <2>2. then = [x \in 1 .. n + 1 |-> then[x]]
    BY <1>10
  <2> HIDE DEF now, then
  <2> QED BY <1>9, <1>10, <2>1, <2>2
<1> HIDE DEF now, then
<1> QED BY <1>1, <1>10, <1>11, <1>12 DEF then

\* Removing shifts them from the first to the last.
LEMMA RemovedIs ==
    ASSUME NEW S, NEW list \in Seq(S), NEW at \in Nat, at < Len(list)
    PROVE  /\ Removed(list, at) = RemoveAt(list, at + 1)
           /\ at + 1 \in DOMAIN list
           /\ Len(Removed(list, at)) = Len(list) - 1
           /\ Removed(list, at) \in Seq(S)
<1> DEFINE n == Len(list)
           m == n - 1 - at
           positions == Ascending(at, n - 2)
           shifted == Shifted(list, positions, 1)
           now == SubSeq(shifted, 1, n - 1)
           then == RemoveAt(list, at + 1)
<1>1. n \in Nat /\ m \in Nat /\ n >= 1 /\ at + 1 \in 1 .. n /\ m <= n - 1
  OBVIOUS
<1>2. DOMAIN list = 1 .. n /\ list \in [1 .. n -> S]
  OBVIOUS
<1>3. DOMAIN positions = 1 .. m /\ \A k \in 1 .. m : positions[k] = at + k - 1
  <2>1. (n - 2) - at + 1 = m
    BY <1>1
  <2> QED BY <2>1 DEF Ascending
<1> HIDE DEF positions
<1>4. PICK h : /\ h[0] = list
               /\ \A k \in 1 .. m : h[k] = Overwritten(h[k - 1], positions[k], 1)
               /\ shifted = h[m]
  <2>1. DOMAIN positions = 1 .. m /\ m \in Nat
    BY <1>1, <1>3
  <2> HIDE DEF m
  <2>2. \E h : /\ h[0] = list
               /\ \A k \in 1 .. m : h[k] = Overwritten(h[k - 1], positions[k], 1)
               /\ Shifted(list, positions, 1) = h[m]
    BY ONLY <2>1, ShiftedIs
  <2> QED BY <2>2
<1> HIDE DEF shifted
<1> DEFINE OK(l, k) == /\ DOMAIN l = 1 .. n
                       /\ \A x \in 1 .. n : l[x] = IF x > at /\ x <= at + k THEN list[x + 1] ELSE list[x]
           T == {k \in 0 .. m : OK(h[k], k)}
<1>5. 0 \in T
  <2>1. \A x \in 1 .. n : ~(x > at /\ x <= at + 0)
    BY <1>1
  <2> QED BY <1>1, <1>2, <1>4, <2>1
<1>6. ASSUME NEW k \in 0 .. m - 1, k \in T PROVE k + 1 \in T
  <2>1. k \in Nat /\ k + 1 \in 1 .. m /\ (k + 1) - 1 = k
    BY <1>1
  <2>2. positions[k + 1] = at + k
    BY <1>1, <1>3, <2>1
  <2>3. h[k + 1] = Overwritten(h[k], at + k, 1)
    BY <1>4, <2>1, <2>2
  <2> DEFINE l == h[k]
             r == h[k + 1]
  <2>4. OK(l, k)
    BY <1>6
  <2>5. at + k + 1 + 1 = at + k + 2 /\ at + k + 2 \in 1 .. n /\ ~(at + k + 2 <= at + k)
    BY <1>1, <2>1
  <2>6. l[at + k + 2] = list[at + k + 2]
    BY <2>4, <2>5
  <2>7. r = [l EXCEPT ![at + k + 1] = list[at + k + 2]]
    BY <2>3, <2>5, <2>6 DEF Overwritten
  <2> HIDE DEF l, r
  <2>8. OK(r, k + 1)
    BY <1>1, <2>1, <2>4, <2>7
  <2> QED BY <2>1, <2>8 DEF r
<1>7. m \in T
  <2>1. T \in SUBSET (0 .. m)
    OBVIOUS
  <2> HIDE DEF T
  <2> QED BY <1>1, <1>5, <1>6, <2>1, UpTo
<1>8. /\ DOMAIN shifted = 1 .. n
      /\ \A x \in 1 .. n : shifted[x] = IF x > at /\ x <= n - 1 THEN list[x + 1] ELSE list[x]
  <2>1. at + m = n - 1
    BY <1>1
  <2> QED BY <1>4, <1>7, <2>1
<1> HIDE DEF T, OK
<1>9. shifted \in Seq(S) /\ Len(shifted) = n
  <2>1. \A x \in 1 .. n : shifted[x] \in S
    <3>1. \A x \in 1 .. n : x <= n - 1 => x + 1 \in 1 .. n
      BY <1>1
    <3> QED BY <1>2, <1>8, <3>1
  <2>2. shifted = [x \in 1 .. n |-> shifted[x]]
    <3>1. shifted = Shifted(list, positions, 1)
      BY DEF shifted
    <3>2. h[m] = [x \in 1 .. n |-> h[m][x]]
      <4>1. CASE m = 0
        BY <1>2, <1>4, <4>1
      <4>2. CASE m # 0
        <5>1. m \in 1 .. m
          BY <1>1, <4>2
        <5>2. h[m] = Overwritten(h[m - 1], positions[m], 1)
          BY <1>4, <5>1
        <5> QED BY <1>4, <1>8, <5>2 DEF Overwritten
      <4> QED BY <4>1, <4>2
    <3> QED BY <1>4, <3>2
  <2> QED BY <1>1, <2>1, <2>2
<1>10. /\ now \in Seq(S)
       /\ Len(now) = n - 1
       /\ \A x \in 1 .. n - 1 : now[x] = IF x > at THEN list[x + 1] ELSE list[x]
  <2>1. n - 1 \in Nat /\ n - 1 <= n /\ \A x \in 1 .. n - 1 : x \in 1 .. n
    BY <1>1
  <2>2. now \in Seq(S) /\ Len(now) = n - 1 /\ \A x \in 1 .. n - 1 : now[x] = shifted[x]
    BY <1>1, <1>9, <2>1
  <2> QED BY <1>8, <2>1, <2>2
<1>11. /\ then \in Seq(S)
       /\ Len(then) = n - 1
       /\ \A x \in 1 .. n - 1 : then[x] = IF x > at THEN list[x + 1] ELSE list[x]
  <2> DEFINE before == SubSeq(list, 1, (at + 1) - 1)
             after == SubSeq(list, (at + 1) + 1, n)
  <2>1. then = before \o after
    BY DEF RemoveAt
  <2>2. before \in Seq(S) /\ Len(before) = at /\ \A x \in 1 .. at : before[x] = list[x]
    <3>1. (at + 1) - 1 = at /\ at <= n
      OBVIOUS
    <3> QED BY <3>1
  <2>3. after \in Seq(S) /\ Len(after) = m /\ \A x \in 1 .. m : after[x] = list[at + x + 1]
    BY <1>1
  <2> HIDE DEF before, after, then
  <2>4. then \in Seq(S) /\ Len(then) = at + m
    BY <2>1, <2>2, <2>3
  <2>5. at + m = n - 1
    BY <1>1
  <2> HIDE DEF m, n
  <2>6. ASSUME NEW x \in 1 .. at PROVE then[x] = list[x]
    BY <1>1, <2>1, <2>2, <2>3
  <2>7. ASSUME NEW x \in at + 1 .. n - 1 PROVE then[x] = list[x + 1]
    <3>1. x - at \in 1 .. m /\ at + (x - at) + 1 = x + 1 /\ x \in at + 1 .. at + m
      BY <1>1, <2>5
    <3>2. x \in Len(before) + 1 .. Len(before) + Len(after) /\ x - Len(before) = x - at
      BY <2>2, <2>3, <3>1
    <3>3. (before \o after)[x] = after[x - Len(before)]
      BY ONLY <2>2, <2>3, <3>2, ConcatenationIs
    <3>4. then[x] = after[x - at]
      BY ONLY <2>1, <3>2, <3>3
    <3> QED BY <2>3, <3>1, <3>4
  <2>8. ASSUME NEW x \in 1 .. n - 1 PROVE then[x] = IF x > at THEN list[x + 1] ELSE list[x]
    <3>1. x \in 1 .. at \/ x \in at + 1 .. n - 1
      BY <1>1
    <3> QED BY <1>1, <2>6, <2>7, <3>1
  <2> QED BY <2>4, <2>5, <2>8
<1>12. now = Removed(list, at)
  BY <1>9 DEF Removed, Front, shifted, positions
<1>13. now = then
  <2> HIDE DEF now, then
  <2>1. now = [x \in 1 .. n - 1 |-> now[x]]
    BY <1>10
  <2>2. then = [x \in 1 .. n - 1 |-> then[x]]
    BY <1>11
  <2> QED BY <1>10, <1>11, <2>1, <2>2
<1> HIDE DEF now, then
<1> QED BY <1>1, <1>11, <1>12, <1>13 DEF then

LEMMA CallbacksInit == Init => callbacks \in Seq(Callbacks)
  BY DEF Init

\* A step leaves the list alone, or one callback more or one less is in it.
LEMMA CallbacksStep ==
    ASSUME callbacks \in Seq(Callbacks), [Next]_vars
    PROVE  /\ callbacks' \in Seq(Callbacks)
           /\ Len(callbacks') > Len(callbacks) =>
                \E i \in DOMAIN callbacks', c \in Callbacks : callbacks' = InsertAt(callbacks, i, c)
           /\ Len(callbacks') < Len(callbacks) =>
                \E i \in DOMAIN callbacks : callbacks' = RemoveAt(callbacks, i)
           /\ Len(callbacks') = Len(callbacks) => callbacks' = callbacks
<1>1. CASE UNCHANGED callbacks
  BY <1>1
<1>2. CASE \E c \in Callbacks, i \in 0 .. MAX_CALLBACKS_COUNT : InsertCallback(c, i)
  <2>1. PICK c \in Callbacks, i \in 0 .. MAX_CALLBACKS_COUNT : InsertCallback(c, i)
    BY <1>2
  <2>2. i \in Nat /\ i <= Len(callbacks) /\ callbacks' = Inserted(callbacks, c, i)
    BY <2>1 DEF InsertCallback, MayInsert
  <2>3. /\ callbacks' = InsertAt(callbacks, i + 1, c)
        /\ i + 1 \in DOMAIN callbacks'
        /\ Len(callbacks') = Len(callbacks) + 1
        /\ callbacks' \in Seq(Callbacks)
    BY <2>2, InsertedIs
  <2>4. Len(callbacks) \in Nat
    OBVIOUS
  <2> QED BY <2>3, <2>4
<1>3. CASE \E i \in 0 .. MAX_CALLBACKS_COUNT : RemoveCallback(i)
  <2>1. PICK i \in 0 .. MAX_CALLBACKS_COUNT : RemoveCallback(i)
    BY <1>3
  <2>2. i \in Nat /\ i < Len(callbacks) /\ callbacks' = Removed(callbacks, i)
    BY <2>1 DEF RemoveCallback, MayRemove
  <2>3. /\ callbacks' = RemoveAt(callbacks, i + 1)
        /\ i + 1 \in DOMAIN callbacks
        /\ Len(callbacks') = Len(callbacks) - 1
        /\ callbacks' \in Seq(Callbacks)
    BY <2>2, RemovedIs
  <2>4. Len(callbacks) \in Nat
    OBVIOUS
  <2> QED BY <2>3, <2>4
<1> QED
  BY <1>1, <1>2, <1>3
     DEF Next, vars, HolderStep, StakeAndWrap, BurnerStep, ReceiverStep, SetBeaconReportReceiver,
         Report, CallBurner, CallOther, ReportReverts

\* The list after a change is the one before, in its order, with one callback
\* more or one less: the shifts in place of _insertCallback and removeCallback
\* neither lose nor repeat an entry, for a list of any length.
THEOREM ReceiversCallbacksKeepOrder == Spec => CallbacksKeepOrder
<1>1. callbacks \in Seq(Callbacks) /\ [Next]_vars => (callbacks \in Seq(Callbacks))'
  BY CallbacksStep
<1>2. callbacks \in Seq(Callbacks) /\ [Next]_vars =>
        [/\ Len(callbacks') > Len(callbacks) =>
              \E i \in DOMAIN callbacks', c \in Callbacks : callbacks' = InsertAt(callbacks, i, c)
         /\ Len(callbacks') < Len(callbacks) =>
              \E i \in DOMAIN callbacks : callbacks' = RemoveAt(callbacks, i)
         /\ Len(callbacks') = Len(callbacks) => callbacks' = callbacks]_vars
  BY CallbacksStep
<1> QED BY CallbacksInit, <1>1, <1>2, PTL DEF Spec, CallbacksKeepOrder

=============================================================================
