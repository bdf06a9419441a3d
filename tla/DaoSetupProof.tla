---------------------------- MODULE DaoSetupProof ----------------------------
(***************************************************************************)
(* Proofs about the setup of a DAO, whatever scripts are run again,        *)
(* however long votes wait, and in whichever order they are enacted.       *)
(*                                                                         *)
(* A vote is a sequence of calls, and executing it is a fold that reverts  *)
(* at the first call that does (ExecuteIs); the scripts save five kinds of *)
(* votes, and what each makes of the DAO is a lemma (PublicationIs to      *)
(* DepositsIs). The invariant, SetupInv, is about the votes that wait as   *)
(* much as about the DAO: a waiting vote for a base that is behind the     *)
(* repository has a version that was taken (NotBehind), so that enacting   *)
(* it reverts; a composite receiver and a burner that some vote pairs are  *)
(* those of the file, of now or of before, and a newer receiver is never   *)
(* paired with an older burner (CoverageInv).  The second is what          *)
(* 12-check-dao.js relies on without looking: it finds that the burner of  *)
(* the file has the permission to burn, and concludes that the receiver of *)
(* the file calls it.                                                      *)
(***************************************************************************)
EXTENDS DaoSetupProperties, SharedLemmas, SequenceTheorems

-----------------------------------------------------------------------------
(* What a vote does, call by call *)

\* The DAOs that the calls make on their way, for the calls with these indexes.
StepUnless(d, call) == IF d = Reverted THEN d ELSE Step(d, call)

IsExecution(f, dao, calls, S) ==
    f = [s \in SUBSET S |-> IF s = {} THEN dao ELSE StepUnless(f[s \ {Max(s)}], calls[Max(s)])]

\* The greatest index.
LEMMA MaxOfRange ==
    ASSUME NEW n \in Nat, NEW s \in SUBSET (1 .. n + 1)
    PROVE  /\ n + 1 \in s => Max(s) = n + 1
           /\ n + 1 \notin s => s \in SUBSET (1 .. n)
<1>1. ASSUME n + 1 \in s PROVE Max(s) = n + 1
  <2>1. \A y \in s : n + 1 >= y
    OBVIOUS
  <2>2. \A x \in s : (\A y \in s : x >= y) => x = n + 1
    BY <1>1, <2>1
  <2> QED BY <1>1, <2>1, <2>2 DEF Max
<1>2. ASSUME n + 1 \notin s PROVE s \in SUBSET (1 .. n)
  BY <1>2
<1> QED BY <1>1, <1>2

\* The recursive function is there, for any number of calls.
LEMMA ExecutionExists ==
    ASSUME NEW dao, NEW calls, NEW n \in Nat
    PROVE  \E f : IsExecution(f, dao, calls, 1 .. n)
<1> DEFINE T == {m \in 0 .. n : \E f : IsExecution(f, dao, calls, 1 .. m)}
<1>1. 0 \in T
  <2> DEFINE f == [s \in SUBSET (1 .. 0) |-> dao]
  <2>1. \A s \in SUBSET (1 .. 0) : s = {}
    OBVIOUS
  <2>2. IsExecution(f, dao, calls, 1 .. 0)
    BY <2>1 DEF IsExecution
  <2> QED BY <2>2
<1>2. ASSUME NEW m \in 0 .. n - 1, m \in T PROVE m + 1 \in T
  <2>1. PICK f : IsExecution(f, dao, calls, 1 .. m)
    BY <1>2
  <2> DEFINE g == [s \in SUBSET (1 .. m + 1) |->
                     IF m + 1 \in s THEN StepUnless(f[s \ {m + 1}], calls[m + 1]) ELSE f[s]]
             next(h, s) == IF s = {} THEN dao ELSE StepUnless(h[s \ {Max(s)}], calls[Max(s)])
  <2>2. \A s \in SUBSET (1 .. m) : f[s] = next(f, s)
    BY <2>1 DEF IsExecution
  <2>3. ASSUME NEW s \in SUBSET (1 .. m + 1) PROVE g[s] = next(g, s)
    <3>1. CASE m + 1 \in s
      <4>1. Max(s) = m + 1
        BY <3>1, MaxOfRange
      <4>2. s \ {m + 1} \in SUBSET (1 .. m + 1) /\ m + 1 \notin s \ {m + 1}
        OBVIOUS
      <4>3. g[s \ {m + 1}] = f[s \ {m + 1}]
        BY <4>2
      <4>4. g[s] = StepUnless(f[s \ {m + 1}], calls[m + 1])
        BY <3>1
      <4> HIDE DEF g
      <4> QED BY <3>1, <4>1, <4>3, <4>4
    <3>2. CASE m + 1 \notin s
      <4>1. s \in SUBSET (1 .. m)
        BY <3>2, MaxOfRange
      <4>2. s \ {Max(s)} \in SUBSET (1 .. m)
        BY <4>1
      <4>3. g[s] = f[s] /\ g[s \ {Max(s)}] = f[s \ {Max(s)}]
        BY <3>2, <4>1, <4>2
      <4> HIDE DEF g
      <4> QED BY <2>2, <4>1, <4>3
    <3> QED BY <3>1, <3>2
  <2>4. g = [s \in SUBSET (1 .. m + 1) |-> g[s]]
    OBVIOUS
  <2> HIDE DEF g
  <2>5. g = [s \in SUBSET (1 .. m + 1) |-> next(g, s)]
    BY <2>3, <2>4
  <2>6. IsExecution(g, dao, calls, 1 .. m + 1)
    BY <2>5 DEF IsExecution
  <2>7. m + 1 \in 0 .. n
    OBVIOUS
  <2> QED BY <2>6, <2>7
<1> HIDE DEF T
<1>3. T \in SUBSET (0 .. n)
  BY DEF T
<1>4. n \in T
  BY <1>1, <1>2, <1>3, UpTo
<1> QED BY <1>4 DEF T

\* A vote that does not revert makes its calls one after another, and none of
\* them reverts.
LEMMA ExecuteIs ==
    ASSUME NEW dao, NEW calls, NEW n \in Nat, DOMAIN calls = 1 .. n, Execute(dao, calls) # Reverted
    PROVE  \E h : /\ h[0] = dao
                  /\ \A k \in 1 .. n : h[k] = Step(h[k - 1], calls[k])
                  /\ \A k \in 0 .. n : h[k] # Reverted
                  /\ Execute(dao, calls) = h[n]
<1> DEFINE f == CHOOSE f : IsExecution(f, dao, calls, 1 .. n)
           h == [k \in 0 .. n |-> f[1 .. k]]
<1>1. IsExecution(f, dao, calls, 1 .. n)
  <2>1. \E g : IsExecution(g, dao, calls, 1 .. n)
    BY ExecutionExists
  <2> QED BY <2>1
<1>2. Execute(dao, calls) = f[1 .. n]
  BY DEF Execute, FoldLeft, MapThenFoldSet, IsExecution, StepUnless
<1> HIDE DEF f
<1>3. h[0] = dao
  <2>1. 1 .. 0 = {} /\ {} \in SUBSET (1 .. n)
    OBVIOUS
  <2> QED BY <1>1, <2>1 DEF IsExecution
<1>4. ASSUME NEW k \in 1 .. n PROVE h[k] = StepUnless(h[k - 1], calls[k])
  <2>1. 1 .. k \in SUBSET (1 .. n) /\ 1 .. k # {} /\ (1 .. k) \ {k} = 1 .. k - 1
    OBVIOUS
  <2>2. Max(1 .. k) = k
    <3>1. PICK m \in Nat : m + 1 = k
      <4>1. k - 1 \in Nat /\ (k - 1) + 1 = k
        OBVIOUS
      <4> QED BY <4>1
    <3>2. 1 .. k \in SUBSET (1 .. m + 1) /\ m + 1 \in 1 .. k
      BY <3>1
    <3>3. Max(1 .. k) = m + 1
      BY ONLY <3>1, <3>2, MaxOfRange
    <3> QED BY <3>1, <3>3
  <2>3. f[1 .. k] = StepUnless(f[1 .. k - 1], calls[k])
    BY <1>1, <2>1, <2>2 DEF IsExecution
  <2> QED BY <2>3
<1>5. h[n] = f[1 .. n]
  OBVIOUS
<1> HIDE DEF h
<1> DEFINE T == {k \in 0 .. n : h[n - k] # Reverted}
<1>6. 0 \in T
  BY <1>2, <1>5
<1>7. ASSUME NEW k \in 0 .. n - 1, k \in T PROVE k + 1 \in T
  <2>1. n - k \in 1 .. n /\ n - (k + 1) = (n - k) - 1
    OBVIOUS
  <2>2. h[n - k] = StepUnless(h[(n - k) - 1], calls[n - k])
    BY <1>4, <2>1
  <2>3. h[(n - k) - 1] # Reverted
    BY <1>7, <2>2 DEF StepUnless
  <2> QED BY <2>1, <2>3
<1>8. T = 0 .. n
  <2> HIDE DEF T
  <2>1. T \in SUBSET (0 .. n)
    BY DEF T
  <2> QED BY <1>6, <1>7, <2>1, UpTo
<1>9. ASSUME NEW k \in 0 .. n PROVE h[k] # Reverted
  <2>1. n - k \in 0 .. n /\ n - (n - k) = k
    OBVIOUS
  <2> QED BY <1>8, <2>1
<1>10. ASSUME NEW k \in 1 .. n PROVE h[k] = Step(h[k - 1], calls[k])
  BY <1>4, <1>9 DEF StepUnless
<1> QED BY <1>2, <1>3, <1>5, <1>9, <1>10
-----------------------------------------------------------------------------
(* What each call and each vote makes of a DAO *)

TheDao(latest, callbacks, receiver, vault, stopped, limit, acl, apps) ==
    [latest |-> latest, callbacks |-> callbacks, receiver |-> receiver, vault |-> vault,
     stopped |-> stopped, limit |-> limit, acl |-> acl, apps |-> apps]

Publication(latest, a, version, base) == [latest EXCEPT ![a] = [version |-> version, base |-> base]]

\* A repository takes the next version, or reverts.
LEMMA StepNewVersion ==
    ASSUME NEW l, NEW c, NEW r, NEW v, NEW s, NEW m, NEW acl, NEW apps, NEW a, NEW version, NEW base,
           Step(TheDao(l, c, r, v, s, m, acl, apps), NewVersion(a, version, base)) # Reverted
    PROVE  /\ ValidVersion(l[a], version, base)
           /\ Step(TheDao(l, c, r, v, s, m, acl, apps), NewVersion(a, version, base))
                = TheDao(Publication(l, a, version, base), c, r, v, s, m, acl, apps)
BY DEF Step, TheDao, NewVersion, Publication

\* The kernel installs the base it is given.
LEMMA StepSetApp ==
    ASSUME NEW l, NEW c, NEW r, NEW v, NEW s, NEW m, NEW acl, NEW apps, NEW a, NEW base
    PROVE  Step(TheDao(l, c, r, v, s, m, acl, apps), SetApp(a, base))
             = TheDao(l, c, r, v, s, m, acl, [apps EXCEPT ![a] = base])
BY DEF Step, TheDao, SetApp

\* A permission is created once.
LEMMA StepCreate ==
    ASSUME NEW l, NEW c, NEW r, NEW v, NEW s, NEW m, NEW acl, NEW apps, NEW ps, NEW x,
           Step(TheDao(l, c, r, v, s, m, acl, apps), WithRole("createPermission", ps, x)) # Reverted
    PROVE  /\ CanCreate(acl, ps)
           /\ Step(TheDao(l, c, r, v, s, m, acl, apps), WithRole("createPermission", ps, x))
                = TheDao(l, c, r, v, s, m, Create(acl, ps, Entity(x), "voting"), apps)
BY DEF Step, TheDao, WithRole

\* A permission is granted to one more.
LEMMA StepGrant ==
    ASSUME NEW l, NEW c, NEW r, NEW v, NEW s, NEW m, NEW acl, NEW apps, NEW ps, NEW x
    PROVE  Step(TheDao(l, c, r, v, s, m, acl, apps), WithRole("grantPermission", ps, x))
             = TheDao(l, c, r, v, s, m, Grant(acl, ps, Entity(x)), apps)
BY DEF Step, TheDao, WithRole

\* Voting loses a permission.
LEMMA StepRevoke ==
    ASSUME NEW l, NEW c, NEW r, NEW v, NEW s, NEW m, NEW acl, NEW apps, NEW ps
    PROVE  Step(TheDao(l, c, r, v, s, m, acl, apps), [do |-> "revokePermission", role |-> ps])
             = TheDao(l, c, r, v, s, m, Revoke(acl, ps, "voting"), apps)
BY DEF Step, TheDao

\* The staking limit of the node operator is set.
LEMMA StepLimit ==
    ASSUME NEW l, NEW c, NEW r, NEW v, NEW s, NEW m, NEW acl, NEW apps, NEW x
    PROVE  Step(TheDao(l, c, r, v, s, m, acl, apps), [do |-> "setStakingLimit", limit |-> x])
             = TheDao(l, c, r, v, s, x, acl, apps)
BY DEF Step, TheDao

\* A composite receiver calls one more callback, after the others.
LEMMA StepCallback ==
    ASSUME NEW l, NEW c, NEW r, NEW v, NEW s, NEW m, NEW acl, NEW apps, NEW x, NEW y
    PROVE  Step(TheDao(l, c, r, v, s, m, acl, apps), [do |-> "addCallback", to |-> x, callback |-> y])
             = TheDao(l, [c EXCEPT ![x] = Append(c[x], y)], r, v, s, m, acl, apps)
BY DEF Step, TheDao

\* The oracle has another receiver, Lido another vault.
LEMMA StepTo ==
    ASSUME NEW l, NEW c, NEW r, NEW v, NEW s, NEW m, NEW acl, NEW apps, NEW x
    PROVE  /\ Step(TheDao(l, c, r, v, s, m, acl, apps), To("setReceiver", x))
                = TheDao(l, c, x, v, s, m, acl, apps)
           /\ Step(TheDao(l, c, r, v, s, m, acl, apps), To("setVault", x))
                = TheDao(l, c, r, x, s, m, acl, apps)
BY DEF Step, TheDao, To

Operators == "node-operators-registry"

PublicationVote(a, version, base) == <<NewVersion(a, version, base)>>
UpgradeCalls(version1, base1, version2, base2, depositor) ==
    <<NewVersion("lido", version1, base1), SetApp("lido", base1),
      NewVersion(Operators, version2, base2), SetApp(Operators, base2),
      WithRole("createPermission", DepositRole, depositor)>>
LimitCall(x) == [do |-> "setStakingLimit", limit |-> x]
Limits == {<<>>} \cup {<<LimitCall(x)>> : x \in Nat}
DepositsVote(version1, base1, version2, base2, depositor, limits) ==
    UpgradeCalls(version1, base1, version2, base2, depositor) \o limits
CoverageVote(composite, burner) ==
    <<[do |-> "addCallback", to |-> composite, callback |-> burner],
      To("setReceiver", composite),
      [do |-> "revokePermission", role |-> BurnRole],
      WithRole("grantPermission", BurnRole, burner)>>
VaultVote(vault) == <<To("setVault", vault)>>
StartVote == <<[do |-> "resume"]>>

\* The vote of upgrade-app.
LEMMA PublicationIs ==
    ASSUME NEW l, NEW c, NEW r, NEW v, NEW s, NEW m, NEW acl, NEW apps, NEW a, NEW version, NEW base,
           Execute(TheDao(l, c, r, v, s, m, acl, apps), PublicationVote(a, version, base)) # Reverted
    PROVE  /\ ValidVersion(l[a], version, base)
           /\ Execute(TheDao(l, c, r, v, s, m, acl, apps), PublicationVote(a, version, base))
                = TheDao(Publication(l, a, version, base), c, r, v, s, m, acl, apps)
<1> DEFINE n == 1
           calls == PublicationVote(a, version, base)
<1>1. n \in Nat /\ n = 1 /\ DOMAIN calls = 1 .. n /\ calls[1] = NewVersion(a, version, base)
  BY DEF PublicationVote
<1>0. Execute(TheDao(l, c, r, v, s, m, acl, apps), calls) # Reverted
  OBVIOUS
<1> HIDE DEF calls, n
<1>2. PICK h : /\ h[0] = TheDao(l, c, r, v, s, m, acl, apps)
               /\ \A k \in 1 .. n : h[k] = Step(h[k - 1], calls[k])
               /\ \A k \in 0 .. n : h[k] # Reverted
               /\ Execute(TheDao(l, c, r, v, s, m, acl, apps), calls) = h[n]
  <2>1. n \in Nat /\ DOMAIN calls = 1 .. n
    BY <1>1
  <2> QED BY ONLY <1>0, <2>1, ExecuteIs
<1>3. h[1] = Step(h[0], calls[1]) /\ h[1] # Reverted
  BY <1>1, <1>2
<1> QED BY <1>1, <1>2, <1>3, StepNewVersion DEF calls

\* The vote of 28.
LEMMA VaultVoteIs ==
    ASSUME NEW l, NEW c, NEW r, NEW v, NEW s, NEW m, NEW acl, NEW apps, NEW vault,
           Execute(TheDao(l, c, r, v, s, m, acl, apps), VaultVote(vault)) # Reverted
    PROVE  Execute(TheDao(l, c, r, v, s, m, acl, apps), VaultVote(vault))
             = TheDao(l, c, r, vault, s, m, acl, apps)
<1> DEFINE n == 1
           calls == VaultVote(vault)
<1>1. n \in Nat /\ n = 1 /\ DOMAIN calls = 1 .. n /\ calls[1] = To("setVault", vault)
  BY DEF VaultVote
<1>0. Execute(TheDao(l, c, r, v, s, m, acl, apps), calls) # Reverted
  OBVIOUS
<1> HIDE DEF calls, n
<1>2. PICK h : /\ h[0] = TheDao(l, c, r, v, s, m, acl, apps)
               /\ \A k \in 1 .. n : h[k] = Step(h[k - 1], calls[k])
               /\ Execute(TheDao(l, c, r, v, s, m, acl, apps), calls) = h[n]
  <2>1. n \in Nat /\ DOMAIN calls = 1 .. n
    BY <1>1
  <2> QED BY ONLY <1>0, <2>1, ExecuteIs
<1>3. h[1] = Step(h[0], calls[1])
  BY <1>1, <1>2
<1> QED BY <1>1, <1>2, <1>3, StepTo DEF calls

\* The vote of 31.
LEMMA StartVoteIs ==
    ASSUME NEW l, NEW c, NEW r, NEW v, NEW s, NEW m, NEW acl, NEW apps,
           Execute(TheDao(l, c, r, v, s, m, acl, apps), StartVote) # Reverted
    PROVE  \E t : Execute(TheDao(l, c, r, v, s, m, acl, apps), StartVote) = TheDao(l, c, r, v, t, m, acl, apps)
<1> DEFINE n == 1
           calls == StartVote
<1>1. n \in Nat /\ n = 1 /\ DOMAIN calls = 1 .. n /\ calls[1] = [do |-> "resume"]
  BY DEF StartVote
<1>0. Execute(TheDao(l, c, r, v, s, m, acl, apps), calls) # Reverted
  OBVIOUS
<1> HIDE DEF calls, n
<1>2. PICK h : /\ h[0] = TheDao(l, c, r, v, s, m, acl, apps)
               /\ \A k \in 1 .. n : h[k] = Step(h[k - 1], calls[k])
               /\ \A k \in 0 .. n : h[k] # Reverted
               /\ Execute(TheDao(l, c, r, v, s, m, acl, apps), calls) = h[n]
  <2>1. n \in Nat /\ DOMAIN calls = 1 .. n
    BY <1>1
  <2> QED BY ONLY <1>0, <2>1, ExecuteIs
<1>3. h[1] = Step(h[0], calls[1]) /\ h[1] # Reverted
  BY <1>1, <1>2
<1>4. h[1] = Step(TheDao(l, c, r, v, s, m, acl, apps), [do |-> "resume"])
  BY <1>1, <1>2, <1>3
<1>5. h[1] = TheDao(l, c, r, v, FALSE, m, acl, apps)
  <2>1. Step(TheDao(l, c, r, v, s, m, acl, apps), [do |-> "resume"]) # Reverted
    BY <1>3, <1>4
  <2> QED BY ONLY <1>4, <2>1 DEF Step, TheDao
<1> QED BY <1>1, <1>2, <1>5 DEF calls

\* The vote of 25.
LEMMA CoverageIs ==
    ASSUME NEW l, NEW c, NEW r, NEW v, NEW s, NEW m, NEW acl, NEW apps, NEW x, NEW y,
           Execute(TheDao(l, c, r, v, s, m, acl, apps), CoverageVote(x, y)) # Reverted
    PROVE  Execute(TheDao(l, c, r, v, s, m, acl, apps), CoverageVote(x, y))
             = TheDao(l, [c EXCEPT ![x] = Append(c[x], y)], x, v, s, m,
                      Grant(Revoke(acl, BurnRole, "voting"), BurnRole, Entity(y)), apps)
<1> DEFINE n == 4
           calls == CoverageVote(x, y)
<1>1. /\ n \in Nat /\ n = 4 /\ DOMAIN calls = 1 .. n
      /\ calls[1] = [do |-> "addCallback", to |-> x, callback |-> y]
      /\ calls[2] = To("setReceiver", x)
      /\ calls[3] = [do |-> "revokePermission", role |-> BurnRole]
      /\ calls[4] = WithRole("grantPermission", BurnRole, y)
  BY DEF CoverageVote
<1>0. Execute(TheDao(l, c, r, v, s, m, acl, apps), calls) # Reverted
  OBVIOUS
<1> HIDE DEF calls, n
<1>2. PICK h : /\ h[0] = TheDao(l, c, r, v, s, m, acl, apps)
               /\ \A k \in 1 .. n : h[k] = Step(h[k - 1], calls[k])
               /\ Execute(TheDao(l, c, r, v, s, m, acl, apps), calls) = h[n]
  <2>1. n \in Nat /\ DOMAIN calls = 1 .. n
    BY <1>1
  <2> QED BY ONLY <1>0, <2>1, ExecuteIs
<1>3. /\ h[1] = Step(h[0], calls[1])
      /\ h[2] = Step(h[1], calls[2])
      /\ h[3] = Step(h[2], calls[3])
      /\ h[4] = Step(h[3], calls[4])
  BY <1>1, <1>2
<1> DEFINE c1 == [c EXCEPT ![x] = Append(c[x], y)]
           acl1 == Revoke(acl, BurnRole, "voting")
<1>4. h[1] = TheDao(l, c1, r, v, s, m, acl, apps)
  BY <1>1, <1>2, <1>3, StepCallback
<1> HIDE DEF c1
<1>5. h[2] = TheDao(l, c1, x, v, s, m, acl, apps)
  BY <1>1, <1>3, <1>4, StepTo
<1>6. h[3] = TheDao(l, c1, x, v, s, m, acl1, apps)
  BY <1>1, <1>3, <1>5, StepRevoke
<1> HIDE DEF acl1
<1>7. h[4] = TheDao(l, c1, x, v, s, m, Grant(acl1, BurnRole, Entity(y)), apps)
  BY <1>1, <1>3, <1>6, StepGrant
<1> QED BY <1>1, <1>2, <1>7 DEF c1, acl1, calls

\* `dao' is what the vote of 20 makes of the DAO with these parts.
Upgraded(l, c, r, v, s, acl, apps, version1, base1, version2, base2, d, dao) ==
    LET l1 == Publication(l, "lido", version1, base1)
        l2 == Publication(l1, Operators, version2, base2)
    IN  /\ ValidVersion(l["lido"], version1, base1)
        /\ ValidVersion(l1[Operators], version2, base2)
        /\ CanCreate(acl, DepositRole)
        /\ \E n : dao = TheDao(l2, c, r, v, s, n, Create(acl, DepositRole, Entity(d), "voting"),
                             [[apps EXCEPT !["lido"] = base1] EXCEPT ![Operators] = base2])

\* The vote of 20, whether it raises a limit or not.
LEMMA DepositsIs ==
    ASSUME NEW l, NEW c, NEW r, NEW v, NEW s, NEW m, NEW acl, NEW apps,
           NEW version1, NEW base1, NEW version2, NEW base2, NEW d, NEW limits \in Limits,
           Execute(TheDao(l, c, r, v, s, m, acl, apps),
                   DepositsVote(version1, base1, version2, base2, d, limits)) # Reverted
    PROVE  Upgraded(l, c, r, v, s, acl, apps, version1, base1, version2, base2, d,
                    Execute(TheDao(l, c, r, v, s, m, acl, apps),
                            DepositsVote(version1, base1, version2, base2, d, limits)))
<1> DEFINE calls == DepositsVote(version1, base1, version2, base2, d, limits)
           n == 5 + Len(limits)
           l1 == Publication(l, "lido", version1, base1)
           l2 == Publication(l1, Operators, version2, base2)
           apps1 == [apps EXCEPT !["lido"] = base1]
           apps2 == [apps1 EXCEPT ![Operators] = base2]
           acl1 == Create(acl, DepositRole, Entity(d), "voting")
<1>1. /\ n \in {5, 6} /\ DOMAIN calls = 1 .. n
      /\ calls[1] = NewVersion("lido", version1, base1)
      /\ calls[2] = SetApp("lido", base1)
      /\ calls[3] = NewVersion(Operators, version2, base2)
      /\ calls[4] = SetApp(Operators, base2)
      /\ calls[5] = WithRole("createPermission", DepositRole, d)
      /\ n = 6 => \E x : calls[6] = LimitCall(x)
  <2>1. CASE limits = <<>>
    BY <2>1 DEF DepositsVote, UpgradeCalls
  <2>2. CASE \E x : limits = <<LimitCall(x)>>
    BY <2>2 DEF DepositsVote, UpgradeCalls
  <2> QED BY <2>1, <2>2 DEF Limits
<1>0. Execute(TheDao(l, c, r, v, s, m, acl, apps), calls) # Reverted
  OBVIOUS
<1> HIDE DEF calls, n
<1>2. PICK h : /\ h[0] = TheDao(l, c, r, v, s, m, acl, apps)
               /\ \A k \in 1 .. n : h[k] = Step(h[k - 1], calls[k])
               /\ \A k \in 0 .. n : h[k] # Reverted
               /\ Execute(TheDao(l, c, r, v, s, m, acl, apps), calls) = h[n]
  <2>1. n \in Nat
    BY <1>1
  <2> QED BY <1>0, <1>1, <2>1, ExecuteIs
<1>3. /\ h[1] = Step(h[0], calls[1]) /\ h[1] # Reverted
      /\ h[2] = Step(h[1], calls[2])
      /\ h[3] = Step(h[2], calls[3]) /\ h[3] # Reverted
      /\ h[4] = Step(h[3], calls[4])
      /\ h[5] = Step(h[4], calls[5]) /\ h[5] # Reverted
      /\ n = 6 => h[6] = Step(h[5], calls[6])
  BY <1>1, <1>2
<1>4. /\ ValidVersion(l["lido"], version1, base1)
      /\ h[1] = TheDao(l1, c, r, v, s, m, acl, apps)
  BY <1>1, <1>2, <1>3, StepNewVersion
<1>5. h[2] = TheDao(l1, c, r, v, s, m, acl, apps1)
  BY <1>1, <1>3, <1>4, StepSetApp
<1> HIDE DEF apps1
<1>6. /\ ValidVersion(l1[Operators], version2, base2)
      /\ h[3] = TheDao(l2, c, r, v, s, m, acl, apps1)
  <2> HIDE DEF l1
  <2>1. h[3] = Step(TheDao(l1, c, r, v, s, m, acl, apps1), NewVersion(Operators, version2, base2))
    BY <1>1, <1>3, <1>5
  <2>2. Step(TheDao(l1, c, r, v, s, m, acl, apps1), NewVersion(Operators, version2, base2)) # Reverted
    BY <1>3, <2>1
  <2> QED BY ONLY <2>1, <2>2, StepNewVersion DEF l2
<1> HIDE DEF l2
<1>7. h[4] = TheDao(l2, c, r, v, s, m, acl, apps2)
  BY <1>1, <1>3, <1>6, StepSetApp
<1> HIDE DEF apps2
<1>8. CanCreate(acl, DepositRole) /\ h[5] = TheDao(l2, c, r, v, s, m, acl1, apps2)
  BY <1>1, <1>3, <1>7, StepCreate
<1> HIDE DEF acl1
<1>9. \E k : h[n] = TheDao(l2, c, r, v, s, k, acl1, apps2)
  <2>1. CASE n = 5
    BY <1>8, <2>1
  <2>2. CASE n = 6
    <3>1. PICK x : calls[6] = LimitCall(x)
      BY <1>1, <2>2
    <3>2. h[6] = TheDao(l2, c, r, v, s, x, acl1, apps2)
      BY <1>3, <1>8, <2>2, <3>1, StepLimit DEF LimitCall
    <3> QED BY <2>2, <3>2
  <2> QED BY <1>1, <2>1, <2>2
<1> QED BY <1>2, <1>4, <1>6, <1>8, <1>9 DEF l1, l2, apps1, apps2, acl1, calls, Upgraded

-----------------------------------------------------------------------------
(* The inductive invariant *)

Releases == [version : Nat \X Nat, base : Nat]
FirstDids ==
    LidoApps \cup {"LidoTemplate", "TmplAPMDeployed", "TmplReposCreated", "TmplDAOAndTokenDeployed",
                   "TmplTokensIssued", "TmplDaoFinalized"}
Transactions == [of : Nat, did : FirstDids \cup Companions]
Addresses == 1 .. MaxChain

ChainOK ==
    /\ chain \in Seq(Transactions)
    /\ Len(chain) <= MaxChain
    /\ \A i \in DOMAIN chain : HasCode(i, "depositor") => i \in DOMAIN depositors
    /\ \A i \in DOMAIN chain : HasCode(i, "composite") => i \in DOMAIN org.callbacks
    /\ DOMAIN org.callbacks \subseteq DOMAIN chain

OrgOK ==
    /\ org = [latest |-> org.latest, callbacks |-> org.callbacks, receiver |-> org.receiver,
              vault |-> org.vault, stopped |-> org.stopped, limit |-> org.limit]
    /\ org.latest \in [LidoApps -> Releases]
    /\ org.callbacks \in [DOMAIN org.callbacks -> Seq(Addresses)]
    /\ Dao \in DOMAIN daos
    /\ {"acl", "apps"} \subseteq DOMAIN daos[Dao]
    /\ daos[Dao].apps \in [LidoApps -> Nat]
    /\ keys \in Nat

FileOK ==
    /\ file \in [base : [LidoApps -> Nat], depositor : Nat, previousDepositor : Nat,
                 composite : Nat, burner : Nat, vault : Nat]
    /\ file.depositor \in DOMAIN depositors \cup {None}
    /\ file.composite \in DOMAIN org.callbacks \cup {None}
    /\ file.burner \in DOMAIN chain \cup {None}

\* A vote that is too late for an application: it is of a version that was taken,
\* or else of a base that is not older than the one that is published.
NotBehind(a, version, base) ==
    /\ base <= file.base[a]
    /\ version[1] <= org.latest[a].version[1] + 1
    /\ version[1] = org.latest[a].version[1] + 1 => org.latest[a].base <= base

\* The votes that the scripts save.
VoteOK(calls) ==
    \/ calls = Enacted
    \/ \E a \in LidoApps, version \in Nat \X Nat, base \in Nat :
          NotBehind(a, version, base) /\ calls = PublicationVote(a, version, base)
    \/ \E version1, version2 \in Nat \X Nat, base1, base2 \in Nat, d \in DOMAIN depositors, limits \in Limits :
          /\ NotBehind("lido", version1, base1)
          /\ NotBehind(Operators, version2, base2)
          /\ calls = DepositsVote(version1, base1, version2, base2, d, limits)
    \/ \E c \in DOMAIN org.callbacks, b \in Addresses : calls = CoverageVote(c, b)
    \/ \E x \in Nat : calls = VaultVote(x)
    \/ calls = StartVote

Votes ==
    {Enacted, StartVote}
        \cup {PublicationVote(a, version, base) : a \in LidoApps, version \in Nat \X Nat, base \in Nat}
        \cup {DepositsVote(version1, base1, version2, base2, d, limits) :
                version1 \in Nat \X Nat, base1 \in Nat, version2 \in Nat \X Nat, base2 \in Nat,
                d \in Nat, limits \in Limits}
        \cup {CoverageVote(c, b) : c \in Nat, b \in Nat}
        \cup {VaultVote(x) : x \in Nat}

VotesOK ==
    /\ votes \in Seq(Votes)
    /\ \A i \in DOMAIN votes : VoteOK(votes[i])

\* What is installed was published, and what was published is in the file.
PublishedInv ==
    \A a \in LidoApps : daos[Dao].apps[a] <= org.latest[a].base /\ org.latest[a].base <= file.base[a]

\* The permission to deposit has a manager once it was created.
DepositorInv ==
    \A p \in DepositRole :
        \/ Manager(daos[Dao].acl, p) = Nobody /\ Grantees(daos[Dao].acl, p) = {}
        \/ /\ Manager(daos[Dao].acl, p) = "voting"
           /\ \E d \in DOMAIN depositors : Grantees(daos[Dao].acl, p) = {Entity(d)}

Called(c, b) == c \in DOMAIN org.callbacks /\ \E i \in DOMAIN org.callbacks[c] : org.callbacks[c][i] = b
Planned(c, b) == \E i \in DOMAIN votes : votes[i] = CoverageVote(c, b)
Paired(c, b) == Called(c, b) \/ Planned(c, b)

\* The pairs of a composite receiver and a burner that votes are about, or were,
\* are those of the file, of now or of before; both only get newer.
CoverageInv ==
    /\ \A c, b \in Addresses : Paired(c, b) => c <= file.composite /\ b <= file.burner
    /\ \A c1, b1, c2, b2 \in Addresses : Paired(c1, b1) /\ Paired(c2, b2) /\ c1 < c2 => b1 <= b2
    /\ \/ /\ org.receiver = None
          /\ \A c, b \in Addresses : ~Called(c, b)
          /\ \A p \in BurnRole : Grantees(daos[Dao].acl, p) = {"voting"}
       \/ /\ \E b \in Addresses : Called(org.receiver, b)
          /\ \A p \in BurnRole : Grantees(daos[Dao].acl, p)
                                   = {Entity(b) : b \in {x \in Addresses : \E c \in Addresses : Called(c, x)}}

NoCoverage ==
    /\ \A c \in DOMAIN org.callbacks : org.callbacks[c] = <<>>
    /\ org.receiver = None
    /\ \A p \in BurnRole : Grantees(daos[Dao].acl, p) = {"voting"}
OneCoverage ==
    \E c \in DOMAIN org.callbacks, b \in Addresses :
        /\ org.callbacks[c] = <<b>>
        /\ org.receiver = c
        /\ \A p \in BurnRole : Grantees(daos[Dao].acl, p) = {Entity(b)}

\* How far a setup gets with no vote, one vote, or two votes enacted.
NoneEnacted == \A i \in DOMAIN votes : votes[i] # Enacted
OneEnacted == \E i \in DOMAIN votes : \A j \in DOMAIN votes \ {i} : votes[j] # Enacted
FreshInv ==
    /\ NoneEnacted => NoCoverage /\ org.vault = None
    /\ OneEnacted => NoCoverage \/ (OneCoverage /\ org.vault = None)
    /\ Len(votes) <= 2 => NoCoverage \/ OneCoverage \/ org.vault = None

SetupInv ==
    ChainOK /\ OrgOK /\ FileOK /\ VotesOK /\ PublishedInv /\ DepositorInv /\ CoverageInv /\ FreshInv

-----------------------------------------------------------------------------
(* Telling votes apart *)

\* How many calls a vote has.
LEMMA VoteLengths ==
    /\ Len(Enacted) = 0
    /\ \A a, version, base : Len(PublicationVote(a, version, base)) = 1
    /\ \A version1, base1, version2, base2, d : \A limits \in Limits :
          Len(DepositsVote(version1, base1, version2, base2, d, limits)) \in {5, 6}
    /\ \A c, b : Len(CoverageVote(c, b)) = 4
    /\ \A x : Len(VaultVote(x)) = 1
    /\ Len(StartVote) = 1
<1>1. \A version1, base1, version2, base2, d : \A limits \in Limits :
          Len(DepositsVote(version1, base1, version2, base2, d, limits)) \in {5, 6}
  <2> SUFFICES ASSUME NEW version1, NEW base1, NEW version2, NEW base2, NEW d, NEW limits \in Limits
               PROVE  Len(DepositsVote(version1, base1, version2, base2, d, limits)) \in {5, 6}
    OBVIOUS
  <2>1. CASE limits = <<>>
    BY <2>1 DEF DepositsVote, UpgradeCalls
  <2>2. CASE \E x : limits = <<LimitCall(x)>>
    BY <2>2 DEF DepositsVote, UpgradeCalls
  <2> QED BY <2>1, <2>2 DEF Limits
<1> QED BY <1>1 DEF Enacted, PublicationVote, CoverageVote, VaultVote, StartVote

\* No vote is another one, and none is empty.
LEMMA VotesApart ==
    /\ \A c, b : CoverageVote(c, b) # Enacted
    /\ \A a, version, base, c, b : /\ PublicationVote(a, version, base) # CoverageVote(c, b)
                                   /\ PublicationVote(a, version, base) # Enacted
    /\ \A version1, base1, version2, base2, d, c, b : \A limits \in Limits :
          /\ DepositsVote(version1, base1, version2, base2, d, limits) # CoverageVote(c, b)
          /\ DepositsVote(version1, base1, version2, base2, d, limits) # Enacted
    /\ \A x, c, b : VaultVote(x) # CoverageVote(c, b) /\ VaultVote(x) # Enacted
    /\ \A c, b : StartVote # CoverageVote(c, b) /\ StartVote # Enacted
    /\ \A c1, b1, c2, b2 : CoverageVote(c1, b1) = CoverageVote(c2, b2) => c1 = c2 /\ b1 = b2
<1>1. ASSUME NEW c1, NEW b1, NEW c2, NEW b2, CoverageVote(c1, b1) = CoverageVote(c2, b2)
      PROVE  c1 = c2 /\ b1 = b2
  <2>1. CoverageVote(c1, b1)[1] = CoverageVote(c2, b2)[1]
    BY <1>1
  <2>2. \A c, b : CoverageVote(c, b)[1].to = c /\ CoverageVote(c, b)[1].callback = b
    BY DEF CoverageVote
  <2> QED BY <2>1, <2>2
<1>2. \A c, b : CoverageVote(c, b) # Enacted
  BY VoteLengths
<1>3. ASSUME NEW a, NEW version, NEW base, NEW c, NEW b
      PROVE  PublicationVote(a, version, base) # CoverageVote(c, b) /\ PublicationVote(a, version, base) # Enacted
  <2>1. Len(PublicationVote(a, version, base)) = 1 /\ Len(CoverageVote(c, b)) = 4 /\ Len(Enacted) = 0
    BY VoteLengths
  <2> QED BY <2>1
<1>4. ASSUME NEW version1, NEW base1, NEW version2, NEW base2, NEW d, NEW limits \in Limits, NEW c, NEW b
      PROVE  /\ DepositsVote(version1, base1, version2, base2, d, limits) # CoverageVote(c, b)
             /\ DepositsVote(version1, base1, version2, base2, d, limits) # Enacted
  <2> DEFINE n == Len(DepositsVote(version1, base1, version2, base2, d, limits))
  <2>1. n = 5 \/ n = 6
    BY VoteLengths
  <2>2. Len(CoverageVote(c, b)) = 4 /\ Len(Enacted) = 0
    BY VoteLengths
  <2>3. n # Len(CoverageVote(c, b)) /\ n # Len(Enacted)
    <3> HIDE DEF n
    <3> QED BY <2>1, <2>2
  <2> QED BY ONLY <2>3
<1>5. ASSUME NEW x, NEW c, NEW b
      PROVE  /\ VaultVote(x) # CoverageVote(c, b) /\ VaultVote(x) # Enacted
             /\ StartVote # CoverageVote(c, b) /\ StartVote # Enacted
  <2>1. Len(VaultVote(x)) = 1 /\ Len(StartVote) = 1 /\ Len(CoverageVote(c, b)) = 4 /\ Len(Enacted) = 0
    BY VoteLengths
  <2> QED BY <2>1
<1> QED BY <1>1, <1>2, <1>3, <1>4, <1>5

-----------------------------------------------------------------------------
(* Where the setup begins *)

\* Every application has a first base.
LEMMA FirstBasesAre == FirstBases \in [LidoApps -> Nat]
<1>1. ASSUME NEW a \in LidoApps PROVE 1 + (CHOOSE i \in DOMAIN AppList : AppList[i] = a) \in Nat
  <2>1. \E i \in DOMAIN AppList : AppList[i] = a
    BY SetupAssumption DEF ToSet
  <2>2. DOMAIN AppList \in SUBSET Nat
    BY SetupAssumption
  <2>3. (CHOOSE i \in DOMAIN AppList : AppList[i] = a) \in Nat
    BY <2>1, <2>2
  <2> QED BY <2>3
<1> QED BY <1>1 DEF FirstBases

\* The chain that 01 to 11 leave: the applications, the template, its steps.
LEMMA FirstChainIs ==
    /\ FirstChain \in Seq([of : Nat, did : FirstDids])
    /\ Len(FirstChain) <= MaxChain
<1> DEFINE S == [of : Nat, did : FirstDids]
           steps == <<"TmplAPMDeployed", "TmplReposCreated", "TmplDAOAndTokenDeployed",
                      "TmplTokensIssued", "TmplDaoFinalized">>
           template == <<[of |-> Template, did |-> "LidoTemplate"]>>
           bases == [i \in 1 .. Len(AppList) |-> [of |-> i + 1, did |-> AppList[i]]]
           calls == [i \in 1 .. 5 |-> [of |-> Template, did |-> steps[i]]]
<1>1. template \in Seq(S)
  BY DEF Template, FirstDids
<1>2. bases \in Seq(S)
  <2>1. AppList \in Seq(LidoApps) /\ Len(AppList) \in Nat
    BY SetupAssumption
  <2>2. \A i \in 1 .. Len(AppList) : AppList[i] \in FirstDids /\ i + 1 \in Nat
    BY <2>1 DEF FirstDids
  <2> QED BY <2>1, <2>2
<1>3. calls \in Seq(S)
  <2>1. \A i \in 1 .. 5 : steps[i] \in FirstDids
    BY DEF FirstDids
  <2> HIDE DEF steps
  <2> QED BY <2>1 DEF Template
<1>4. FirstChain = template \o bases \o calls
  BY DEF FirstChain
<1> HIDE DEF template, bases, calls
<1>5. template \o bases \in Seq(S)
  BY <1>1, <1>2
<1>6. FirstChain \in Seq(S)
  BY <1>3, <1>4, <1>5
<1> QED BY <1>6, SetupAssumption

\* Nobody deposits yet, and Voting may burn.
LEMMA FirstACLIs ==
    /\ \A p \in DepositRole : Manager(FirstACL, p) = Nobody /\ Grantees(FirstACL, p) = {}
    /\ \A p \in BurnRole : Grantees(FirstACL, p) = {"voting"}
<1> SUFFICES ASSUME NEW p \in DepositRole \cup BurnRole
             PROVE  /\ p \in DepositRole => Manager(FirstACL, p) = Nobody /\ Grantees(FirstACL, p) = {}
                    /\ p \in BurnRole => Grantees(FirstACL, p) = {"voting"}
  OBVIOUS
<1> DEFINE new == Create(NoPermissions, RootRoles \cup TemplateRoles, "template", "template")
           revoked == Revoke(new, TemplateRoles, "template")
           freed == SetManager(revoked, TemplateRoles, Nobody)
           voting == Create(freed, CreatedForVoting, "voting", "voting")
           vault == Create(voting, VaultRoles, "finance", "voting")
           calls == Create(vault, CreateVotesRoles, "tokenManager", "voting")
           granted == Grant(calls, RootRoles, "voting")
           handed == Revoke(granted, RootRoles, "template")
<1>1. /\ p[1] = "lido" /\ p[2] \in {"DEPOSIT_ROLE", "BURN_ROLE"}
      /\ p \in DepositRole => p[2] = "DEPOSIT_ROLE"
      /\ p \in BurnRole => p[2] = "BURN_ROLE"
  BY DEF DepositRole, BurnRole
<1>2. p \notin RootRoles /\ p \notin TemplateRoles /\ p \notin VaultRoles /\ p \notin CreateVotesRoles
  BY <1>1 DEF RootRoles, TemplateRoles, VaultRoles, CreateVotesRoles, Roles
<1>3. /\ p \in DepositRole => p \notin CreatedForVoting
      /\ p \in BurnRole => p \in CreatedForVoting
  <2>1. p \notin AgentRoles /\ p \notin FinanceRoles /\ p \notin EvmScriptsRegistryRoles /\ p \notin VotingRoles
    BY <1>1 DEF AgentRoles, FinanceRoles, EvmScriptsRegistryRoles, VotingRoles, Roles
  <2>2. p \notin OracleRoles /\ p \notin OperatorsRoles /\ p # <<"tokenManager", "ASSIGN_ROLE">>
    BY <1>1 DEF OracleRoles, OperatorsRoles, Roles
  <2>3. p \in DepositRole => p \notin LidoRoles
    BY <1>1 DEF LidoRoles, Roles
  <2>4. p \in BurnRole => p \in LidoRoles
    BY DEF LidoRoles, Roles, BurnRole
  <2> QED BY <2>1, <2>2, <2>3, <2>4 DEF CreatedForVoting
<1>4. FirstACL = SetManager(handed, RootRoles, "voting")
  BY DEF FirstACL, FinalACL, RemovePermissionFromTemplate, TransferPermissionFromTemplate
<1>5. Manager(new, p) = Nobody /\ Grantees(new, p) = {}
  BY <1>2, CreateIs, NothingIsPermitted
<1> HIDE DEF new
<1>6. Manager(revoked, p) = Nobody /\ Grantees(revoked, p) = {}
  BY <1>2, <1>5, RevokeIs
<1> HIDE DEF revoked
<1>7. Manager(freed, p) = Nobody /\ Grantees(freed, p) = {}
  BY <1>2, <1>6, SetManagerIs
<1> HIDE DEF freed
<1>8. /\ p \in DepositRole => Manager(voting, p) = Nobody /\ Grantees(voting, p) = {}
      /\ p \in BurnRole => Grantees(voting, p) = {"voting"}
  BY <1>3, <1>7, CreateIs
<1> HIDE DEF voting
<1>9. Manager(vault, p) = Manager(voting, p) /\ Grantees(vault, p) = Grantees(voting, p)
  BY <1>2, CreateIs
<1> HIDE DEF vault
<1>10. Manager(calls, p) = Manager(vault, p) /\ Grantees(calls, p) = Grantees(vault, p)
  BY <1>2, CreateIs
<1> HIDE DEF calls
<1>11. Manager(granted, p) = Manager(calls, p) /\ Grantees(granted, p) = Grantees(calls, p)
  BY <1>2, GrantIs
<1> HIDE DEF granted
<1>12. Manager(handed, p) = Manager(granted, p) /\ Grantees(handed, p) = Grantees(granted, p)
  BY <1>2, RevokeIs
<1> HIDE DEF handed
<1>13. Manager(FirstACL, p) = Manager(handed, p) /\ Grantees(FirstACL, p) = Grantees(handed, p)
  BY <1>2, <1>4, SetManagerIs
<1> QED BY <1>8, <1>9, <1>10, <1>11, <1>12, <1>13

\* The DAO that 01 to 11 leave behind.
LEMMA SetupInvInit == SetupInit => SetupInv
<1> SUFFICES ASSUME SetupInit PROVE SetupInv
  OBVIOUS
<1>1. /\ chain = FirstChain
      /\ votes = <<>> /\ depositors = <<>> /\ keys = 0
  BY DEF SetupInit
<1>2. /\ org.latest = [a \in LidoApps |-> [version |-> <<1, 0>>, base |-> FirstBases[a]]]
      /\ org.callbacks = <<>> /\ org.receiver = None /\ org.vault = None
      /\ org = [latest |-> org.latest, callbacks |-> org.callbacks, receiver |-> org.receiver,
                vault |-> org.vault, stopped |-> org.stopped, limit |-> org.limit]
  BY DEF SetupInit
<1>3. /\ Dao \in DOMAIN daos /\ {"acl", "apps"} \subseteq DOMAIN daos[Dao]
      /\ daos[Dao].acl = FirstACL /\ daos[Dao].apps = FirstBases
  BY DEF SetupInit
<1>4. file = [base |-> FirstBases, depositor |-> None, previousDepositor |-> None,
              composite |-> None, burner |-> None, vault |-> None]
  BY DEF SetupInit
<1>5. ChainOK
  <2>1. chain \in Seq([of : Nat, did : FirstDids]) /\ Len(chain) <= MaxChain
    BY <1>1, FirstChainIs
  <2> DEFINE S == [of : Nat, did : FirstDids]
  <2>2. chain \in Seq(Transactions)
    <3>1. \A x \in S : x \in Transactions
      BY DEF Transactions
    <3>2. chain \in Seq(S)
      BY <2>1
    <3> HIDE DEF S
    <3> QED BY <3>1, <3>2
  <2>3. \A i \in DOMAIN chain : chain[i].did \in FirstDids
    <3>1. \A x \in S : x.did \in FirstDids
      OBVIOUS
    <3>2. chain \in Seq(S)
      BY <2>1
    <3> HIDE DEF S
    <3>3. \A i \in DOMAIN chain : chain[i] \in S
      BY <3>2
    <3> QED BY <3>1, <3>3
  <2>4. "depositor" \notin FirstDids /\ "composite" \notin FirstDids
    BY SetupAssumption DEF FirstDids, Companions
  <2>5. \A i \in DOMAIN chain : ~HasCode(i, "depositor") /\ ~HasCode(i, "composite")
    BY <2>3, <2>4 DEF HasCode
  <2> QED BY <1>2, <2>1, <2>2, <2>5 DEF ChainOK
<1>6. OrgOK
  <2>1. org.latest \in [LidoApps -> Releases]
    BY <1>2, FirstBasesAre DEF Releases
  <2>2. org.callbacks \in [DOMAIN org.callbacks -> Seq(Addresses)]
    BY <1>2
  <2> QED BY <1>1, <1>2, <1>3, <2>1, <2>2, FirstBasesAre DEF OrgOK
<1>7. FileOK
  BY <1>4, FirstBasesAre DEF FileOK, None
<1>8. VotesOK
  BY <1>1 DEF VotesOK
<1>9. PublishedInv
  BY <1>2, <1>3, <1>4, FirstBasesAre DEF PublishedInv
<1>10. DepositorInv
  BY <1>3, FirstACLIs DEF DepositorInv
<1>11. NoCoverage /\ \A c, b : ~Paired(c, b) /\ ~Called(c, b)
  <2>1. DOMAIN org.callbacks = {} /\ DOMAIN votes = {}
    BY <1>1, <1>2
  <2> QED BY <1>2, <1>3, <2>1, FirstACLIs DEF NoCoverage, Paired, Called, Planned
<1>12. CoverageInv
  BY <1>11 DEF CoverageInv, NoCoverage
<1>13. FreshInv
  BY <1>2, <1>11 DEF FreshInv
<1> QED BY <1>5, <1>6, <1>7, <1>8, <1>9, <1>10, <1>12, <1>13 DEF SetupInv

-----------------------------------------------------------------------------
(* Steps that touch neither the chain nor the DAO *)

\* What is done to depositors, what is saved, and the keys.
LEMMA StillKeeps ==
    ASSUME SetupInv, UNCHANGED <<chain, org, daos, votes, file>>,
           DOMAIN depositors' = DOMAIN depositors, keys' \in Nat
    PROVE  SetupInv'
<1>1. \A x : VoteOK(x) => VoteOK(x)'
  <2>1. \A a, version, base : NotBehind(a, version, base)' <=> NotBehind(a, version, base)
    BY DEF NotBehind
  <2> QED BY <2>1 DEF VoteOK
<1>2. \A i, a : HasCode(i, a)' <=> HasCode(i, a)
  BY DEF HasCode
<1>3. ChainOK'
  BY <1>2 DEF SetupInv, ChainOK
<1>4. OrgOK' /\ FileOK'
  BY DEF SetupInv, OrgOK, FileOK
<1>5. VotesOK'
  BY <1>1 DEF SetupInv, VotesOK
<1>6. PublishedInv' /\ DepositorInv'
  BY DEF SetupInv, PublishedInv, DepositorInv
<1>7. \A c, b : (Called(c, b)' <=> Called(c, b)) /\ (Paired(c, b)' <=> Paired(c, b))
  BY DEF Paired, Called, Planned
<1>8. CoverageInv'
  BY <1>7 DEF SetupInv, CoverageInv
<1>9. FreshInv'
  BY DEF SetupInv, FreshInv, NoCoverage, OneCoverage, NoneEnacted, OneEnacted
<1> QED BY <1>3, <1>4, <1>5, <1>6, <1>8, <1>9 DEF SetupInv

\* An address that a script writes into the file is no older than the one there.
LEMMA ObtainKeeps ==
    ASSUME SetupInv, UNCHANGED <<chain, org, daos, votes, depositors, keys>>, FileOK',
           \A a \in LidoApps : file.base[a] <= file'.base[a],
           file.composite <= file'.composite, file.burner <= file'.burner
    PROVE  SetupInv'
<1>0. /\ file.composite \in Nat /\ file'.composite \in Nat /\ file.burner \in Nat /\ file'.burner \in Nat
      /\ \A a \in LidoApps : file.base[a] \in Nat /\ file'.base[a] \in Nat
  BY DEF SetupInv, FileOK
<1>1. \A a \in LidoApps, version \in Nat \X Nat, base \in Nat :
         NotBehind(a, version, base) => NotBehind(a, version, base)'
  BY <1>0 DEF NotBehind
<1>2. \A x : VoteOK(x) => VoteOK(x)'
  <2> SUFFICES ASSUME NEW x, VoteOK(x) PROVE VoteOK(x)'
    OBVIOUS
  <2>1. "lido" \in LidoApps /\ Operators \in LidoApps
    BY SetupAssumption DEF Operators
  <2> QED BY <1>1, <2>1 DEF VoteOK
<1>3. ChainOK' /\ OrgOK'
  BY DEF SetupInv, ChainOK, OrgOK, HasCode
<1>4. VotesOK'
  BY <1>2 DEF SetupInv, VotesOK
<1>5. PublishedInv'
  <2> SUFFICES ASSUME NEW a \in LidoApps
               PROVE  daos'[Dao].apps[a] <= org'.latest[a].base /\ org'.latest[a].base <= file'.base[a]
    BY DEF PublishedInv
  <2>1. daos[Dao].apps[a] <= org.latest[a].base /\ org.latest[a].base <= file.base[a]
    BY DEF SetupInv, PublishedInv
  <2>2. org.latest[a].base \in Nat
    BY DEF SetupInv, OrgOK, Releases
  <2> QED BY <1>0, <2>1, <2>2
<1>6. DepositorInv'
  BY DEF SetupInv, DepositorInv
<1>7. \A c, b : (Called(c, b)' <=> Called(c, b)) /\ (Paired(c, b)' <=> Paired(c, b))
  BY DEF Paired, Called, Planned
<1>8. CoverageInv'
  <2>1. \A c, b \in Addresses : Paired(c, b)' => c <= file'.composite /\ b <= file'.burner
    <3> SUFFICES ASSUME NEW c \in Addresses, NEW b \in Addresses, Paired(c, b)'
                 PROVE  c <= file'.composite /\ b <= file'.burner
      OBVIOUS
    <3>1. c <= file.composite /\ b <= file.burner
      BY <1>7 DEF SetupInv, CoverageInv
    <3>2. c \in Nat /\ b \in Nat
      BY TemplateAssumption DEF Addresses
    <3> QED BY <1>0, <3>1, <3>2
  <2> QED BY <1>7, <2>1 DEF SetupInv, CoverageInv
<1>9. FreshInv'
  BY DEF SetupInv, FreshInv, NoCoverage, OneCoverage, NoneEnacted, OneEnacted
<1> QED BY <1>3, <1>4, <1>5, <1>6, <1>8, <1>9 DEF SetupInv

\* A vote is saved with what the file holds.
LEMMA SaveVoteKeeps ==
    ASSUME SetupInv, NEW calls \in Votes, SaveVote(calls), VoteOK(calls), calls # Enacted,
           \A c, b : calls = CoverageVote(c, b) => c = file.composite /\ b = file.burner
    PROVE  SetupInv'
<1>1. /\ UNCHANGED <<chain, org, daos, file, depositors, keys>>
      /\ votes' = Append(votes, calls)
  BY DEF SaveVote, templateVars
<1>2. votes \in Seq(Votes) /\ Len(votes) \in Nat
  BY DEF SetupInv, VotesOK
<1>3. /\ votes' \in Seq(Votes)
      /\ Len(votes') = Len(votes) + 1
      /\ DOMAIN votes = 1 .. Len(votes) /\ DOMAIN votes' = 1 .. Len(votes) + 1
      /\ \A i \in DOMAIN votes : i \in DOMAIN votes' /\ votes'[i] = votes[i]
      /\ votes'[Len(votes) + 1] = calls
  BY <1>1, <1>2
<1> HIDE DEF SaveVote
<1>4. \A x : VoteOK(x) => VoteOK(x)'
  <2>1. \A a, version, base : NotBehind(a, version, base)' <=> NotBehind(a, version, base)
    BY <1>1 DEF NotBehind
  <2> QED BY <1>1, <2>1 DEF VoteOK
<1>5. ChainOK' /\ OrgOK' /\ FileOK'
  BY <1>1 DEF SetupInv, ChainOK, OrgOK, FileOK, HasCode
<1>6. VotesOK'
  <2>1. ASSUME NEW i \in DOMAIN votes' PROVE VoteOK(votes[i])'
    <3>1. CASE i \in DOMAIN votes
      <4>1. VoteOK(votes[i]) /\ votes'[i] = votes[i]
        BY <1>3, <3>1 DEF SetupInv, VotesOK
      <4> QED BY <1>4, <4>1
    <3>2. CASE i = Len(votes) + 1
      BY <1>3, <1>4, <3>2
    <3> QED BY <1>3, <3>1, <3>2
  <2> QED BY <1>3, <2>1 DEF VotesOK
<1>7. PublishedInv' /\ DepositorInv'
  BY <1>1 DEF SetupInv, PublishedInv, DepositorInv
<1>8. \A c, b : /\ Called(c, b)' <=> Called(c, b)
                /\ Paired(c, b)' => Paired(c, b) \/ (c = file.composite /\ b = file.burner)
  <2> SUFFICES ASSUME NEW c, NEW b
               PROVE  /\ Called(c, b)' <=> Called(c, b)
                      /\ Planned(c, b)' => Planned(c, b) \/ (c = file.composite /\ b = file.burner)
    BY DEF Paired
  <2>1. Called(c, b)' <=> Called(c, b)
    BY <1>1 DEF Called
  <2>2. ASSUME Planned(c, b)' PROVE Planned(c, b) \/ (c = file.composite /\ b = file.burner)
    <3>1. PICK i \in DOMAIN votes' : votes'[i] = CoverageVote(c, b)
      BY <2>2 DEF Planned
    <3>2. CASE i \in DOMAIN votes
      BY <1>3, <3>1, <3>2 DEF Planned
    <3>3. CASE i = Len(votes) + 1
      BY <1>3, <3>1, <3>3
    <3> QED BY <1>3, <3>2, <3>3
  <2> QED BY <2>1, <2>2
<1>9. CoverageInv'
  <2>0. file.composite \in Nat /\ file.burner \in Nat /\ \A x \in Addresses : x \in Nat
    BY TemplateAssumption DEF SetupInv, FileOK, Addresses
  <2>1. \A c, b \in Addresses : Paired(c, b) => c <= file.composite /\ b <= file.burner
    BY DEF SetupInv, CoverageInv
  <2>2. \A c, b \in Addresses : Paired(c, b)' => c <= file'.composite /\ b <= file'.burner
    BY <1>1, <1>8, <2>0, <2>1
  <2>3. \A c1, b1, c2, b2 \in Addresses : Paired(c1, b1)' /\ Paired(c2, b2)' /\ c1 < c2 => b1 <= b2
    <3> SUFFICES ASSUME NEW c1 \in Addresses, NEW b1 \in Addresses, NEW c2 \in Addresses, NEW b2 \in Addresses,
                        Paired(c1, b1)', Paired(c2, b2)', c1 < c2
                 PROVE  b1 <= b2
      OBVIOUS
    <3>1. CASE Paired(c1, b1) /\ Paired(c2, b2)
      BY <3>1 DEF SetupInv, CoverageInv
    <3>2. CASE c2 = file.composite /\ b2 = file.burner
      <4>1. b1 <= file'.burner
        BY <2>2
      <4> QED BY <1>1, <3>2, <4>1
    <3>3. CASE c1 = file.composite /\ b1 = file.burner
      <4>1. c2 <= file'.composite
        BY <2>2
      <4> QED BY <1>1, <2>0, <3>3, <4>1
    <3> QED BY <1>8, <3>1, <3>2, <3>3
  <2> QED BY <1>1, <1>8, <2>2, <2>3 DEF SetupInv, CoverageInv
<1>10. FreshInv'
  <2>1. (NoCoverage' <=> NoCoverage) /\ (OneCoverage' <=> OneCoverage)
    BY <1>1 DEF NoCoverage, OneCoverage
  <2>2. NoneEnacted' => NoneEnacted
    BY <1>3 DEF NoneEnacted
  <2>3. OneEnacted' => OneEnacted \/ NoneEnacted
    <3> SUFFICES ASSUME OneEnacted' PROVE OneEnacted \/ NoneEnacted
      OBVIOUS
    <3>1. PICK i \in DOMAIN votes' : \A j \in DOMAIN votes' \ {i} : votes'[j] # Enacted
      BY DEF OneEnacted
    <3>2. CASE i \in DOMAIN votes
      BY <1>3, <3>1, <3>2 DEF OneEnacted
    <3>3. CASE i = Len(votes) + 1
      BY <1>3, <3>1, <3>3 DEF NoneEnacted
    <3> QED BY <1>3, <3>2, <3>3
  <2>4. Len(votes') <= 2 => Len(votes) <= 2
    BY <1>2, <1>3
  <2> QED BY <1>1, <2>1, <2>2, <2>3, <2>4 DEF SetupInv, FreshInv
<1> QED BY <1>5, <1>6, <1>7, <1>9, <1>10 DEF SetupInv

-----------------------------------------------------------------------------
(* Instances *)

\* Something new has an address of its own.
LEMMA DeployIs ==
    ASSUME ChainOK, NEW artifact \in LidoApps \cup Companions, Deploy(artifact)
    PROVE  /\ UNCHANGED daos
           /\ chain' \in Seq(Transactions)
           /\ Len(chain') <= MaxChain
           /\ DOMAIN chain = 1 .. Len(chain) /\ Len(chain) \in Nat
           /\ DOMAIN chain' = 1 .. Len(chain) + 1
           /\ \A i \in DOMAIN chain : \A a : HasCode(i, a)' <=> HasCode(i, a)
           /\ \A i, a : i = Len(chain) + 1 /\ HasCode(i, a)' => a = artifact
<1>1. chain \in Seq(Transactions) /\ Len(chain) \in Nat /\ Len(chain) < MaxChain
  BY DEF ChainOK, Deploy, Mined
<1>2. chain' = Append(chain, [of |-> Len(chain) + 1, did |-> artifact])
  BY DEF Deploy, Mined
<1>3. [of |-> Len(chain) + 1, did |-> artifact] \in Transactions
  BY <1>1 DEF Transactions, FirstDids
<1>4. /\ chain' \in Seq(Transactions)
      /\ Len(chain') = Len(chain) + 1
      /\ DOMAIN chain = 1 .. Len(chain) /\ DOMAIN chain' = 1 .. Len(chain) + 1
      /\ \A i \in DOMAIN chain : i \in DOMAIN chain' /\ chain'[i] = chain[i]
      /\ chain'[Len(chain) + 1] = [of |-> Len(chain) + 1, did |-> artifact]
  BY <1>1, <1>2, <1>3
<1>5. Len(chain') <= MaxChain
  BY <1>1, <1>4, TemplateAssumption
<1>6. \A i, a : i = Len(chain) + 1 /\ HasCode(i, a)' => a = artifact
  BY <1>1, <1>4 DEF HasCode
<1>7. \A i \in DOMAIN chain : \A a : HasCode(i, a)' <=> HasCode(i, a)
  BY <1>4 DEF HasCode
<1> QED BY <1>1, <1>4, <1>5, <1>6, <1>7 DEF Deploy

\* A deployment leaves the file, the votes and the organization alone.
LEMMA DeployKeeps ==
    ASSUME SetupInv, NEW artifact \in LidoApps \cup Companions, Deploy(artifact),
           UNCHANGED <<file, votes, keys>>,
           DOMAIN depositors \subseteq DOMAIN depositors',
           artifact = "depositor" => Len(chain) + 1 \in DOMAIN depositors',
           artifact # "composite" => org' = org,
           artifact = "composite" => org' = [org EXCEPT !.callbacks = Created(@, Len(chain) + 1, <<>>)]
    PROVE  SetupInv'
<1>1. /\ UNCHANGED daos
      /\ chain' \in Seq(Transactions)
      /\ Len(chain') <= MaxChain
      /\ DOMAIN chain = 1 .. Len(chain) /\ Len(chain) \in Nat
      /\ DOMAIN chain' = 1 .. Len(chain) + 1
      /\ \A i \in DOMAIN chain : \A a : HasCode(i, a)' <=> HasCode(i, a)
      /\ \A i, a : i = Len(chain) + 1 /\ HasCode(i, a)' => a = artifact
  BY DeployIs DEF SetupInv
<1>2. DOMAIN org.callbacks \subseteq DOMAIN chain
  BY DEF SetupInv, ChainOK
<1>3. /\ org'.latest = org.latest /\ org'.receiver = org.receiver /\ org'.vault = org.vault
      /\ org' = [latest |-> org'.latest, callbacks |-> org'.callbacks, receiver |-> org'.receiver,
                 vault |-> org'.vault, stopped |-> org'.stopped, limit |-> org'.limit]
      /\ org'.callbacks \in [DOMAIN org'.callbacks -> Seq(Addresses)]
      /\ DOMAIN org.callbacks \subseteq DOMAIN org'.callbacks
      /\ DOMAIN org'.callbacks \subseteq DOMAIN org.callbacks \cup {Len(chain) + 1}
      /\ artifact = "composite" => Len(chain) + 1 \in DOMAIN org'.callbacks
      /\ \A c \in DOMAIN org.callbacks : org'.callbacks[c] = org.callbacks[c]
      /\ \A c \in DOMAIN org'.callbacks : c \notin DOMAIN org.callbacks => org'.callbacks[c] = <<>>
  <2>1. /\ org = [latest |-> org.latest, callbacks |-> org.callbacks, receiver |-> org.receiver,
                  vault |-> org.vault, stopped |-> org.stopped, limit |-> org.limit]
        /\ org.callbacks \in [DOMAIN org.callbacks -> Seq(Addresses)]
    BY DEF SetupInv, OrgOK
  <2>2. CASE artifact # "composite"
    BY <2>1, <2>2
  <2>3. CASE artifact = "composite"
    <3> DEFINE callbacks == Created(org.callbacks, Len(chain) + 1, <<>>)
    <3>1. org' = [latest |-> org.latest, callbacks |-> callbacks, receiver |-> org.receiver,
                  vault |-> org.vault, stopped |-> org.stopped, limit |-> org.limit]
      <4> HIDE DEF callbacks
      <4>1. org' = [org EXCEPT !.callbacks = callbacks]
        BY <2>3 DEF callbacks
      <4> QED BY <2>1, <4>1
    <3>2. /\ DOMAIN callbacks = DOMAIN org.callbacks \cup {Len(chain) + 1}
          /\ \A c \in DOMAIN org.callbacks : callbacks[c] = org.callbacks[c]
          /\ callbacks[Len(chain) + 1] = <<>>
      BY <1>1, <1>2 DEF Created
    <3>3. callbacks \in [DOMAIN callbacks -> Seq(Addresses)]
      <4>1. callbacks = [c \in DOMAIN callbacks |-> callbacks[c]]
        BY DEF Created
      <4>2. \A c \in DOMAIN org.callbacks : org.callbacks[c] \in Seq(Addresses)
        BY <2>1
      <4>3. <<>> \in Seq(Addresses)
        OBVIOUS
      <4> HIDE DEF callbacks
      <4>4. \A c \in DOMAIN callbacks : callbacks[c] \in Seq(Addresses)
        BY <3>2, <4>2, <4>3
      <4> QED BY <4>1, <4>4
    <3> HIDE DEF callbacks
    <3>4. org'.callbacks = callbacks
      BY <3>1
    <3> QED BY <3>1, <3>2, <3>3, <3>4
  <2> QED BY <2>2, <2>3
<1>4. \A x : VoteOK(x) => VoteOK(x)'
  <2>1. \A a, version, base : NotBehind(a, version, base)' <=> NotBehind(a, version, base)
    BY <1>3 DEF NotBehind
  <2>2. \A d \in DOMAIN depositors : d \in DOMAIN depositors'
    OBVIOUS
  <2>3. \A c \in DOMAIN org.callbacks : c \in DOMAIN org'.callbacks
    BY <1>3
  <2> QED BY <2>1, <2>2, <2>3 DEF VoteOK
<1>5. ChainOK'
  <2>1. DOMAIN org'.callbacks \subseteq DOMAIN chain'
    BY <1>1, <1>2, <1>3
  <2>2. ASSUME NEW i \in DOMAIN chain', HasCode(i, "depositor")' PROVE i \in DOMAIN depositors'
    <3>1. CASE i \in DOMAIN chain
      <4>1. HasCode(i, "depositor")
        BY <1>1, <2>2, <3>1
      <4> QED BY <3>1, <4>1 DEF SetupInv, ChainOK
    <3>2. CASE i = Len(chain) + 1
      <4>1. "depositor" = artifact
        BY <1>1, <2>2, <3>2
      <4> QED BY <3>2, <4>1
    <3> QED BY <1>1, <3>1, <3>2
  <2>3. ASSUME NEW i \in DOMAIN chain', HasCode(i, "composite")' PROVE i \in DOMAIN org'.callbacks
    <3>1. CASE i \in DOMAIN chain
      <4>1. HasCode(i, "composite")
        BY <1>1, <2>3, <3>1
      <4> QED BY <1>3, <3>1, <4>1 DEF SetupInv, ChainOK
    <3>2. CASE i = Len(chain) + 1
      <4>1. "composite" = artifact
        BY <1>1, <2>3, <3>2
      <4> QED BY <1>3, <3>2, <4>1
    <3> QED BY <1>1, <3>1, <3>2
  <2> QED BY <1>1, <2>1, <2>2, <2>3 DEF ChainOK
<1>6. OrgOK'
  BY <1>1, <1>3 DEF SetupInv, OrgOK
<1>7. FileOK'
  BY <1>1, <1>3 DEF SetupInv, FileOK
<1>8. VotesOK'
  BY <1>4 DEF SetupInv, VotesOK
<1>9. PublishedInv'
  BY <1>1, <1>3 DEF SetupInv, PublishedInv
<1>10. DepositorInv'
  BY <1>1 DEF SetupInv, DepositorInv
<1>11. \A c, b : (Called(c, b)' <=> Called(c, b)) /\ (Paired(c, b)' <=> Paired(c, b))
  <2>1. \A i : i \notin DOMAIN <<>>
    OBVIOUS
  <2>2. \A c, b : Called(c, b)' <=> Called(c, b)
    BY <1>3, <2>1 DEF Called
  <2> QED BY <2>2 DEF Paired, Planned
<1>12. CoverageInv'
  BY <1>1, <1>3, <1>11 DEF SetupInv, CoverageInv
<1>13. FreshInv'
  <2>1. NoCoverage => NoCoverage'
    BY <1>1, <1>3 DEF NoCoverage
  <2>2. OneCoverage => OneCoverage'
    BY <1>1, <1>3 DEF OneCoverage
  <2>3. (NoneEnacted' <=> NoneEnacted) /\ (OneEnacted' <=> OneEnacted)
    BY DEF NoneEnacted, OneEnacted
  <2> QED BY <1>3, <2>1, <2>2, <2>3 DEF SetupInv, FreshInv
<1> QED BY <1>5, <1>6, <1>7, <1>8, <1>9, <1>10, <1>12, <1>13 DEF SetupInv

-----------------------------------------------------------------------------
(* Enacting a vote *)

\* The organization after a vote is what its calls made of the one before.
LEMMA EnactedIs ==
    ASSUME OrgOK, NEW i \in DOMAIN votes, EnactVote(i),
           NEW l, NEW c, NEW r, NEW v, NEW s, NEW m, NEW acl, NEW apps,
           Execute(CurrentDao, votes[i]) = TheDao(l, c, r, v, s, m, acl, apps)
    PROVE  /\ org' = [latest |-> org'.latest, callbacks |-> org'.callbacks, receiver |-> org'.receiver,
                      vault |-> org'.vault, stopped |-> org'.stopped, limit |-> org'.limit]
           /\ org'.latest = l /\ org'.callbacks = c /\ org'.receiver = r /\ org'.vault = v
           /\ Dao \in DOMAIN daos' /\ {"acl", "apps"} \subseteq DOMAIN daos'[Dao]
           /\ daos'[Dao].acl = acl /\ daos'[Dao].apps = apps
<1> DEFINE dao == TheDao(l, c, r, v, s, m, acl, apps)
<1>1. /\ org' = [f \in DOMAIN org |-> dao[f]]
      /\ daos' = [daos EXCEPT ![Dao].acl = dao.acl, ![Dao].apps = dao.apps]
  BY DEF EnactVote
<1>2. DOMAIN org = {"latest", "callbacks", "receiver", "vault", "stopped", "limit"}
  <2>1. org = [latest |-> org.latest, callbacks |-> org.callbacks, receiver |-> org.receiver,
               vault |-> org.vault, stopped |-> org.stopped, limit |-> org.limit]
    BY DEF OrgOK
  <2> DEFINE q == [latest |-> org.latest, callbacks |-> org.callbacks, receiver |-> org.receiver,
                   vault |-> org.vault, stopped |-> org.stopped, limit |-> org.limit]
  <2>2. DOMAIN q = {"latest", "callbacks", "receiver", "vault", "stopped", "limit"}
    OBVIOUS
  <2> QED BY <2>1, <2>2
<1>3. /\ dao.latest = l /\ dao.callbacks = c /\ dao.receiver = r /\ dao.vault = v
      /\ dao.acl = acl /\ dao.apps = apps
  BY DEF TheDao
<1> HIDE DEF dao
<1>4. /\ org' = [latest |-> org'.latest, callbacks |-> org'.callbacks, receiver |-> org'.receiver,
                 vault |-> org'.vault, stopped |-> org'.stopped, limit |-> org'.limit]
      /\ org'.latest = l /\ org'.callbacks = c /\ org'.receiver = r /\ org'.vault = v
  BY <1>1, <1>2, <1>3
<1>5. /\ Dao \in DOMAIN daos' /\ {"acl", "apps"} \subseteq DOMAIN daos'[Dao]
      /\ daos'[Dao].acl = acl /\ daos'[Dao].apps = apps
  BY <1>1, <1>3 DEF OrgOK
<1> QED BY <1>4, <1>5

\* What an enacted vote leaves of the votes.
LEMMA EnactedVotes ==
    ASSUME VotesOK, NEW i \in DOMAIN votes, EnactVote(i)
    PROVE  /\ votes' \in Seq(Votes)
           /\ DOMAIN votes' = DOMAIN votes
           /\ votes'[i] = Enacted
           /\ \A j \in DOMAIN votes : j # i => votes'[j] = votes[j]
           /\ \A c, b : Planned(c, b)' => Planned(c, b)
           /\ ~NoneEnacted'
           /\ OneEnacted' => NoneEnacted
           /\ Len(votes') <= 2 => OneEnacted
<1>1. votes \in Seq(Votes) /\ Enacted \in Votes
  BY DEF VotesOK, Votes
<1>2. votes' = [votes EXCEPT ![i] = Enacted] /\ votes[i] # Enacted
  BY DEF EnactVote
<1>3. /\ votes' \in Seq(Votes)
      /\ DOMAIN votes' = DOMAIN votes /\ DOMAIN votes = 1 .. Len(votes)
      /\ Len(votes) \in Nat /\ Len(votes') = Len(votes)
      /\ votes'[i] = Enacted
      /\ \A j \in DOMAIN votes : j # i => votes'[j] = votes[j]
  BY <1>1, <1>2
<1>4. \A c, b : Planned(c, b)' => Planned(c, b)
  BY <1>3, VotesApart DEF Planned
<1>5. ~NoneEnacted'
  BY <1>3 DEF NoneEnacted
<1>6. OneEnacted' => NoneEnacted
  BY <1>2, <1>3 DEF NoneEnacted, OneEnacted
<1>7. ASSUME Len(votes') <= 2 PROVE OneEnacted
  <2>1. PICK j \in DOMAIN votes : \A k \in DOMAIN votes \ {j} : k = i
    <3>1. CASE DOMAIN votes = {i}
      BY <3>1
    <3>2. CASE DOMAIN votes # {i}
      <4>1. PICK j \in DOMAIN votes : j # i
        BY <3>2
      <4>2. \A k \in DOMAIN votes \ {j} : k = i
        BY <1>3, <1>7, <4>1
      <4> QED BY <4>2
    <3> QED BY <3>1, <3>2
  <2> QED BY <1>2, <2>1 DEF OneEnacted
<1> QED BY <1>3, <1>4, <1>5, <1>6, <1>7

\* A vote publishes nothing, or one base more, of an application.
Advances(a) ==
    \/ org'.latest[a] = org.latest[a]
    \/ \E version \in Nat \X Nat, base \in Nat :
          /\ NotBehind(a, version, base)
          /\ ValidVersion(org.latest[a], version, base)
          /\ org'.latest[a] = [version |-> version, base |-> base]

\* What was published stays in the order of the bases, and a vote that is
\* behind stays behind.
LEMMA AdvancedIs ==
    ASSUME SetupInv, UNCHANGED file, NEW a \in LidoApps, Advances(a)
    PROVE  /\ org'.latest[a] \in Releases
           /\ org.latest[a].base <= org'.latest[a].base
           /\ org'.latest[a].base <= file.base[a]
           /\ \A version \in Nat \X Nat, base \in Nat :
                 NotBehind(a, version, base) => NotBehind(a, version, base)'
<1>1. /\ org.latest[a] \in Releases /\ file.base[a] \in Nat
      /\ org.latest[a].base <= file.base[a]
  BY DEF SetupInv, OrgOK, FileOK, PublishedInv
<1>2. org.latest[a].version[1] \in Nat /\ org.latest[a].base \in Nat
  BY <1>1 DEF Releases
<1>3. CASE org'.latest[a] = org.latest[a]
  BY <1>1, <1>2, <1>3 DEF NotBehind
<1>4. ASSUME NEW version \in Nat \X Nat, NEW base \in Nat,
             NotBehind(a, version, base),
             ValidVersion(org.latest[a], version, base),
             org'.latest[a] = [version |-> version, base |-> base]
      PROVE  /\ org'.latest[a] \in Releases
             /\ org.latest[a].base <= org'.latest[a].base
             /\ org'.latest[a].base <= file.base[a]
             /\ \A v \in Nat \X Nat, b \in Nat : NotBehind(a, v, b) => NotBehind(a, v, b)'
  <2>1. /\ org'.latest[a] \in Releases
        /\ org'.latest[a].version = version /\ org'.latest[a].base = base
    BY <1>4 DEF Releases
  <2>2. /\ base <= file.base[a] /\ version[1] \in Nat
        /\ version[1] = org.latest[a].version[1] + 1 => org.latest[a].base <= base
    BY <1>4 DEF NotBehind
  <2>3. \/ version[1] = org.latest[a].version[1] + 1
        \/ version[1] = org.latest[a].version[1] /\ base = org.latest[a].base
    BY <1>4 DEF ValidVersion
  <2>4. org.latest[a].base <= base
    BY <1>2, <2>2, <2>3
  <2>5. ASSUME NEW v \in Nat \X Nat, NEW b \in Nat, NotBehind(a, v, b) PROVE NotBehind(a, v, b)'
    <3>1. /\ b <= file.base[a] /\ v[1] \in Nat
          /\ v[1] <= org.latest[a].version[1] + 1
          /\ v[1] = org.latest[a].version[1] + 1 => org.latest[a].base <= b
      BY <2>5 DEF NotBehind
    <3>2. v[1] <= version[1] + 1 /\ (v[1] = version[1] + 1 => base <= b)
      BY <1>2, <2>2, <2>3, <3>1
    <3> QED BY <2>1, <3>1, <3>2 DEF NotBehind
  <2> QED BY <2>1, <2>2, <2>4, <2>5
<1> QED BY <1>3, <1>4 DEF Advances

\* What every vote keeps.
LEMMA EnactKeeps ==
    ASSUME SetupInv, NEW i \in DOMAIN votes, EnactVote(i),
           org' = [latest |-> org'.latest, callbacks |-> org'.callbacks, receiver |-> org'.receiver,
                   vault |-> org'.vault, stopped |-> org'.stopped, limit |-> org'.limit],
           DOMAIN org'.latest = LidoApps, org'.latest = [a \in LidoApps |-> org'.latest[a]],
           \A a \in LidoApps : Advances(a),
           org'.callbacks \in [DOMAIN org.callbacks -> Seq(Addresses)],
           Dao \in DOMAIN daos', {"acl", "apps"} \subseteq DOMAIN daos'[Dao],
           daos'[Dao].apps \in [LidoApps -> Nat],
           \A a \in LidoApps : daos'[Dao].apps[a] <= org'.latest[a].base
    PROVE  ChainOK' /\ OrgOK' /\ FileOK' /\ VotesOK' /\ PublishedInv'
<1>1. UNCHANGED <<chain, file, depositors, keys>>
  BY DEF EnactVote
<1>2. ASSUME NEW a \in LidoApps
      PROVE  /\ org'.latest[a] \in Releases
             /\ org'.latest[a].base <= file.base[a]
             /\ \A version \in Nat \X Nat, base \in Nat :
                   NotBehind(a, version, base) => NotBehind(a, version, base)'
  BY <1>1, AdvancedIs
<1>3. DOMAIN org'.callbacks = DOMAIN org.callbacks
  OBVIOUS
<1>4. ChainOK' /\ FileOK'
  BY <1>1, <1>3 DEF SetupInv, ChainOK, FileOK, HasCode
<1>5. OrgOK'
  BY <1>1, <1>2, <1>3 DEF SetupInv, OrgOK
<1>6. \A x : VoteOK(x) => VoteOK(x)'
  <2> SUFFICES ASSUME NEW x, VoteOK(x) PROVE VoteOK(x)'
    OBVIOUS
  <2>1. "lido" \in LidoApps /\ Operators \in LidoApps
    BY SetupAssumption DEF Operators
  <2>2. ASSUME NEW a \in LidoApps, NEW version \in Nat \X Nat, NEW base \in Nat,
               NotBehind(a, version, base), x = PublicationVote(a, version, base)
        PROVE  VoteOK(x)'
    <3>1. NotBehind(a, version, base)'
      BY <1>2, <2>2
    <3> QED BY <2>2, <3>1 DEF VoteOK
  <2>3. ASSUME NEW version1 \in Nat \X Nat, NEW version2 \in Nat \X Nat, NEW base1 \in Nat, NEW base2 \in Nat,
               NEW d \in DOMAIN depositors, NEW limits \in Limits,
               NotBehind("lido", version1, base1), NotBehind(Operators, version2, base2),
               x = DepositsVote(version1, base1, version2, base2, d, limits)
        PROVE  VoteOK(x)'
    <3>1. NotBehind("lido", version1, base1)' /\ NotBehind(Operators, version2, base2)'
      BY <1>2, <2>1, <2>3
    <3>2. d \in DOMAIN depositors'
      BY <1>1
    <3> QED BY <2>3, <3>1, <3>2 DEF VoteOK
  <2>4. CASE \/ x = Enacted \/ x = StartVote \/ \E y \in Nat : x = VaultVote(y)
             \/ \E c \in DOMAIN org.callbacks, b \in Addresses : x = CoverageVote(c, b)
    BY <1>3, <2>4 DEF VoteOK
  <2> QED BY <2>2, <2>3, <2>4 DEF VoteOK
<1>7. VotesOK'
  <2>1. /\ votes' \in Seq(Votes)
        /\ DOMAIN votes' = DOMAIN votes
        /\ votes'[i] = Enacted
        /\ \A j \in DOMAIN votes : j # i => votes'[j] = votes[j]
    BY EnactedVotes DEF SetupInv
  <2>2. ASSUME NEW j \in DOMAIN votes' PROVE VoteOK(votes[j])'
    <3>1. CASE j = i
      BY <2>1, <3>1 DEF VoteOK
    <3>2. CASE j # i
      <4>1. VoteOK(votes[j]) /\ votes'[j] = votes[j]
        BY <2>1, <3>2 DEF SetupInv, VotesOK
      <4> QED BY <1>6, <4>1
    <3> QED BY <3>1, <3>2
  <2> QED BY <2>1, <2>2 DEF VotesOK
<1>8. PublishedInv'
  BY <1>1, <1>2 DEF PublishedInv
<1> QED BY <1>4, <1>5, <1>7, <1>8

\* A vote about something else.
LEMMA EnactUncovered ==
    ASSUME SetupInv, NEW i \in DOMAIN votes, EnactVote(i),
           org'.callbacks = org.callbacks, org'.receiver = org.receiver,
           \A p \in BurnRole : Grantees(daos'[Dao].acl, p) = Grantees(daos[Dao].acl, p)
    PROVE  CoverageInv' /\ FreshInv'
<1>1. /\ \A c, b : Planned(c, b)' => Planned(c, b)
      /\ ~NoneEnacted'
      /\ OneEnacted' => NoneEnacted
      /\ Len(votes') <= 2 => OneEnacted
  BY EnactedVotes DEF SetupInv
<1>2. UNCHANGED file
  BY DEF EnactVote
<1>3. \A c, b : (Called(c, b)' <=> Called(c, b)) /\ (Paired(c, b)' => Paired(c, b))
  BY <1>1 DEF Called, Paired
<1>4. CoverageInv'
  BY <1>2, <1>3 DEF SetupInv, CoverageInv
<1>5. (NoCoverage => NoCoverage') /\ (OneCoverage => OneCoverage')
  BY DEF NoCoverage, OneCoverage
<1>6. FreshInv'
  BY <1>1, <1>5 DEF SetupInv, FreshInv
<1> QED BY <1>4, <1>6

\* The permissions to burn and to deposit are not the same.
LEMMA RolesOfVotesApart == /\ \A p \in DepositRole : p \notin BurnRole
                           /\ \A p \in BurnRole : p \notin DepositRole
BY DEF DepositRole, BurnRole

CurrentIs ==
    CurrentDao = TheDao(org.latest, org.callbacks, org.receiver, org.vault, org.stopped, org.limit,
                        daos[Dao].acl, daos[Dao].apps)

\* The DAO that the first call of a vote finds.
LEMMA CurrentDaoIs == CurrentIs
BY DEF CurrentIs, CurrentDao, TheDao

\* The vote of upgrade-app publishes a base.
LEMMA EnactPublicationKeeps ==
    ASSUME SetupInv, NEW i \in DOMAIN votes, EnactVote(i),
           NEW a \in LidoApps, NEW version \in Nat \X Nat, NEW base \in Nat,
           NotBehind(a, version, base), votes[i] = PublicationVote(a, version, base)
    PROVE  SetupInv' /\ \A z \in LidoApps : Advances(z)
<1> DEFINE l == Publication(org.latest, a, version, base)
<1>1. /\ OrgOK
      /\ Execute(CurrentDao, votes[i]) # Reverted
  BY DEF SetupInv, EnactVote
<1>2. /\ ValidVersion(org.latest[a], version, base)
      /\ Execute(CurrentDao, votes[i])
           = TheDao(l, org.callbacks, org.receiver, org.vault, org.stopped, org.limit,
                    daos[Dao].acl, daos[Dao].apps)
  BY <1>1, CurrentDaoIs, PublicationIs DEF CurrentIs
<1>3. /\ DOMAIN l = LidoApps /\ l = [x \in LidoApps |-> l[x]]
      /\ l[a] = [version |-> version, base |-> base]
      /\ \A x \in LidoApps : x # a => l[x] = org.latest[x]
  BY <1>1 DEF OrgOK, Publication
<1> HIDE DEF l
<1>4. /\ org' = [latest |-> org'.latest, callbacks |-> org'.callbacks, receiver |-> org'.receiver,
                 vault |-> org'.vault, stopped |-> org'.stopped, limit |-> org'.limit]
      /\ org'.latest = l /\ org'.callbacks = org.callbacks /\ org'.receiver = org.receiver
      /\ org'.vault = org.vault
      /\ Dao \in DOMAIN daos' /\ {"acl", "apps"} \subseteq DOMAIN daos'[Dao]
      /\ daos'[Dao].acl = daos[Dao].acl /\ daos'[Dao].apps = daos[Dao].apps
  BY <1>1, <1>2, EnactedIs
<1>5. \A x \in LidoApps : Advances(x)
  BY <1>2, <1>3, <1>4 DEF Advances
<1>6. \A x \in LidoApps : daos'[Dao].apps[x] <= org'.latest[x].base
  <2> SUFFICES ASSUME NEW x \in LidoApps PROVE daos'[Dao].apps[x] <= org'.latest[x].base
    OBVIOUS
  <2>1. UNCHANGED file
    BY DEF EnactVote
  <2>2. org'.latest[x] \in Releases /\ org.latest[x].base <= org'.latest[x].base
    BY <1>5, <2>1, AdvancedIs
  <2>3. /\ daos[Dao].apps[x] <= org.latest[x].base
        /\ daos[Dao].apps[x] \in Nat /\ org.latest[x].base \in Nat /\ org'.latest[x].base \in Nat
    BY <2>2 DEF SetupInv, PublishedInv, OrgOK, Releases
  <2> QED BY <1>4, <2>2, <2>3
<1>7. ChainOK' /\ OrgOK' /\ FileOK' /\ VotesOK' /\ PublishedInv'
  BY <1>1, <1>3, <1>4, <1>5, <1>6, EnactKeeps DEF OrgOK
<1>8. CoverageInv' /\ FreshInv'
  BY <1>4, EnactUncovered
<1>9. DepositorInv'
  <2>1. UNCHANGED depositors
    BY DEF EnactVote
  <2> QED BY <1>4, <2>1 DEF SetupInv, DepositorInv
<1> QED BY <1>5, <1>7, <1>8, <1>9 DEF SetupInv

\* A vote that publishes and installs nothing, and changes no permission.
LEMMA EnactAsideKeeps ==
    ASSUME SetupInv, NEW i \in DOMAIN votes, EnactVote(i), NEW v, NEW s,
           Execute(CurrentDao, votes[i])
             = TheDao(org.latest, org.callbacks, org.receiver, v, s, org.limit, daos[Dao].acl, daos[Dao].apps)
    PROVE  SetupInv' /\ \A z \in LidoApps : Advances(z)
<1>1. OrgOK
  BY DEF SetupInv
<1>2. /\ org' = [latest |-> org'.latest, callbacks |-> org'.callbacks, receiver |-> org'.receiver,
                 vault |-> org'.vault, stopped |-> org'.stopped, limit |-> org'.limit]
      /\ org'.latest = org.latest /\ org'.callbacks = org.callbacks /\ org'.receiver = org.receiver
      /\ Dao \in DOMAIN daos' /\ {"acl", "apps"} \subseteq DOMAIN daos'[Dao]
      /\ daos'[Dao].acl = daos[Dao].acl /\ daos'[Dao].apps = daos[Dao].apps
  BY <1>1, EnactedIs
<1>3. \A x \in LidoApps : Advances(x)
  BY <1>2 DEF Advances
<1>4. ChainOK' /\ OrgOK' /\ FileOK' /\ VotesOK' /\ PublishedInv'
  BY <1>1, <1>2, <1>3, EnactKeeps DEF OrgOK, SetupInv, PublishedInv
<1>5. CoverageInv' /\ FreshInv'
  BY <1>2, EnactUncovered
<1>6. DepositorInv'
  <2>1. UNCHANGED depositors
    BY DEF EnactVote
  <2> QED BY <1>2, <2>1 DEF SetupInv, DepositorInv
<1> QED BY <1>3, <1>4, <1>5, <1>6 DEF SetupInv

\* The vote of 28 sets the vault.
LEMMA EnactVaultKeeps ==
    ASSUME SetupInv, NEW i \in DOMAIN votes, EnactVote(i), NEW x, votes[i] = VaultVote(x)
    PROVE  SetupInv' /\ \A z \in LidoApps : Advances(z)
<1>1. Execute(CurrentDao, votes[i]) # Reverted
  BY DEF EnactVote
<1>2. Execute(CurrentDao, votes[i])
        = TheDao(org.latest, org.callbacks, org.receiver, x, org.stopped, org.limit,
                 daos[Dao].acl, daos[Dao].apps)
  BY <1>1, CurrentDaoIs, VaultVoteIs DEF CurrentIs
<1> QED BY <1>2, EnactAsideKeeps

\* The vote of 31 resumes the protocol.
LEMMA EnactStartKeeps ==
    ASSUME SetupInv, NEW i \in DOMAIN votes, EnactVote(i), votes[i] = StartVote
    PROVE  SetupInv' /\ \A z \in LidoApps : Advances(z)
<1>1. Execute(CurrentDao, votes[i]) # Reverted
  BY DEF EnactVote
<1>2. PICK s : Execute(CurrentDao, votes[i])
                 = TheDao(org.latest, org.callbacks, org.receiver, org.vault, s, org.limit,
                          daos[Dao].acl, daos[Dao].apps)
  BY <1>1, CurrentDaoIs, StartVoteIs DEF CurrentIs
<1> QED BY <1>2, EnactAsideKeeps

\* The vote of 20 publishes and installs two bases, and creates the
\* permission to deposit, which has no manager until then.
LEMMA EnactDepositsKeeps ==
    ASSUME SetupInv, NEW i \in DOMAIN votes, EnactVote(i),
           NEW version1 \in Nat \X Nat, NEW version2 \in Nat \X Nat, NEW base1 \in Nat, NEW base2 \in Nat,
           NEW d \in DOMAIN depositors, NEW limits \in Limits,
           NotBehind("lido", version1, base1), NotBehind(Operators, version2, base2),
           votes[i] = DepositsVote(version1, base1, version2, base2, d, limits)
    PROVE  SetupInv' /\ \A z \in LidoApps : Advances(z)
<1> DEFINE l1 == Publication(org.latest, "lido", version1, base1)
           l2 == Publication(l1, Operators, version2, base2)
           acl == Create(daos[Dao].acl, DepositRole, Entity(d), "voting")
           apps == [[daos[Dao].apps EXCEPT !["lido"] = base1] EXCEPT ![Operators] = base2]
<1>0. /\ "lido" \in LidoApps /\ Operators \in LidoApps /\ "lido" # Operators
  BY SetupAssumption DEF Operators
<1>1. /\ OrgOK
      /\ Execute(CurrentDao, votes[i]) # Reverted
  BY DEF SetupInv, EnactVote
<1>2. PICK n : /\ ValidVersion(org.latest["lido"], version1, base1)
               /\ ValidVersion(l1[Operators], version2, base2)
               /\ CanCreate(daos[Dao].acl, DepositRole)
               /\ Execute(CurrentDao, votes[i])
                    = TheDao(l2, org.callbacks, org.receiver, org.vault, org.stopped, n, acl, apps)
  <2> DEFINE dao == TheDao(org.latest, org.callbacks, org.receiver, org.vault, org.stopped, org.limit,
                           daos[Dao].acl, daos[Dao].apps)
  <2>1. Execute(CurrentDao, votes[i])
          = Execute(dao, DepositsVote(version1, base1, version2, base2, d, limits))
    BY CurrentDaoIs DEF CurrentIs
  <2>2. Execute(dao, DepositsVote(version1, base1, version2, base2, d, limits)) # Reverted
    BY <1>1, <2>1
  <2>3. limits \in Limits
    OBVIOUS
  <2>4. Upgraded(org.latest, org.callbacks, org.receiver, org.vault, org.stopped, daos[Dao].acl, daos[Dao].apps,
                 version1, base1, version2, base2, d,
                 Execute(dao, DepositsVote(version1, base1, version2, base2, d, limits)))
    BY ONLY <2>2, <2>3, DepositsIs DEF dao
  <2> QED BY <2>1, <2>4 DEF Upgraded
<1>3. /\ DOMAIN l2 = LidoApps /\ l2 = [x \in LidoApps |-> l2[x]]
      /\ l1[Operators] = org.latest[Operators]
      /\ l2["lido"] = [version |-> version1, base |-> base1]
      /\ l2[Operators] = [version |-> version2, base |-> base2]
      /\ \A x \in LidoApps \ {"lido", Operators} : l2[x] = org.latest[x]
  BY <1>0, <1>1 DEF OrgOK, Publication
<1>4. /\ apps \in [LidoApps -> Nat]
      /\ apps["lido"] = base1 /\ apps[Operators] = base2
      /\ \A x \in LidoApps \ {"lido", Operators} : apps[x] = daos[Dao].apps[x]
  BY <1>0, <1>1 DEF OrgOK
<1>5. \A p : /\ p \in DepositRole => Manager(acl, p) = "voting"
                                     /\ Grantees(acl, p) = Grantees(daos[Dao].acl, p) \cup {Entity(d)}
             /\ p \notin DepositRole => Grantees(acl, p) = Grantees(daos[Dao].acl, p)
  BY CreateIs
<1> HIDE DEF l1, l2, acl, apps
<1>6. /\ org' = [latest |-> org'.latest, callbacks |-> org'.callbacks, receiver |-> org'.receiver,
                 vault |-> org'.vault, stopped |-> org'.stopped, limit |-> org'.limit]
      /\ org'.latest = l2 /\ org'.callbacks = org.callbacks /\ org'.receiver = org.receiver
      /\ Dao \in DOMAIN daos' /\ {"acl", "apps"} \subseteq DOMAIN daos'[Dao]
      /\ daos'[Dao].acl = acl /\ daos'[Dao].apps = apps
  BY <1>1, <1>2, EnactedIs
<1>7. ASSUME NEW x \in LidoApps PROVE Advances(x)
  <2>1. CASE x = "lido"
    BY <1>2, <1>3, <1>6, <2>1 DEF Advances
  <2>2. CASE x = Operators
    BY <1>2, <1>3, <1>6, <2>2 DEF Advances
  <2>3. CASE x \notin {"lido", Operators}
    BY <1>3, <1>6, <2>3 DEF Advances
  <2> QED BY <2>1, <2>2, <2>3
<1>8. ASSUME NEW x \in LidoApps PROVE daos'[Dao].apps[x] <= org'.latest[x].base
  <2>1. CASE x = "lido"
    BY <1>3, <1>4, <1>6, <2>1
  <2>2. CASE x = Operators
    BY <1>3, <1>4, <1>6, <2>2
  <2>3. CASE x \notin {"lido", Operators}
    BY <1>3, <1>4, <1>6, <2>3 DEF SetupInv, PublishedInv
  <2> QED BY <2>1, <2>2, <2>3
<1>9. ChainOK' /\ OrgOK' /\ FileOK' /\ VotesOK' /\ PublishedInv'
  BY <1>1, <1>3, <1>4, <1>6, <1>7, <1>8, EnactKeeps DEF OrgOK
<1>10. CoverageInv' /\ FreshInv'
  BY <1>5, <1>6, EnactUncovered, RolesOfVotesApart
<1>11. DepositorInv'
  <2> SUFFICES ASSUME NEW p \in DepositRole
               PROVE  /\ Manager(daos'[Dao].acl, p) = "voting"
                      /\ \E x \in DOMAIN depositors' : Grantees(daos'[Dao].acl, p) = {Entity(x)}
    BY DEF DepositorInv
  <2>1. Manager(daos[Dao].acl, p) = Nobody
    BY <1>2 DEF CanCreate
  <2>2. Grantees(daos[Dao].acl, p) = {}
    BY <2>1 DEF SetupInv, DepositorInv, Nobody
  <2>3. Grantees(daos'[Dao].acl, p) = {Entity(d)} /\ Manager(daos'[Dao].acl, p) = "voting"
    BY <1>5, <1>6, <2>2
  <2>4. d \in DOMAIN depositors'
    BY DEF EnactVote
  <2> QED BY <2>3, <2>4
<1> QED BY <1>7, <1>9, <1>10, <1>11 DEF SetupInv

\* The vote of 25 pairs a composite receiver with a burner.
LEMMA EnactCoverageKeeps ==
    ASSUME SetupInv, NEW i \in DOMAIN votes, EnactVote(i),
           NEW x \in DOMAIN org.callbacks, NEW y \in Addresses, votes[i] = CoverageVote(x, y)
    PROVE  SetupInv' /\ \A z \in LidoApps : Advances(z)
<1> DEFINE callbacks == [org.callbacks EXCEPT ![x] = Append(org.callbacks[x], y)]
           revoked == Revoke(daos[Dao].acl, BurnRole, "voting")
           acl == Grant(revoked, BurnRole, Entity(y))
<1>1. /\ OrgOK
      /\ Execute(CurrentDao, votes[i]) # Reverted
      /\ UNCHANGED <<chain, file, depositors, keys>>
  BY DEF SetupInv, EnactVote
<1>2. Execute(CurrentDao, votes[i])
        = TheDao(org.latest, callbacks, x, org.vault, org.stopped, org.limit, acl, daos[Dao].apps)
  BY <1>1, CurrentDaoIs, CoverageIs DEF CurrentIs
<1>3. /\ callbacks \in [DOMAIN org.callbacks -> Seq(Addresses)]
      /\ callbacks[x] = Append(org.callbacks[x], y)
      /\ org.callbacks[x] \in Seq(Addresses)
      /\ \A c \in DOMAIN org.callbacks : c # x => callbacks[c] = org.callbacks[c]
  <2>1. org.callbacks \in [DOMAIN org.callbacks -> Seq(Addresses)]
    BY <1>1 DEF OrgOK
  <2> QED BY <2>1
<1>4. /\ \A p \in BurnRole : Grantees(acl, p) = (Grantees(daos[Dao].acl, p) \ {"voting"}) \cup {Entity(y)}
      /\ \A p \in DepositRole : /\ Manager(acl, p) = Manager(daos[Dao].acl, p)
                                /\ Grantees(acl, p) = Grantees(daos[Dao].acl, p)
  <2>1. \A p : /\ Manager(revoked, p) = Manager(daos[Dao].acl, p)
               /\ p \in BurnRole => Grantees(revoked, p) = Grantees(daos[Dao].acl, p) \ {"voting"}
               /\ p \notin BurnRole => Grantees(revoked, p) = Grantees(daos[Dao].acl, p)
    BY RevokeIs
  <2> HIDE DEF revoked
  <2>2. \A p : /\ Manager(acl, p) = Manager(revoked, p)
               /\ p \in BurnRole => Grantees(acl, p) = Grantees(revoked, p) \cup {Entity(y)}
               /\ p \notin BurnRole => Grantees(acl, p) = Grantees(revoked, p)
    BY GrantIs
  <2> HIDE DEF acl
  <2> QED BY <2>1, <2>2, RolesOfVotesApart
<1> HIDE DEF callbacks, acl, revoked
<1>5. /\ org' = [latest |-> org'.latest, callbacks |-> org'.callbacks, receiver |-> org'.receiver,
                 vault |-> org'.vault, stopped |-> org'.stopped, limit |-> org'.limit]
      /\ org'.latest = org.latest /\ org'.callbacks = callbacks /\ org'.receiver = x
      /\ org'.vault = org.vault
      /\ Dao \in DOMAIN daos' /\ {"acl", "apps"} \subseteq DOMAIN daos'[Dao]
      /\ daos'[Dao].acl = acl /\ daos'[Dao].apps = daos[Dao].apps
  BY <1>1, <1>2, EnactedIs
<1>6. \A a \in LidoApps : Advances(a)
  BY <1>5 DEF Advances
<1>7. ChainOK' /\ OrgOK' /\ FileOK' /\ VotesOK' /\ PublishedInv'
  BY <1>1, <1>3, <1>5, <1>6, EnactKeeps DEF OrgOK, SetupInv, PublishedInv
<1>8. DepositorInv'
  BY <1>1, <1>4, <1>5 DEF SetupInv, DepositorInv
<1>9. /\ \A c, b : Planned(c, b)' => Planned(c, b)
      /\ ~NoneEnacted'
      /\ OneEnacted' => NoneEnacted
      /\ Len(votes') <= 2 => OneEnacted
  BY EnactedVotes DEF SetupInv
<1>10. Planned(x, y) /\ x \in Addresses
  <2>1. x \in DOMAIN chain /\ chain \in Seq(Transactions) /\ Len(chain) <= MaxChain
    BY DEF SetupInv, ChainOK
  <2> QED BY <2>1, TemplateAssumption DEF Planned, Addresses
<1>11. \A c, b : Called(c, b)' <=> Called(c, b) \/ (c = x /\ b = y)
  <2>1. \A b : (\E k \in DOMAIN callbacks[x] : callbacks[x][k] = b)
                 <=> (\E k \in DOMAIN org.callbacks[x] : org.callbacks[x][k] = b) \/ b = y
    <3> DEFINE list == org.callbacks[x]
    <3>1. /\ DOMAIN callbacks[x] = 1 .. Len(list) + 1 /\ DOMAIN list = 1 .. Len(list) /\ Len(list) \in Nat
          /\ \A k \in DOMAIN list : callbacks[x][k] = list[k]
          /\ callbacks[x][Len(list) + 1] = y
      BY <1>3
    <3> HIDE DEF list
    <3>2. ASSUME NEW b
          PROVE  (\E k \in DOMAIN callbacks[x] : callbacks[x][k] = b) <=> (\E k \in DOMAIN list : list[k] = b) \/ b = y
      <4>1. ASSUME NEW k \in DOMAIN callbacks[x], callbacks[x][k] = b
            PROVE  (\E n \in DOMAIN list : list[n] = b) \/ b = y
        <5>1. k \in DOMAIN list \/ k = Len(list) + 1
          BY <3>1
        <5> QED BY <3>1, <4>1, <5>1
      <4>2. ASSUME NEW k \in DOMAIN list, list[k] = b PROVE \E n \in DOMAIN callbacks[x] : callbacks[x][n] = b
        BY <3>1, <4>2
      <4>3. ASSUME b = y PROVE \E n \in DOMAIN callbacks[x] : callbacks[x][n] = b
        <5>1. Len(list) + 1 \in DOMAIN callbacks[x]
          BY <3>1
        <5> QED BY <3>1, <4>3, <5>1
      <4> QED BY <4>1, <4>2, <4>3
    <3> QED BY <3>2 DEF list
  <2>2. DOMAIN callbacks = DOMAIN org.callbacks
    BY <1>3
  <2>3. \A c, b : Called(c, b)' <=> c \in DOMAIN callbacks /\ \E k \in DOMAIN callbacks[c] : callbacks[c][k] = b
    BY <1>5 DEF Called
  <2>4. ASSUME NEW c, NEW b PROVE Called(c, b)' <=> Called(c, b) \/ (c = x /\ b = y)
    <3>1. CASE c = x
      <4>1. Called(x, b)' <=> \E k \in DOMAIN callbacks[x] : callbacks[x][k] = b
        BY <1>3, <2>2, <2>3
      <4>2. Called(x, b) <=> \E k \in DOMAIN org.callbacks[x] : org.callbacks[x][k] = b
        BY <1>3, <2>2 DEF Called
      <4> QED BY <2>1, <3>1, <4>1, <4>2
    <3>2. CASE c # x
      <4>1. c \in DOMAIN org.callbacks => callbacks[c] = org.callbacks[c]
        BY <1>3, <3>2
      <4>2. Called(c, b) <=> c \in DOMAIN org.callbacks /\ \E k \in DOMAIN org.callbacks[c] : org.callbacks[c][k] = b
        BY DEF Called
      <4>3. Called(c, b)' <=> c \in DOMAIN org.callbacks /\ \E k \in DOMAIN callbacks[c] : callbacks[c][k] = b
        BY <2>2, <2>3
      <4> HIDE DEF Called
      <4> QED BY <3>2, <4>1, <4>2, <4>3
    <3> QED BY <3>1, <3>2
  <2> QED BY <2>4
<1>12. \A c, b : Paired(c, b)' => Paired(c, b)
  BY <1>9, <1>10, <1>11 DEF Paired
<1>13. CoverageInv'
  <2>1. \A c, b \in Addresses : Paired(c, b)' => c <= file'.composite /\ b <= file'.burner
    BY <1>1, <1>12 DEF SetupInv, CoverageInv
  <2>2. \A c1, b1, c2, b2 \in Addresses : Paired(c1, b1)' /\ Paired(c2, b2)' /\ c1 < c2 => b1 <= b2
    BY <1>12 DEF SetupInv, CoverageInv
  <2>3. \E b \in Addresses : Called(org.receiver, b)'
    <3>1. Called(org.receiver, y)'
      BY <1>5, <1>11
    <3> QED BY <3>1
  <2>4. ASSUME NEW p \in BurnRole
        PROVE  Grantees(daos'[Dao].acl, p) = {Entity(b) : b \in {z \in Addresses : \E c \in Addresses : Called(c, z)'}}
    <3> DEFINE before == {z \in Addresses : \E c \in Addresses : Called(c, z)}
               after == {z \in Addresses : \E c \in Addresses : Called(c, z)'}
    <3>1. after = before \cup {y}
      BY <1>10, <1>11
    <3>2. Grantees(daos[Dao].acl, p) \ {"voting"} = {Entity(b) : b \in before}
      <4>1. CASE Grantees(daos[Dao].acl, p) = {"voting"} /\ before = {}
        BY <4>1
      <4>2. CASE Grantees(daos[Dao].acl, p) = {Entity(b) : b \in before}
        <5>1. \A b \in before : Entity(b) # "voting"
          BY SetupAssumption DEF Addresses
        <5> HIDE DEF before
        <5> QED BY <4>2, <5>1
      <4> QED BY <4>1, <4>2 DEF SetupInv, CoverageInv
    <3>3. Grantees(daos'[Dao].acl, p) = {Entity(b) : b \in before} \cup {Entity(y)}
      BY <1>4, <1>5, <3>2
    <3> HIDE DEF before, after
    <3>4. Grantees(daos'[Dao].acl, p) = {Entity(b) : b \in after}
      BY <3>1, <3>3
    <3> QED BY <3>4 DEF after
  <2> QED BY <2>1, <2>2, <2>3, <2>4 DEF CoverageInv
<1>14. NoCoverage => OneCoverage'
  <2> SUFFICES ASSUME NoCoverage PROVE OneCoverage'
    OBVIOUS
  <2>1. callbacks[x] = <<y>>
    <3>1. org.callbacks[x] = <<>>
      BY DEF NoCoverage
    <3> QED BY <1>3, <3>1
  <2>2. \A p \in BurnRole : Grantees(acl, p) = {Entity(y)}
    BY <1>4 DEF NoCoverage
  <2>3. x \in DOMAIN callbacks
    BY <1>3
  <2> QED BY <1>5, <2>1, <2>2, <2>3 DEF OneCoverage
<1>15. FreshInv'
  BY <1>5, <1>9, <1>14 DEF SetupInv, FreshInv
<1> QED BY <1>6, <1>7, <1>8, <1>13, <1>15 DEF SetupInv

\* Whatever vote it is.
LEMMA EnactVoteKeeps ==
    ASSUME SetupInv, NEW i \in DOMAIN votes, EnactVote(i)
    PROVE  SetupInv' /\ \A z \in LidoApps : Advances(z)
<1> DEFINE Kept == SetupInv' /\ \A z \in LidoApps : Advances(z)
<1>1. VoteOK(votes[i]) /\ votes[i] # Enacted
  BY DEF SetupInv, VotesOK, EnactVote
<1>2. ASSUME NEW a \in LidoApps, NEW version \in Nat \X Nat, NEW base \in Nat,
             NotBehind(a, version, base), votes[i] = PublicationVote(a, version, base)
      PROVE  Kept
  BY <1>2, EnactPublicationKeeps
<1>3. ASSUME NEW version1 \in Nat \X Nat, NEW version2 \in Nat \X Nat, NEW base1 \in Nat, NEW base2 \in Nat,
             NEW d \in DOMAIN depositors, NEW limits \in Limits,
             NotBehind("lido", version1, base1), NotBehind(Operators, version2, base2),
             votes[i] = DepositsVote(version1, base1, version2, base2, d, limits)
      PROVE  Kept
  BY <1>3, EnactDepositsKeeps
<1>4. ASSUME NEW c \in DOMAIN org.callbacks, NEW b \in Addresses, votes[i] = CoverageVote(c, b)
      PROVE  Kept
  BY <1>4, EnactCoverageKeeps
<1>5. ASSUME NEW x \in Nat, votes[i] = VaultVote(x) PROVE Kept
  BY <1>5, EnactVaultKeeps
<1>6. ASSUME votes[i] = StartVote PROVE Kept
  BY <1>6, EnactStartKeeps
<1> HIDE DEF Kept
<1>7. Kept
  BY <1>1, <1>2, <1>3, <1>4, <1>5, <1>6 DEF VoteOK
<1> QED BY <1>7 DEF Kept

-----------------------------------------------------------------------------
(* Saving votes *)

\* A script reads the version a repository has now, and the base of the file.
LEMMA BumpIs ==
    ASSUME SetupInv, NEW a \in LidoApps, NEW kind \in {"minor", "major"}
    PROVE  /\ Bump(org.latest[a].version, kind) \in Nat \X Nat
           /\ file.base[a] \in Nat
           /\ NotBehind(a, Bump(org.latest[a].version, kind), file.base[a])
<1>1. org.latest[a] \in Releases /\ file.base[a] \in Nat /\ org.latest[a].base <= file.base[a]
  BY DEF SetupInv, OrgOK, FileOK, PublishedInv
<1> DEFINE version == org.latest[a].version
<1>2. version \in Nat \X Nat /\ version[1] \in Nat /\ version[2] \in Nat
  BY <1>1 DEF Releases
<1> HIDE DEF version
<1>3. /\ Bump(version, kind) \in Nat \X Nat
      /\ Bump(version, kind)[1] \in {version[1], version[1] + 1}
  BY <1>2 DEF Bump
<1>4. Bump(version, kind)[1] <= version[1] + 1
  BY <1>2, <1>3
<1> QED BY <1>1, <1>3, <1>4 DEF NotBehind, version

\* upgrade-app saves a vote.
LEMMA VoteNewVersionKeeps ==
    ASSUME SetupInv, NEW a \in LidoApps, NEW kind \in {"minor", "major"}, VoteNewVersion(a, kind)
    PROVE  SetupInv'
<1> DEFINE version == Bump(org.latest[a].version, kind)
           base == file.base[a]
           calls == PublicationVote(a, version, base)
<1>1. version \in Nat \X Nat /\ base \in Nat /\ NotBehind(a, version, base)
  BY BumpIs
<1>2. SaveVote(calls)
  BY DEF VoteNewVersion, PublicationVote
<1> HIDE DEF version, base
<1>3. calls \in Votes /\ VoteOK(calls)
  BY <1>1 DEF Votes, VoteOK
<1>4. calls # Enacted /\ \A c, b : calls # CoverageVote(c, b)
  BY VotesApart
<1> HIDE DEF calls
<1> QED BY <1>2, <1>3, <1>4, SaveVoteKeeps

\* A sequence is the concatenation of its parts.
LEMMA JoinIs ==
    ASSUME NEW S, NEW s \in Seq(S), NEW t \in Seq(S), NEW u \in Seq(S),
           Len(u) = Len(s) + Len(t),
           \A i \in 1 .. Len(s) : u[i] = s[i],
           \A i \in 1 .. Len(t) : u[Len(s) + i] = t[i]
    PROVE  s \o t = u
<1>1. /\ s \o t \in Seq(S) /\ Len(s \o t) = Len(s) + Len(t)
      /\ \A i \in 1 .. Len(s) + Len(t) : (s \o t)[i] = IF i <= Len(s) THEN s[i] ELSE t[i - Len(s)]
  BY ConcatProperties
<1>2. ASSUME NEW i \in 1 .. Len(s) + Len(t) PROVE (s \o t)[i] = u[i]
  <2>1. Len(s) \in Nat /\ Len(t) \in Nat
    OBVIOUS
  <2>2. CASE i <= Len(s)
    BY <1>1, <2>1, <2>2
  <2>3. CASE i > Len(s)
    <3>1. i - Len(s) \in 1 .. Len(t) /\ Len(s) + (i - Len(s)) = i
      BY <2>1, <2>3
    <3>2. u[i] = t[i - Len(s)]
      BY <3>1
    <3> QED BY <1>1, <2>1, <2>3, <3>2
  <2> QED BY <2>1, <2>2, <2>3
<1>3. \A i \in 1 .. Len(s \o t) : (s \o t)[i] = u[i]
  BY <1>1, <1>2
<1>4. Len(s \o t) = Len(u)
  BY <1>1
<1> QED BY ONLY <1>1, <1>3, <1>4, u \in Seq(S), SeqEqual

\* The calls that 20 puts together.
LEMMA Joined ==
    ASSUME NEW a, NEW b, NEW c, NEW d, NEW e
    PROVE  <<a, b>> \o <<c, d>> \o <<e>> = <<a, b, c, d, e>>
<1> DEFINE S == {a, b, c, d, e}
           s == <<a, b>>
           t == <<c, d>>
           u == <<a, b, c, d>>
           v == <<e>>
           w == <<a, b, c, d, e>>
<1>1. s \in Seq(S) /\ t \in Seq(S) /\ u \in Seq(S) /\ v \in Seq(S) /\ w \in Seq(S)
  OBVIOUS
<1>2. /\ Len(s) = 2 /\ Len(t) = 2 /\ Len(u) = 4 /\ Len(v) = 1 /\ Len(w) = 5
      /\ u[1] = s[1] /\ u[2] = s[2] /\ u[3] = t[1] /\ u[4] = t[2]
      /\ w[1] = u[1] /\ w[2] = u[2] /\ w[3] = u[3] /\ w[4] = u[4] /\ w[5] = v[1]
  OBVIOUS
<1> HIDE DEF S, s, t, u, v, w
<1>3. s \o t = u
  <2>1. /\ Len(u) = Len(s) + Len(t)
        /\ \A i \in 1 .. Len(s) : u[i] = s[i]
        /\ \A i \in 1 .. Len(t) : u[Len(s) + i] = t[i]
    BY <1>2
  <2> QED BY <1>1, <2>1, JoinIs
<1>4. u \o v = w
  <2>1. /\ Len(w) = Len(u) + Len(v)
        /\ \A i \in 1 .. Len(u) : w[i] = u[i]
        /\ \A i \in 1 .. Len(v) : w[Len(u) + i] = v[i]
    BY <1>2
  <2> QED BY <1>1, <2>1, JoinIs
<1> QED BY <1>3, <1>4 DEF s, t, u, v, w

\* The vote of 20, with the bases and the depositor of the file.
LEMMA VoteDepositsKeeps == ASSUME SetupInv, VoteDeposits PROVE SetupInv'
<1> DEFINE version1 == Bump(org.latest["lido"].version, "major")
           version2 == Bump(org.latest[Operators].version, "major")
           base1 == file.base["lido"]
           base2 == file.base[Operators]
           d == file.depositor
           limits == IncreaseLimits
           calls == DepositsVote(version1, base1, version2, base2, d, limits)
<1>1. "lido" \in LidoApps /\ Operators \in LidoApps /\ "major" \in {"minor", "major"}
  BY SetupAssumption DEF Operators
<1>2. /\ version1 \in Nat \X Nat /\ base1 \in Nat /\ NotBehind("lido", version1, base1)
      /\ version2 \in Nat \X Nat /\ base2 \in Nat /\ NotBehind(Operators, version2, base2)
  BY <1>1, BumpIs
<1>3. limits \in Limits
  BY DEF IncreaseLimits, Limits, LimitCall, SetupInv, OrgOK
<1>4. d \in DOMAIN depositors /\ d \in Nat
  BY DEF VoteDeposits, SetupInv, FileOK
<1>5. SaveVote(calls)
  <2> DEFINE lido == <<NewVersion("lido", version1, base1), SetApp("lido", base1)>>
             operators == <<NewVersion(Operators, version2, base2), SetApp(Operators, base2)>>
             permission == <<WithRole("createPermission", DepositRole, d)>>
  <2>1. SaveVote(lido \o operators \o permission \o limits)
    BY DEF VoteDeposits, BuildUpgradeTransaction, Operators
  <2>2. lido \o operators \o permission = UpgradeCalls(version1, base1, version2, base2, d)
    <3> HIDE DEF version1, version2, base1, base2, d
    <3> QED BY Joined DEF UpgradeCalls
  <2> HIDE DEF lido, operators, permission, version1, version2, base1, base2, d, limits
  <2> QED BY <2>1, <2>2 DEF DepositsVote
<1> HIDE DEF version1, version2, base1, base2, d, limits
<1>6. calls \in Votes /\ VoteOK(calls)
  <2>1. calls \in {DepositsVote(v1, b1, v2, b2, x, ls) :
                     v1 \in Nat \X Nat, b1 \in Nat, v2 \in Nat \X Nat, b2 \in Nat, x \in Nat, ls \in Limits}
    BY <1>2, <1>3, <1>4
  <2>2. VoteOK(calls)
    BY <1>2, <1>3, <1>4 DEF VoteOK
  <2> QED BY <2>1, <2>2 DEF Votes
<1>7. calls # Enacted /\ \A c, b : calls # CoverageVote(c, b)
  BY <1>3, VotesApart
<1> HIDE DEF calls
<1> QED BY <1>5, <1>6, <1>7, SaveVoteKeeps

\* 25 pairs the composite receiver and the burner of the file.
LEMMA VoteCoverageKeeps == ASSUME SetupInv, VoteCoverage PROVE SetupInv'
<1> DEFINE x == file.composite
           y == file.burner
           calls == CoverageVote(x, y)
<1>1. x \in DOMAIN org.callbacks /\ x \in Nat /\ y \in Nat /\ y \in Addresses
  <2>1. /\ file.composite \in DOMAIN org.callbacks /\ file.burner \in DOMAIN chain
        /\ file.composite \in Nat /\ file.burner \in Nat
    BY DEF VoteCoverage, SetupInv, FileOK
  <2>2. chain \in Seq(Transactions) /\ Len(chain) <= MaxChain
    BY DEF SetupInv, ChainOK
  <2> QED BY <2>1, <2>2, TemplateAssumption DEF Addresses
<1>2. SaveVote(calls)
  BY DEF VoteCoverage, CoverageVote
<1>3. \A c, b : calls = CoverageVote(c, b) => c = x /\ b = y
  BY VotesApart
<1> HIDE DEF x, y
<1>4. calls \in Votes /\ VoteOK(calls)
  BY <1>1 DEF Votes, VoteOK
<1>5. calls # Enacted
  BY VotesApart
<1> HIDE DEF calls
<1> QED BY <1>2, <1>3, <1>4, <1>5, SaveVoteKeeps DEF x, y

\* 28 saves a vote for the vault of the file.
LEMMA VoteELRewardsKeeps == ASSUME SetupInv, VoteELRewards PROVE SetupInv'
<1> DEFINE x == file.vault
           calls == VaultVote(x)
<1>1. x \in Nat
  BY DEF SetupInv, FileOK
<1>2. SaveVote(calls)
  BY DEF VoteELRewards, VaultVote
<1> HIDE DEF x
<1>3. calls \in Votes /\ VoteOK(calls)
  BY <1>1 DEF Votes, VoteOK
<1>4. calls # Enacted /\ \A c, b : calls # CoverageVote(c, b)
  BY VotesApart
<1> HIDE DEF calls
<1> QED BY <1>2, <1>3, <1>4, SaveVoteKeeps

\* 31 saves the vote that starts the protocol.
LEMMA VoteStartKeeps == ASSUME SetupInv, VoteStart PROVE SetupInv'
<1>1. SaveVote(StartVote)
  BY DEF VoteStart, StartVote
<1>2. StartVote \in Votes /\ VoteOK(StartVote)
  BY DEF Votes, VoteOK
<1>3. StartVote # Enacted /\ \A c, b : StartVote # CoverageVote(c, b)
  BY VotesApart
<1> QED BY <1>1, <1>2, <1>3, SaveVoteKeeps

-----------------------------------------------------------------------------
(* Addresses in the file *)

\* A newer base of an application.
LEMMA ObtainBaseKeeps ==
    ASSUME SetupInv, NEW a \in LidoApps, NEW tx \in Creations, ObtainBase(a, tx)
    PROVE  SetupInv'
<1>1. tx \in Nat
  BY DEF Creations, SetupInv, ChainOK
<1>2. /\ file' = [file EXCEPT !.base[a] = tx]
      /\ tx >= file.base[a]
      /\ UNCHANGED <<chain, org, daos, votes, depositors, keys>>
  BY DEF ObtainBase, Obtained, templateVars
<1>3. FileOK'
  BY <1>1, <1>2 DEF SetupInv, FileOK
<1>4. \A x \in LidoApps : file.base[x] <= file'.base[x]
  BY <1>1, <1>2 DEF SetupInv, FileOK
<1>5. file.composite <= file'.composite /\ file.burner <= file'.burner
  BY <1>2 DEF SetupInv, FileOK
<1> QED BY <1>2, <1>3, <1>4, <1>5, ObtainKeeps

\* The other addresses are of one contract each.
LEMMA ObtainOthersKeep ==
    ASSUME SetupInv, NEW tx \in Creations,
           ObtainDepositor(tx) \/ ObtainComposite(tx) \/ ObtainBurner(tx) \/ ObtainVault(tx)
    PROVE  SetupInv'
<1>1. tx \in Nat /\ tx \in DOMAIN chain
  BY DEF Creations, SetupInv, ChainOK
<1>2. /\ file \in [base : [LidoApps -> Nat], depositor : Nat, previousDepositor : Nat,
                   composite : Nat, burner : Nat, vault : Nat]
      /\ file.depositor \in DOMAIN depositors \cup {None}
      /\ file.composite \in DOMAIN org.callbacks \cup {None}
      /\ file.burner \in DOMAIN chain \cup {None}
  BY DEF SetupInv, FileOK
<1>3. UNCHANGED <<chain, org, daos, votes, depositors, keys>>
  BY DEF ObtainDepositor, ObtainComposite, ObtainBurner, ObtainVault, templateVars
<1>4. /\ file' \in [base : [LidoApps -> Nat], depositor : Nat, previousDepositor : Nat,
                    composite : Nat, burner : Nat, vault : Nat]
      /\ file'.depositor \in DOMAIN depositors \cup {None}
      /\ file'.composite \in DOMAIN org.callbacks \cup {None}
      /\ file'.burner \in DOMAIN chain \cup {None}
      /\ file'.base = file.base
      /\ file.composite <= file'.composite /\ file.burner <= file'.burner
  <2>1. CASE ObtainDepositor(tx)
    <3>1. HasCode(tx, "depositor")
      BY <2>1 DEF ObtainDepositor, Obtained
    <3>2. tx \in DOMAIN depositors
      BY <1>1, <3>1 DEF SetupInv, ChainOK
    <3> DEFINE previous == IF file.depositor \notin {None, tx} THEN file.depositor ELSE file.previousDepositor
    <3>3. previous \in Nat
      BY <1>2
    <3>4. file' = [file EXCEPT !.depositor = tx, !.previousDepositor = previous]
      BY <2>1 DEF ObtainDepositor
    <3> HIDE DEF previous
    <3> DEFINE x == [base |-> file.base, depositor |-> tx, previousDepositor |-> previous,
                     composite |-> file.composite, burner |-> file.burner, vault |-> file.vault]
    <3>5. /\ file.base \in [LidoApps -> Nat] /\ file.composite \in Nat /\ file.burner \in Nat
          /\ file.vault \in Nat
      BY <1>2
    <3>6. x \in [base : [LidoApps -> Nat], depositor : Nat, previousDepositor : Nat,
                 composite : Nat, burner : Nat, vault : Nat]
      BY <1>1, <3>3, <3>5
    <3>7. file' = x
      BY <1>2, <3>4
    <3>8. x.depositor = tx /\ x.composite = file.composite /\ x.burner = file.burner /\ x.base = file.base
      OBVIOUS
    <3> HIDE DEF x
    <3> QED BY <1>2, <3>2, <3>5, <3>6, <3>7, <3>8
  <2>2. CASE ObtainComposite(tx)
    <3>1. HasCode(tx, "composite") /\ tx >= file.composite /\ file' = [file EXCEPT !.composite = tx]
      BY <2>2 DEF ObtainComposite, Obtained
    <3>2. tx \in DOMAIN org.callbacks
      BY <1>1, <3>1 DEF SetupInv, ChainOK
    <3> QED BY <1>1, <1>2, <3>1, <3>2
  <2>3. CASE ObtainBurner(tx)
    <3>1. tx >= file.burner /\ file' = [file EXCEPT !.burner = tx]
      BY <2>3 DEF ObtainBurner, Obtained
    <3> QED BY <1>1, <1>2, <3>1
  <2>4. CASE ObtainVault(tx)
    <3>1. file' = [file EXCEPT !.vault = tx]
      BY <2>4 DEF ObtainVault
    <3> QED BY <1>1, <1>2, <3>1
  <2> QED BY <2>1, <2>2, <2>3, <2>4
<1>5. FileOK'
  BY <1>3, <1>4 DEF FileOK
<1>6. \A a \in LidoApps : file.base[a] <= file'.base[a]
  BY <1>2, <1>4
<1> QED BY <1>3, <1>4, <1>5, <1>6, ObtainKeeps

-----------------------------------------------------------------------------
(* The steps of the setup *)

\* 13, 16, 21, 23, 26 and 29 deploy instances.
LEMMA DeploymentsKeep ==
    ASSUME SetupInv,
           \/ \E a \in LidoApps : DeployBase(a)
           \/ DeployDepositor \/ DeployNewDepositor \/ DeployComposite \/ DeployBurner \/ DeployVault
    PROVE  SetupInv'
<1>1. /\ "depositor" \in LidoApps \cup Companions /\ "composite" \in LidoApps \cup Companions
      /\ "burner" \in LidoApps \cup Companions /\ "vault" \in LidoApps \cup Companions
      /\ \A a \in LidoApps : a \in LidoApps \cup Companions /\ a # "depositor" /\ a # "composite"
  BY SetupAssumption DEF Companions
<1>2. ASSUME NEW a \in LidoApps, DeployBase(a) PROVE SetupInv'
  <2>1. Deploy(a) /\ UNCHANGED <<file, votes, keys, org, depositors>>
    BY <1>2 DEF DeployBase, DeployInstance
  <2> QED BY <1>1, <2>1, DeployKeeps
<1>3. ASSUME DeployDepositor PROVE SetupInv'
  <2>1. Deploy("depositor") /\ UNCHANGED <<file, votes, keys, org>>
    BY <1>3 DEF DeployDepositor, DeployInstance
  <2>2. DOMAIN depositors' = DOMAIN depositors \cup {Len(chain) + 1}
    BY <1>3 DEF DeployDepositor, Created
  <2> QED BY <1>1, <2>1, <2>2, DeployKeeps
<1>4. ASSUME DeployComposite PROVE SetupInv'
  <2>1. /\ Deploy("composite") /\ UNCHANGED <<file, votes, keys, depositors>>
        /\ org' = [org EXCEPT !.callbacks = Created(@, Len(chain) + 1, <<>>)]
    BY <1>4 DEF DeployComposite, DeployInstance
  <2> QED BY <1>1, <2>1, DeployKeeps
<1>5. ASSUME DeployBurner PROVE SetupInv'
  <2>1. Deploy("burner") /\ UNCHANGED <<file, votes, keys, org, depositors>>
    BY <1>5 DEF DeployBurner, DeployInstance
  <2> QED BY <1>1, <2>1, DeployKeeps
<1>6. ASSUME DeployVault PROVE SetupInv'
  <2>1. Deploy("vault") /\ UNCHANGED <<file, votes, keys, org, depositors>>
    BY <1>6 DEF DeployVault, DeployInstance
  <2> QED BY <1>1, <2>1, DeployKeeps
<1> QED BY <1>2, <1>3, <1>4, <1>5, <1>6 DEF DeployNewDepositor

\* 18, 19 and 30, and whoever owns them, change depositors, or what is saved for them.
LEMMA AsideKeeps ==
    ASSUME SetupInv,
           \/ AddSigningKeys
           \/ SaveAddGuardians \/ SendAddGuardians \/ SaveTransferOwnership \/ SendTransferOwnership
           \/ SaveInitializeDepositor \/ SendInitializeDepositor
           \/ \E d, old, new : ReplaceGuardian(d, old, new)
    PROVE  SetupInv'
<1>1. UNCHANGED <<chain, org, daos, votes, file>>
  BY DEF AddSigningKeys, SaveAddGuardians, SendAddGuardians, AddGuardians, SaveTransferOwnership,
         SendTransferOwnership, SaveInitializeDepositor, SendInitializeDepositor, ReplaceGuardian, templateVars
<1>2. DOMAIN depositors' = DOMAIN depositors
  BY DEF AddSigningKeys, SaveAddGuardians, SendAddGuardians, AddGuardians, SaveTransferOwnership,
         SendTransferOwnership, SaveInitializeDepositor, SendInitializeDepositor, ReplaceGuardian
<1>3. keys' \in Nat
  <2>1. keys \in Nat
    BY DEF SetupInv, OrgOK
  <2>2. keys' \in {keys, keys + 1}
    BY DEF AddSigningKeys, SaveAddGuardians, SendAddGuardians, AddGuardians, SaveTransferOwnership,
           SendTransferOwnership, SaveInitializeDepositor, SendInitializeDepositor, ReplaceGuardian
  <2> QED BY <2>1, <2>2
<1> QED BY <1>1, <1>2, <1>3, StillKeeps

\* Every script, every sent transaction and every enacted vote keeps the
\* invariant.
LEMMA SetupInvStep == SetupInv /\ [SetupNext]_setupVars => SetupInv'
<1> SUFFICES ASSUME SetupInv, [SetupNext]_setupVars PROVE SetupInv'
  OBVIOUS
<1>1. CASE UNCHANGED setupVars
  <2>1. UNCHANGED <<chain, org, daos, votes, file>> /\ DOMAIN depositors' = DOMAIN depositors /\ keys' = keys
    BY <1>1 DEF setupVars, templateVars
  <2>2. keys \in Nat
    BY DEF SetupInv, OrgOK
  <2> QED BY <2>1, <2>2, StillKeeps
<1>2. CASE \/ \E a \in LidoApps : DeployBase(a)
           \/ DeployDepositor \/ DeployNewDepositor \/ DeployComposite \/ DeployBurner \/ DeployVault
  BY <1>2, DeploymentsKeep
<1>3. CASE \/ AddSigningKeys
           \/ SaveAddGuardians \/ SendAddGuardians \/ SaveTransferOwnership \/ SendTransferOwnership
           \/ SaveInitializeDepositor \/ SendInitializeDepositor
           \/ \E d, old, new : ReplaceGuardian(d, old, new)
  BY <1>3, AsideKeeps
<1>4. CASE \E tx \in Creations :
              \/ ObtainDepositor(tx) \/ ObtainComposite(tx) \/ ObtainBurner(tx) \/ ObtainVault(tx)
              \/ \E a \in LidoApps : ObtainBase(a, tx)
  BY <1>4, ObtainBaseKeeps, ObtainOthersKeep
<1>5. CASE \/ \E a \in LidoApps, kind \in {"minor", "major"} : VoteNewVersion(a, kind)
           \/ VoteDeposits \/ VoteCoverage \/ VoteELRewards \/ VoteStart
  BY <1>5, VoteNewVersionKeeps, VoteDepositsKeeps, VoteCoverageKeeps, VoteELRewardsKeeps, VoteStartKeeps
<1>6. CASE \E i \in DOMAIN votes : EnactVote(i)
  BY <1>6, EnactVoteKeeps
<1> QED BY <1>1, <1>2, <1>3, <1>4, <1>5, <1>6 DEF SetupNext

\* The invariant holds.
LEMMA SetupInvHolds == SetupSpec => []SetupInv
BY SetupInvInit, SetupInvStep, PTL DEF SetupSpec

\* Only a vote changes what is published.
LEMMA OthersPublishNothing ==
    ASSUME [SetupNext]_setupVars, ~ \E i \in DOMAIN votes : EnactVote(i),
           OrgOK
    PROVE  org'.latest = org.latest
<1>1. CASE UNCHANGED org
  BY <1>1
<1>2. CASE DeployComposite
  <2>1. org = [latest |-> org.latest, callbacks |-> org.callbacks, receiver |-> org.receiver,
               vault |-> org.vault, stopped |-> org.stopped, limit |-> org.limit]
    BY DEF OrgOK
  <2> DEFINE callbacks == Created(org.callbacks, Len(chain) + 1, <<>>)
  <2>2. org' = [org EXCEPT !.callbacks = callbacks]
    BY <1>2 DEF DeployComposite
  <2> HIDE DEF callbacks
  <2> QED BY <2>1, <2>2
<1>3. SetupNext => UNCHANGED org \/ DeployComposite
  BY DEF SetupNext, DeployBase, ObtainBase, VoteNewVersion, SaveVote, DeployDepositor, ObtainDepositor,
         VoteDeposits, AddSigningKeys, DeployNewDepositor, SaveAddGuardians, SendAddGuardians, AddGuardians,
         SaveTransferOwnership, SendTransferOwnership, SaveInitializeDepositor, SendInitializeDepositor,
         ReplaceGuardian, ObtainComposite, DeployBurner, ObtainBurner, VoteCoverage, DeployVault, ObtainVault,
         VoteELRewards, VoteStart
<1> QED BY <1>1, <1>2, <1>3 DEF setupVars

-----------------------------------------------------------------------------
(* What follows *)

\* Bases are published in the order of their addresses, and installed once they
\* are: a vote that went stale, because a newer base was obtained after it was
\* saved, is behind the repository and reverts
\* (20-mitigating-deposit-front-running.js:128, upgrade-app.js:56).
THEOREM SetupPublishedInOrder == SetupSpec => PublishedInOrder
<1> DEFINE InOrder == \A a \in LidoApps :
                         /\ org'.latest[a].base >= org.latest[a].base
                         /\ org'.latest[a].base >= daos'[Dao].apps[a]
<1>1. ASSUME SetupInv, SetupInv', [SetupNext]_setupVars PROVE InOrder
  <2>1. ASSUME NEW a \in LidoApps
        PROVE  /\ org.latest[a].base \in Nat /\ org'.latest[a].base \in Nat
               /\ daos'[Dao].apps[a] \in Nat /\ daos'[Dao].apps[a] <= org'.latest[a].base
    BY <1>1 DEF SetupInv, OrgOK, PublishedInv, Releases
  <2>2. ASSUME NEW a \in LidoApps PROVE org.latest[a].base <= org'.latest[a].base
    <3>1. CASE \E i \in DOMAIN votes : EnactVote(i)
      <4>1. Advances(a) /\ UNCHANGED file
        BY <1>1, <3>1, EnactVoteKeeps DEF EnactVote
      <4> QED BY <1>1, <4>1, AdvancedIs
    <3>2. CASE ~ \E i \in DOMAIN votes : EnactVote(i)
      <4>1. org'.latest = org.latest
        BY <1>1, <3>2, OthersPublishNothing DEF SetupInv
      <4> QED BY <2>1, <4>1
    <3> QED BY <3>1, <3>2
  <2> QED BY <2>1, <2>2
<1>2. SetupInv /\ SetupInv' /\ [SetupNext]_setupVars => [InOrder]_setupVars
  BY <1>1
<1> QED BY <1>2, SetupInvHolds, PTL DEF SetupSpec, PublishedInOrder

\* The permission to deposit is of one contract at most, and that one is a
\* deposit security module: the permission is created by a vote, and the next
\* vote that would create it reverts (20-mitigating-deposit-front-running.js:56).
THEOREM SetupOneDepositor == SetupSpec => []OneDepositor
<1>1. ASSUME SetupInv PROVE OneDepositor
  <2> SUFFICES ASSUME NEW p \in DepositRole
               PROVE  /\ Cardinality(Grantees(daos[Dao].acl, p)) <= 1
                      /\ Grantees(daos[Dao].acl, p) \subseteq {Entity(d) : d \in DOMAIN depositors}
    BY DEF OneDepositor
  <2>1. CASE Grantees(daos[Dao].acl, p) = {}
    BY <2>1, FS_EmptySet
  <2>2. ASSUME NEW d \in DOMAIN depositors, Grantees(daos[Dao].acl, p) = {Entity(d)}
        PROVE  /\ Cardinality(Grantees(daos[Dao].acl, p)) <= 1
               /\ Grantees(daos[Dao].acl, p) \subseteq {Entity(x) : x \in DOMAIN depositors}
    <3>1. Cardinality({Entity(d)}) = 1
      BY FS_Singleton
    <3> QED BY <2>2, <3>1
  <2> QED BY <1>1, <2>1, <2>2 DEF SetupInv, DepositorInv
<1> QED BY <1>1, SetupInvHolds, PTL

\* What 12 reads of the file is in the chain.
LEMMA CheckedAre ==
    ASSUME SetupInv, NEW live, CheckDAO(live)
    PROVE  /\ org.receiver = file.composite /\ org.receiver \in DOMAIN org.callbacks
           /\ org.receiver # None /\ org.vault # None
           /\ org.receiver \in Addresses /\ file.burner \in Addresses
           /\ \A p \in BurnRole : Entity(file.burner) \in Grantees(daos[Dao].acl, p)
           /\ \A a, b \in Addresses : Entity(a) = Entity(b) => a = b
           /\ \A a \in Addresses : Entity(a) # "voting"
<1>1. /\ file.composite # None /\ file.burner # None /\ file.vault # None
      /\ org.vault = file.vault /\ org.receiver = file.composite
      /\ \A p \in BurnRole : Entity(file.burner) \in Grantees(daos[Dao].acl, p)
  BY DEF CheckDAO, AssertDAOConfig, AssertBurnRole
<1>2. file.composite \in DOMAIN org.callbacks /\ file.burner \in DOMAIN chain
  BY <1>1 DEF SetupInv, FileOK
<1>3. file.composite \in DOMAIN chain
  BY <1>2 DEF SetupInv, ChainOK
<1>4. DOMAIN chain \subseteq Addresses
  <2>1. chain \in Seq(Transactions) /\ Len(chain) <= MaxChain
    BY DEF SetupInv, ChainOK
  <2> QED BY <2>1, TemplateAssumption DEF Addresses
<1> QED BY <1>1, <1>2, <1>3, <1>4, SetupAssumption DEF Addresses

\* When 12 passes, whatever votes were enacted, the composite receiver of the
\* oracle calls the burner that has the permission to burn.  The check itself
\* only sees that the burner has the permission; the vote that granted it has
\* added the burner to a receiver, that one or an older one, and in the second
\* case votes pair the receiver with a burner that is no older
\* (12-check-dao.js:392, 25-vote-self-owned-steth-burner.js).
THEOREM SetupLiveCheckMeansWired == SetupSpec => []LiveCheckMeansWired
<1>1. ASSUME SetupInv, CheckDAO(TRUE) PROVE BurnIsWired
  <2> DEFINE c == org.receiver
             y == file.burner
             burners == {x \in Addresses : \E z \in Addresses : Called(z, x)}
             live == TRUE
  <2>1. /\ c = file.composite /\ c \in DOMAIN org.callbacks /\ c # None
        /\ c \in Addresses /\ y \in Addresses
        /\ \A p \in BurnRole : Entity(y) \in Grantees(daos[Dao].acl, p)
        /\ \A a, b \in Addresses : Entity(a) = Entity(b) => a = b
        /\ \A a \in Addresses : Entity(a) # "voting"
    <3>1. CheckDAO(live)
      BY <1>1
    <3> HIDE DEF live
    <3> QED BY <1>1, <3>1, CheckedAre
  <2>2. /\ \E b \in Addresses : Called(c, b)
        /\ \A p \in BurnRole : Grantees(daos[Dao].acl, p) = {Entity(b) : b \in burners}
    BY <1>1, <2>1 DEF SetupInv, CoverageInv
  <2>3. /\ \A z, b \in Addresses : Paired(z, b) => z <= c /\ b <= y
        /\ \A c1, b1, c2, b2 \in Addresses : Paired(c1, b1) /\ Paired(c2, b2) /\ c1 < c2 => b1 <= b2
    BY <1>1, <2>1 DEF SetupInv, CoverageInv
  <2> HIDE DEF c, y
  <2>4. Called(c, y)
    <3>1. PICK b \in Addresses : Called(c, b)
      BY <2>2
    <3>2. PICK p : p \in BurnRole
      BY DEF BurnRole
    <3>3. PICK x \in burners : Entity(y) = Entity(x)
      BY <2>1, <2>2, <3>2
    <3>4. PICK z \in Addresses : Called(z, y)
      BY <2>1, <3>3
    <3>5. b <= y /\ z <= c
      BY <2>1, <2>3, <3>1, <3>4 DEF Paired
    <3>6. CASE z = c
      BY <3>4, <3>6
    <3>7. CASE z < c
      <4>1. y <= b
        BY <2>1, <2>3, <3>1, <3>4, <3>7 DEF Paired
      <4>2. y \in Nat /\ b \in Nat
        BY <2>1, <3>1, TemplateAssumption DEF Addresses
      <4>3. b = y
        BY <3>5, <4>1, <4>2
      <4> QED BY <3>1, <4>3
    <3>8. z \in Nat /\ c \in Nat
      BY <2>1, <3>4, TemplateAssumption DEF Addresses
    <3> QED BY <3>5, <3>6, <3>7, <3>8
  <2>5. \A p \in BurnRole : "voting" \notin Grantees(daos[Dao].acl, p)
    BY <2>1, <2>2
  <2> QED BY <2>4, <2>5 DEF BurnIsWired, Called, c, y
<1>2. SetupInv => LiveCheckMeansWired
  BY <1>1 DEF LiveCheckMeansWired
<1> QED BY <1>2, SetupInvHolds, PTL

\* When 12 passes before the DAO is live, there were two votes, of 25 and of 28:
\* the burner is the only one that the receiver calls and the only one that has
\* the permission, also when a script was run again (12-check-dao.js:293).
THEOREM SetupFreshCheckMeansExact == SetupSpec => []FreshCheckMeansExact
<1>1. ASSUME SetupInv, CheckDAO(FALSE)
      PROVE  /\ org.callbacks[org.receiver] = <<file.burner>>
             /\ \A p \in BurnRole : Grantees(daos[Dao].acl, p) = {Entity(file.burner)}
  <2> DEFINE live == FALSE
  <2>1. /\ org.receiver # None /\ org.vault # None
        /\ file.burner \in Addresses
        /\ \A p \in BurnRole : Entity(file.burner) \in Grantees(daos[Dao].acl, p)
        /\ \A a, b \in Addresses : Entity(a) = Entity(b) => a = b
    <3>1. CheckDAO(live)
      BY <1>1
    <3> HIDE DEF live
    <3> QED BY <1>1, <3>1, CheckedAre
  <2>2. Len(votes) <= 2
    <3>1. Len(votes) = 2
      BY <1>1, Zenon DEF CheckDAO, AssertDAOConfig
    <3> QED BY <3>1
  <2>3. OneCoverage
    BY <1>1, <2>1, <2>2 DEF SetupInv, FreshInv, NoCoverage
  <2>4. PICK b \in Addresses : /\ org.callbacks[org.receiver] = <<b>>
                               /\ \A p \in BurnRole : Grantees(daos[Dao].acl, p) = {Entity(b)}
    BY <2>3 DEF OneCoverage
  <2>5. b = file.burner
    <3>1. PICK p : p \in BurnRole
      BY DEF BurnRole
    <3>2. Entity(file.burner) = Entity(b)
      BY <2>1, <2>4, <3>1
    <3> QED BY <2>1, <3>2
  <2> QED BY <2>4, <2>5
<1>2. SetupInv => FreshCheckMeansExact
  BY <1>1 DEF FreshCheckMeansExact
<1> QED BY <1>2, SetupInvHolds, PTL
=============================================================================
