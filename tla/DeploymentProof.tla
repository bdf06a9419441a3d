--------------------------- MODULE DeploymentProof --------------------------
(***************************************************************************)
(* Proofs about the deployment of a DAO, for any applications, holders,    *)
(* sizes of a batch, numbers of creations and of transactions, and for any *)
(* order in which scripts are run and what they saved is sent.             *)
(***************************************************************************)
EXTENDS DeploymentProperties, SharedLemmas

-----------------------------------------------------------------------------
(* Holders and their batches *)

LEMMA HoldersFinite == DeploymentAssumption => IsFiniteSet(Holders)
<1> SUFFICES ASSUME DeploymentAssumption PROVE IsFiniteSet(Holders)
  OBVIOUS
<1>1. HolderList \in Seq(Holders) /\ Len(HolderList) \in Nat /\ DOMAIN HolderList = 1 .. Len(HolderList)
  BY DEF DeploymentAssumption
<1>2. HolderList \in Surjection(1 .. Len(HolderList), Holders)
  <2>1. HolderList \in [1 .. Len(HolderList) -> Holders]
    BY <1>1
  <2>2. \A h \in Holders : \E k \in 1 .. Len(HolderList) : HolderList[k] = h
    BY <1>1 DEF DeploymentAssumption, ToSet
  <2> QED BY <2>1, <2>2, Fun_IsSurj
<1>3. IsFiniteSet(1 .. Len(HolderList))
  <2>1. 1 \in Int /\ Len(HolderList) \in Int
    BY <1>1
  <2> QED BY <2>1, FS_Interval
<1> QED BY <1>2, <1>3, FS_Surjection

\* The tokens of holders apart add up ...
LEMMA VestedApart ==
    ASSUME TemplateAssumption, DeploymentAssumption,
           NEW S \in SUBSET Holders, NEW T \in SUBSET Holders, S \cap T = {}
    PROVE  VestedBy(S \cup T) = VestedBy(S) + VestedBy(T) /\ VestedBy(S) \in Nat /\ VestedBy(T) \in Nat
<1> DEFINE U == S \cup T
           f == [h \in S |-> VestedAmount[h]]
           g == [h \in T |-> VestedAmount[h]]
           F == [h \in U |-> IF h \in S THEN f[h] ELSE 0]
           G == [h \in U |-> IF h \in T THEN g[h] ELSE 0]
<1>1. IsFiniteSet(U) /\ IsFiniteSet(S) /\ IsFiniteSet(T)
  BY HoldersFinite, FS_Subset
<1>2. VestedAmount \in [Holders -> Nat]
  BY DEF TemplateAssumption
<1>3. f \in [S -> Nat] /\ g \in [T -> Nat] /\ F \in [U -> Nat] /\ G \in [U -> Nat]
  BY <1>2
<1>4. [h \in U |-> VestedAmount[h]] = Sum(U, F, G)
  BY <1>2 DEF Sum
<1>5. SupplyOf(F) = SupplyOf(f) /\ SupplyOf(G) = SupplyOf(g)
  <2>1. S \in SUBSET U /\ T \in SUBSET U
    OBVIOUS
  <2> HIDE DEF f, g, U
  <2>2. SupplyOf(F) = SupplyOf(f)
    BY ONLY <1>3, <2>1, SupplyExtend
  <2>3. SupplyOf(G) = SupplyOf(g)
    BY ONLY <1>3, <2>1, SupplyExtend
  <2> QED BY <2>2, <2>3
<1>6. SupplyOf(Sum(U, F, G)) = SupplyOf(F) + SupplyOf(G)
  <2> HIDE DEF f, g, F, G, U
  <2> QED BY ONLY <1>1, <1>3, SupplyAdd
<1>7. SupplyOf(f) \in Nat /\ SupplyOf(g) \in Nat
  <2> HIDE DEF f, g
  <2> QED BY <1>1, <1>3, UnitsFinite
<1> QED BY <1>4, <1>5, <1>6, <1>7 DEF VestedBy

\* ... and nobody is vested nothing.
LEMMA VestedSome ==
    ASSUME TemplateAssumption, DeploymentAssumption, NEW S \in SUBSET Holders, S # {}
    PROVE  VestedBy(S) > 0
<1>1. PICK h \in S : TRUE
  OBVIOUS
<1>2. VestedAmount[h] \in Nat /\ VestedAmount[h] > 0
  BY DEF TemplateAssumption
<1>3. VestedBy({h}) = VestedAmount[h]
  <2>1. [x \in {h} |-> VestedAmount[x]] = Only({h}, h, VestedAmount[h])
    BY DEF Only
  <2>2. IsFiniteSet({h})
    BY FS_Singleton
  <2>3. SupplyOf(Only({h}, h, VestedAmount[h])) = VestedAmount[h]
    <3>1. h \in {h} /\ VestedAmount[h] \in Nat
      BY <1>2
    <3> QED BY ONLY <2>2, <3>1, SupplyOnly
  <2> QED BY <2>1, <2>3 DEF VestedBy
<1>4. S = {h} \cup (S \ {h}) /\ {h} \cap (S \ {h}) = {} /\ {h} \in SUBSET Holders /\ S \ {h} \in SUBSET Holders
  OBVIOUS
<1>5. VestedBy(S) = VestedBy({h}) + VestedBy(S \ {h}) /\ VestedBy(S \ {h}) \in Nat
  BY <1>4, VestedApart
<1> QED BY <1>2, <1>3, <1>5

LEMMA VestedMore ==
    ASSUME TemplateAssumption, DeploymentAssumption, NEW T \in SUBSET Holders, NEW S \in SUBSET T
    PROVE  VestedBy(S) <= VestedBy(T) /\ VestedBy(S) \in Nat /\ VestedBy(T) \in Nat
<1> DEFINE R == T \ S
<1>1. T = S \cup R /\ S \cap R = {} /\ S \in SUBSET Holders /\ R \in SUBSET Holders
  OBVIOUS
<1> HIDE DEF R
<1>2. VestedBy(S \cup R) = VestedBy(S) + VestedBy(R) /\ VestedBy(S) \in Nat /\ VestedBy(R) \in Nat
  BY <1>1, VestedApart
<1> QED BY <1>1, <1>2

\* The smaller of two numbers.
LEMMA MinOfTwo ==
    ASSUME NEW a \in Int, NEW b \in Int
    PROVE  Min({a, b}) = IF a <= b THEN a ELSE b
<1>1. \E x \in {a, b} : \A y \in {a, b} : x <= y
  OBVIOUS
<1>2. Min({a, b}) \in {a, b} /\ \A y \in {a, b} : Min({a, b}) <= y
  BY <1>1 DEF Min
<1> QED BY <1>2

\* The places of the batches: all but the last are full, and the last is not
\* empty.
LEMMA BatchSizes ==
    ASSUME DeploymentAssumption
    PROVE  /\ Len(HolderList) \in Nat
           /\ HoldersInOneTx \in Nat \ {0}
           /\ TotalTxes \in Nat
           /\ \A i \in 1 .. TotalTxes : (i - 1) * HoldersInOneTx < Len(HolderList)
<1> DEFINE n == Len(HolderList)
           m == HoldersInOneTx
<1>1. n \in Nat \ {0} /\ MAX_HOLDERS_IN_ONE_TX \in Nat \ {0}
  BY DEF DeploymentAssumption
<1>2. m \in Nat \ {0}
  BY <1>1, MinOfTwo DEF HoldersInOneTx
<1> HIDE DEF n, m
<1>3. (n + m - 1) \div m \in Nat /\ m * ((n + m - 1) \div m) <= n + m - 1
  BY <1>1, <1>2
<1>4. TotalTxes = (n + m - 1) \div m
  BY DEF TotalTxes, n, m
<1>5. ASSUME NEW i \in 1 .. TotalTxes PROVE (i - 1) * m < n
  <2>1. i \in Nat /\ TotalTxes \in Nat /\ i <= TotalTxes
    BY <1>3, <1>4
  <2>2. m * i <= m * TotalTxes
    BY <1>2, <2>1
  <2>3. (i - 1) * m = m * i - m /\ m * i \in Nat /\ m * TotalTxes \in Nat
    BY <1>2, <2>1
  <2> QED BY <1>1, <1>2, <1>3, <1>4, <2>2, <2>3
<1> QED BY <1>1, <1>2, <1>3, <1>4, <1>5 DEF n, m

LEMMA BatchPlaces ==
    ASSUME DeploymentAssumption, NEW i \in 1 .. TotalTxes
    PROVE  /\ Batch(i) # {}
           /\ \A h \in Batch(i) : \E k \in 1 .. Len(HolderList) :
                 /\ h = HolderList[k]
                 /\ (i - 1) * HoldersInOneTx < k
                 /\ k <= i * HoldersInOneTx
<1> DEFINE n == Len(HolderList)
           m == HoldersInOneTx
           lo == (i - 1) * m + 1
           hi == Min({i * m, n})
           part == SubSeq(HolderList, lo, hi)
<1>1. n \in Nat /\ m \in Nat \ {0} /\ TotalTxes \in Nat /\ (i - 1) * m < n
  BY BatchSizes
<1>2. i \in Nat /\ i >= 1 /\ i * m \in Nat /\ (i - 1) * m \in Nat /\ i * m = (i - 1) * m + m
  BY <1>1
<1>3. hi = IF i * m <= n THEN i * m ELSE n
  BY <1>1, <1>2, MinOfTwo
<1> HIDE DEF m, hi
<1>4. lo \in Nat /\ hi \in Nat /\ 1 <= lo /\ lo <= hi /\ hi <= n /\ hi <= i * m
  BY <1>1, <1>2, <1>3
<1>5. HolderList \in Seq(Holders)
  BY DEF DeploymentAssumption
<1> HIDE DEF lo
<1>6. DOMAIN part = 1 .. hi - lo + 1 /\ \A k \in 1 .. hi - lo + 1 : part[k] = HolderList[lo + k - 1]
  BY <1>4, <1>5
<1>7. Batch(i) = {part[k] : k \in DOMAIN part}
  BY DEF Batch, ToSet, lo, hi, m
<1> HIDE DEF part
<1>8. 1 \in DOMAIN part
  BY <1>4, <1>6
<1>9. ASSUME NEW h \in Batch(i)
      PROVE  \E k \in 1 .. n : h = HolderList[k] /\ (i - 1) * m < k /\ k <= i * m
  <2>1. PICK j \in DOMAIN part : h = part[j]
    BY <1>7
  <2>2. j \in Nat /\ 1 <= j /\ j <= hi - lo + 1
    BY <1>4, <1>6
  <2>3. lo + j - 1 \in 1 .. n /\ lo <= lo + j - 1 /\ lo + j - 1 <= i * m
    BY <1>1, <1>2, <1>4, <2>2
  <2>4. h = HolderList[lo + j - 1]
    BY <1>6, <2>1
  <2>5. (i - 1) * m < lo + j - 1
    BY <1>2, <2>2 DEF lo
  <2> QED BY <2>3, <2>4, <2>5
<1>10. Batch(i) # {}
  BY <1>7, <1>8
<1>11. \A h \in Batch(i) : \E k \in 1 .. n : h = HolderList[k] /\ (i - 1) * m < k /\ k <= i * m
  BY <1>9
<1> QED BY ONLY <1>10, <1>11 DEF m, n

\* The holders of the first i batches.
FirstBatches(i) == UNION {Batch(j) : j \in 1 .. i}

\* A batch adds somebody, and nobody twice.
LEMMA BatchAdds ==
    ASSUME DeploymentAssumption, NEW i \in 1 .. TotalTxes
    PROVE  /\ FirstBatches(i) = FirstBatches(i - 1) \cup Batch(i)
           /\ FirstBatches(i - 1) \cap Batch(i) = {}
           /\ Batch(i) # {}
           /\ Batch(i) \in SUBSET Holders
           /\ FirstBatches(i) \in SUBSET Holders
           /\ FirstBatches(i - 1) \in SUBSET Holders
<1>1. Len(HolderList) \in Nat /\ HoldersInOneTx \in Nat \ {0} /\ TotalTxes \in Nat /\ i \in Nat
  BY BatchSizes
<1>2. ASSUME NEW j \in 1 .. TotalTxes PROVE Batch(j) \in SUBSET Holders
  <2>1. HolderList \in [1 .. Len(HolderList) -> Holders]
    BY <1>1 DEF DeploymentAssumption
  <2> QED BY <2>1, BatchPlaces
<1>3. ASSUME NEW j \in 1 .. i - 1 PROVE Batch(j) \cap Batch(i) = {}
  <2> DEFINE m == HoldersInOneTx
  <2>1. j \in 1 .. TotalTxes /\ j \in Nat /\ j <= i - 1
    BY <1>1
  <2>2. j * m <= (i - 1) * m /\ j * m \in Nat /\ (i - 1) * m \in Nat
    BY <1>1, <2>1
  <2> HIDE DEF m
  <2>3. SUFFICES ASSUME NEW h \in Batch(j), h \in Batch(i) PROVE FALSE
    OBVIOUS
  <2>4. PICK k \in 1 .. Len(HolderList) : h = HolderList[k] /\ k <= j * m
    BY <2>1, BatchPlaces DEF m
  <2>5. PICK l \in 1 .. Len(HolderList) : h = HolderList[l] /\ (i - 1) * m < l
    BY <2>3, BatchPlaces DEF m
  <2>6. k # l
    BY <1>1, <2>2, <2>4, <2>5
  <2>7. k = l
    <3>1. DOMAIN HolderList = 1 .. Len(HolderList)
      BY DEF DeploymentAssumption
    <3>2. \A a, b \in DOMAIN HolderList : HolderList[a] = HolderList[b] => a = b
      BY DEF DeploymentAssumption, IsInjective
    <3>3. HolderList[k] = HolderList[l]
      BY <2>4, <2>5
    <3> QED BY <3>1, <3>2, <3>3
  <2> QED BY <2>6, <2>7
<1>4. 1 .. i = (1 .. i - 1) \cup {i} /\ 1 .. i \in SUBSET (1 .. TotalTxes)
  BY <1>1
<1>5. FirstBatches(i) = FirstBatches(i - 1) \cup Batch(i)
  BY <1>4 DEF FirstBatches
<1>6. FirstBatches(i - 1) \cap Batch(i) = {}
  BY <1>3 DEF FirstBatches
<1>7. FirstBatches(i) \in SUBSET Holders
  BY <1>2, <1>4 DEF FirstBatches
<1> QED BY <1>2, <1>5, <1>6, <1>7, BatchPlaces

LEMMA FirstBatchesHold ==
    ASSUME DeploymentAssumption, NEW i \in 0 .. TotalTxes
    PROVE  FirstBatches(i) \in SUBSET Holders
<1>1. CASE i = 0
  BY <1>1 DEF FirstBatches
<1>2. CASE i # 0
  <2>1. i \in 1 .. TotalTxes
    BY <1>2, BatchSizes
  <2> QED BY <2>1, BatchAdds
<1> QED BY <1>1, <1>2

\* So the sum of what is vested tells how many batches were issued: issuing the
\* batch i to the first j of them comes to the sum of the first i only if j is
\* the one before.
LEMMA BatchesInOrder ==
    ASSUME TemplateAssumption, DeploymentAssumption,
           NEW i \in 1 .. TotalTxes, NEW j \in 0 .. TotalTxes,
           VestedBy(FirstBatches(j)) + VestedBy(Batch(i)) = VestedBy(FirstBatches(i))
    PROVE  j = i - 1
<1>1. TotalTxes \in Nat /\ i \in Nat /\ j \in Nat
  BY BatchSizes
<1>2. ASSUME NEW k \in 1 .. TotalTxes
      PROVE  /\ VestedBy(FirstBatches(k)) = VestedBy(FirstBatches(k - 1)) + VestedBy(Batch(k))
             /\ VestedBy(FirstBatches(k - 1)) \in Nat
             /\ VestedBy(Batch(k)) \in Nat /\ VestedBy(Batch(k)) > 0
  <2> DEFINE before == FirstBatches(k - 1)
             added == Batch(k)
  <2>1. /\ FirstBatches(k) = before \cup added /\ before \cap added = {} /\ added # {}
        /\ before \in SUBSET Holders /\ added \in SUBSET Holders
    BY BatchAdds
  <2> HIDE DEF before, added
  <2>2. VestedBy(before \cup added) = VestedBy(before) + VestedBy(added) /\ VestedBy(before) \in Nat
           /\ VestedBy(added) \in Nat
    BY <2>1, VestedApart
  <2>3. VestedBy(added) > 0
    BY <2>1, VestedSome
  <2> QED BY <2>1, <2>2, <2>3 DEF before, added
<1>3. /\ VestedBy(FirstBatches(i - 1)) \in Nat /\ VestedBy(Batch(i)) \in Nat /\ VestedBy(Batch(i)) > 0
      /\ VestedBy(FirstBatches(i)) = VestedBy(FirstBatches(i - 1)) + VestedBy(Batch(i))
  BY <1>2
<1>4. FirstBatches(j) \in SUBSET Holders
  BY FirstBatchesHold
<1>5. VestedBy(FirstBatches(j)) \in Nat
  BY <1>4, VestedMore
<1>6. VestedBy(FirstBatches(j)) = VestedBy(FirstBatches(i - 1))
  BY <1>3, <1>5
<1>7. CASE j < i - 1
  <2>1. j + 1 \in 1 .. TotalTxes /\ (j + 1) - 1 = j
    BY <1>1, <1>7
  <2>2. VestedBy(FirstBatches(j + 1)) = VestedBy(FirstBatches(j)) + VestedBy(Batch(j + 1)) /\ VestedBy(Batch(j + 1)) > 0
           /\ VestedBy(Batch(j + 1)) \in Nat
    BY <1>2, <2>1
  <2>3. 1 .. j + 1 \in SUBSET (1 .. i - 1)
    BY <1>1, <1>7
  <2>4. FirstBatches(j + 1) \in SUBSET FirstBatches(i - 1) /\ FirstBatches(i - 1) \in SUBSET Holders
    <3>1. FirstBatches(j + 1) \in SUBSET FirstBatches(i - 1)
      BY <2>3 DEF FirstBatches
    <3>2. i - 1 \in 0 .. TotalTxes
      BY <1>1
    <3>3. FirstBatches(i - 1) \in SUBSET Holders
      BY <3>2, FirstBatchesHold
    <3> QED BY <3>1, <3>3
  <2>5. VestedBy(FirstBatches(j + 1)) <= VestedBy(FirstBatches(i - 1))
    BY <2>4, VestedMore
  <2> QED BY <1>3, <1>5, <1>6, <2>2, <2>5
<1>8. CASE j > i - 1
  <2>1. 1 .. i \in SUBSET (1 .. j)
    BY <1>1, <1>8
  <2>2. FirstBatches(i) \in SUBSET FirstBatches(j)
    BY <2>1 DEF FirstBatches
  <2>3. VestedBy(FirstBatches(i)) <= VestedBy(FirstBatches(j))
    BY <1>4, <2>2, VestedMore
  <2> QED BY <1>3, <1>6, <2>3
<1> QED BY <1>1, <1>7, <1>8

-----------------------------------------------------------------------------
(* The invariant *)

Events == {"TmplAPMDeployed", "TmplReposCreated", "TmplDAOAndTokenDeployed",
           "TmplTokensIssued", "TmplDaoFinalized"}
Transactions == [of : Nat, did : Artifacts \cup Events]

AppStates == [base : Nat, content : Nat]
Publications == [LidoApps -> AppStates] \cup {NoRepos}

\* The permissions of a registry before and after its repositories are made,
\* and those of a DAO until it is finalized.
EmptyRegistryACL == Revoke(NewRegistryACL, RegistryRoles, "factory")
FullRegistryACL ==
    Create(EmptyRegistryACL, RepoRoles(LidoApps \cup AragonRepos), "template", "template")
UnfinishedACL == Create(NoPermissions, RootRoles \cup TemplateRoles, "template", "template")

MaybeTemplate == DOMAIN templates \cup {None}

ChainTypeOK ==
    /\ chain \in Seq(Transactions)
    /\ upstream \in Nat
    /\ templates \in [AddressesOf("LidoTemplate") ->
            [registry : DOMAIN registries \cup {None}, dao : DOMAIN daos \cup {None}]]
    /\ DOMAIN registries \subseteq DOMAIN chain
    /\ registries \in [DOMAIN registries ->
            [repos : Publications, aragon : Nat,
             acl : {EmptyRegistryACL, FullRegistryACL, FinalRegistryACL(FullRegistryACL)}]]
    /\ DOMAIN daos \subseteq DOMAIN chain
    /\ daos \in [DOMAIN daos ->
            [apps : [LidoApps -> Nat], supply : Nat, vestings : [Holders -> Nat], agentTokens : Nat,
             finalized : BOOLEAN, acl : {UnfinishedACL, FinalACL(UnfinishedACL)}]]

FileTypeOK ==
    file \in [deployTx : [Artifacts -> Nat], template : MaybeTemplate, templateBlock : Nat,
              apps : [LidoApps -> AppStates], apm : Nat, dao : DOMAIN daos \cup {None}]

\* The calls that 03 may save.
DomainCalls == {"nothing", "setOwner", "setSubnodeOwner", "register"}

SavedTypeOK ==
    saved \in [deploys : SUBSET Artifacts, domain : DomainCalls, apm : MaybeTemplate,
               repos : [to : MaybeTemplate, apps : Publications], dao : MaybeTemplate,
               issue : [1 .. TotalTxes -> MaybeTemplate], finalize : MaybeTemplate]

\* Whatever is on its way to a DAO was verified: in the repositories, in the
\* file and in the saved transaction.
Verified(apps) == apps # NoRepos /\ \A a \in LidoApps : HasCode(apps[a].base, a)

ReposAreVerified == \A r \in DOMAIN registries : registries[r].repos # NoRepos => Verified(registries[r].repos)

\* The registry of a template is the latest it made, and its DAO is later.
RegistryIsLatest(t, r) ==
    /\ chain[r].of = t
    /\ \A s \in DOMAIN registries : chain[s].of = t => s <= r
    /\ registries[r].acl = IF registries[r].repos = NoRepos THEN EmptyRegistryACL ELSE FullRegistryACL

DaoIsLater(t, r, d) ==
    /\ r # None
    /\ r < d
    /\ chain[d].of = t
    /\ registries[r].repos # NoRepos
    /\ ~daos[d].finalized

TemplateOK(t) ==
    /\ templates[t].registry # None => RegistryIsLatest(t, templates[t].registry)
    /\ templates[t].dao # None => DaoIsLater(t, templates[t].registry, templates[t].dao)

VestedBatches(vestings, i) == \A h \in Holders : vestings[h] = IF h \in FirstBatches(i) THEN 1 ELSE 0

Unfinished(dao) ==
    /\ dao.agentTokens = 0
    /\ dao.acl = UnfinishedACL
    /\ \E i \in 0 .. TotalTxes : VestedBatches(dao.vestings, i)

Finished(dao) ==
    /\ dao.agentTokens = UnvestedAmount
    /\ dao.acl = FinalACL(UnfinishedACL)
    /\ \A h \in Holders : dao.vestings[h] = 1

\* r is the registry that a finalized DAO d left behind.
LeftBehind(r, d) ==
    /\ r < d
    /\ chain[r].of = chain[d].of
    /\ \A s \in DOMAIN registries : s < d /\ chain[s].of = chain[d].of => s <= r
    /\ registries[r].acl = FinalRegistryACL(FullRegistryACL)
    /\ \A t \in DOMAIN templates : templates[t].registry # r

DaoOK(d) ==
    /\ daos[d].supply = daos[d].agentTokens + VestedBy({h \in Holders : daos[d].vestings[h] = 1})
    /\ ~daos[d].finalized => Unfinished(daos[d])
    /\ daos[d].finalized => Finished(daos[d]) /\ \E r \in DOMAIN registries : LeftBehind(r, d)

DaosAreKnown ==
    \A i \in DOMAIN chain : chain[i].did = "TmplDAOAndTokenDeployed" /\ chain[i].of # i => i \in DOMAIN daos

\* While nothing is finalized, every DAO is that of its template.
NothingFinalized == \A d \in DOMAIN daos : ~daos[d].finalized

OneDaoEach ==
    NothingFinalized => \A d \in DOMAIN daos : chain[d].of \in DOMAIN templates /\ templates[chain[d].of].dao = d

\* What is on the chain ...
WorldInv ==
    /\ ChainTypeOK
    /\ ReposAreVerified
    /\ InstalledCodeIsVerified
    /\ \A t \in DOMAIN templates : TemplateOK(t)
    /\ \A d \in DOMAIN daos : DaoOK(d)
    /\ DaosAreKnown
    /\ OneDaoEach

\* ... and what is in files.
FileOK ==
    /\ FileTypeOK
    /\ \A a \in LidoApps : file.apps[a].base # None => HasCode(file.apps[a].base, a)
    /\ file.dao # None => file.template # None /\ chain[file.dao].of = file.template

AllVested(dao) == \A h \in Holders : dao.vestings[h] = 1

FinalizeOK ==
    NothingFinalized /\ saved.finalize # None =>
        templates[saved.finalize].dao # None /\ AllVested(daos[templates[saved.finalize].dao])

SavedOK ==
    /\ SavedTypeOK
    /\ saved.repos.to # None => Verified(saved.repos.apps)
    /\ FinalizeOK

DeploymentInv == WorldInv /\ FileOK /\ SavedOK

-----------------------------------------------------------------------------
(* The chain *)

LEMMA MinedIs ==
    ASSUME ChainTypeOK, NEW t \in Nat, NEW e \in Artifacts \cup Events, Mined(t, e)
    PROVE  /\ Len(chain) \in Nat
           /\ DOMAIN chain = 1 .. Len(chain)
           /\ DOMAIN chain' = 1 .. Len(chain) + 1
           /\ chain' \in Seq(Transactions)
           /\ \A i \in DOMAIN chain : i \in DOMAIN chain' /\ chain'[i] = chain[i]
           /\ chain'[Len(chain) + 1] = [of |-> t, did |-> e]
<1>1. chain \in Seq(Transactions) /\ [of |-> t, did |-> e] \in Transactions
  BY DEF ChainTypeOK, Transactions
<1>2. chain' = Append(chain, [of |-> t, did |-> e])
  BY DEF Mined
<1> QED BY <1>1, <1>2

\* Code never changes, and a transaction of a contract is no code.
LEMMA CodeStays ==
    ASSUME ChainTypeOK, NEW t \in Nat, NEW e \in Artifacts \cup Events, Mined(t, e)
    PROVE  /\ \A i, a : HasCode(i, a) => HasCode(i, a)'
           /\ t \in DOMAIN chain => AddressesOf("LidoTemplate")' = AddressesOf("LidoTemplate")
<1>1. /\ Len(chain) \in Nat
      /\ DOMAIN chain = 1 .. Len(chain)
      /\ DOMAIN chain' = 1 .. Len(chain) + 1
      /\ \A i \in DOMAIN chain : i \in DOMAIN chain' /\ chain'[i] = chain[i]
      /\ chain'[Len(chain) + 1] = [of |-> t, did |-> e]
  BY MinedIs
<1>2. \A i, a : HasCode(i, a) => HasCode(i, a)'
  BY <1>1 DEF HasCode
<1>3. ASSUME t \in DOMAIN chain PROVE AddressesOf("LidoTemplate")' = AddressesOf("LidoTemplate")
  <2>1. t # Len(chain) + 1 /\ DOMAIN chain' = DOMAIN chain \cup {Len(chain) + 1}
    BY <1>1, <1>3
  <2>2. \A i : i = Len(chain) + 1 => ~HasCode(i, "LidoTemplate")'
    BY <1>1, <2>1 DEF HasCode
  <2>3. \A i \in DOMAIN chain : HasCode(i, "LidoTemplate")' <=> HasCode(i, "LidoTemplate")
    BY <1>1 DEF HasCode
  <2>4. \A i : i \in AddressesOf("LidoTemplate")' <=> i \in DOMAIN chain' /\ HasCode(i, "LidoTemplate")'
    BY DEF AddressesOf
  <2>5. \A i : i \in AddressesOf("LidoTemplate") <=> i \in DOMAIN chain /\ HasCode(i, "LidoTemplate")
    BY DEF AddressesOf
  <2>6. \A i : i \in AddressesOf("LidoTemplate")' <=> i \in AddressesOf("LidoTemplate")
    BY <2>1, <2>2, <2>3, <2>4, <2>5
  <2> QED BY <2>6
<1> QED BY <1>2, <1>3

\* A contract of before is where it was, and something new is elsewhere.
LEMMA Addresses ==
    ASSUME ChainTypeOK
    PROVE  /\ Len(chain) \in Nat
           /\ DOMAIN chain = 1 .. Len(chain)
           /\ DOMAIN templates \subseteq DOMAIN chain
           /\ DOMAIN registries \subseteq DOMAIN chain
           /\ DOMAIN daos \subseteq DOMAIN chain
           /\ Len(chain) + 1 \notin DOMAIN templates \cup DOMAIN registries \cup DOMAIN daos
           /\ None \notin DOMAIN chain
           /\ \A t \in DOMAIN templates : /\ templates[t].registry # None => templates[t].registry \in DOMAIN registries
                                          /\ templates[t].dao # None => templates[t].dao \in DOMAIN daos
<1>1. chain \in Seq(Transactions)
  BY DEF ChainTypeOK
<1>2. Len(chain) \in Nat /\ DOMAIN chain = 1 .. Len(chain) /\ None \notin DOMAIN chain
  BY <1>1 DEF None
<1>3. DOMAIN templates \subseteq DOMAIN chain
  BY DEF ChainTypeOK, AddressesOf
<1> QED BY <1>2, <1>3 DEF ChainTypeOK

LEMMA WorldSame == WorldInv /\ UNCHANGED <<chain, templates, registries, daos, upstream>> => WorldInv'
<1> SUFFICES ASSUME WorldInv, UNCHANGED <<chain, templates, registries, daos, upstream>> PROVE WorldInv'
  OBVIOUS
<1>1. ChainTypeOK'
  BY DEF WorldInv, ChainTypeOK, AddressesOf, HasCode
<1>2. ReposAreVerified' /\ InstalledCodeIsVerified'
  BY DEF WorldInv, ReposAreVerified, Verified, InstalledCodeIsVerified, HasCode
<1>3. \A t \in DOMAIN templates' : TemplateOK(t)'
  BY DEF WorldInv, TemplateOK, RegistryIsLatest, DaoIsLater
<1>4. \A d \in DOMAIN daos' : DaoOK(d)'
  BY DEF WorldInv, DaoOK, LeftBehind
<1>5. DaosAreKnown' /\ OneDaoEach'
  BY DEF WorldInv, DaosAreKnown, OneDaoEach, NothingFinalized
<1> QED BY <1>1, <1>2, <1>3, <1>4, <1>5 DEF WorldInv

-----------------------------------------------------------------------------
(* Creations *)

\* Whatever is created, what was there is as it was.
LEMMA DeployKeeps ==
    ASSUME WorldInv, NEW a \in Artifacts, Deploy(a)
    PROVE  WorldInv'
<1> DEFINE n == Len(chain) + 1
<1>0. ChainTypeOK /\ UNCHANGED <<registries, daos, upstream>> /\ Mined(n, a)
  BY DEF WorldInv, Deploy
<1>1. /\ Len(chain) \in Nat
      /\ DOMAIN chain = 1 .. Len(chain)
      /\ DOMAIN templates \subseteq DOMAIN chain
      /\ DOMAIN registries \subseteq DOMAIN chain
      /\ DOMAIN daos \subseteq DOMAIN chain
      /\ n \notin DOMAIN templates \cup DOMAIN registries \cup DOMAIN daos
      /\ None \notin DOMAIN chain
  BY <1>0, Addresses
<1>2. n \in Nat /\ n > 0
  BY <1>1
<1>3. /\ DOMAIN chain' = 1 .. n
      /\ chain' \in Seq(Transactions)
      /\ \A i \in DOMAIN chain : i \in DOMAIN chain' /\ chain'[i] = chain[i]
      /\ chain'[n] = [of |-> n, did |-> a]
  BY <1>0, <1>2, MinedIs
<1>4. \A i, b : HasCode(i, b) => HasCode(i, b)'
  BY <1>0, <1>2, CodeStays
<1>5. /\ templates' \in [AddressesOf("LidoTemplate")' ->
            [registry : DOMAIN registries \cup {None}, dao : DOMAIN daos \cup {None}]]
      /\ \A t \in DOMAIN templates : t \in DOMAIN templates' /\ templates'[t] = templates[t]
      /\ \A t \in DOMAIN templates' \ DOMAIN templates : templates'[t] = [registry |-> None, dao |-> None]
  <2>1. AddressesOf("LidoTemplate")' = IF a = "LidoTemplate" THEN AddressesOf("LidoTemplate") \cup {n}
                                       ELSE AddressesOf("LidoTemplate")
    <3>1. \A i : i = n => (HasCode(i, "LidoTemplate")' <=> a = "LidoTemplate")
      BY <1>2, <1>3 DEF HasCode
    <3>2. \A i \in DOMAIN chain : HasCode(i, "LidoTemplate")' <=> HasCode(i, "LidoTemplate")
      BY <1>3 DEF HasCode
    <3>3. DOMAIN chain' = DOMAIN chain \cup {n}
      BY <1>1, <1>3
    <3>4. \A i : i \in AddressesOf("LidoTemplate")' <=> i \in DOMAIN chain' /\ HasCode(i, "LidoTemplate")'
      BY DEF AddressesOf
    <3>5. \A i : i \in AddressesOf("LidoTemplate") <=> i \in DOMAIN chain /\ HasCode(i, "LidoTemplate")
      BY DEF AddressesOf
    <3> HIDE DEF n
    <3> QED BY <3>1, <3>2, <3>3, <3>4, <3>5
  <2>2. templates \in [AddressesOf("LidoTemplate") ->
            [registry : DOMAIN registries \cup {None}, dao : DOMAIN daos \cup {None}]]
    BY <1>0 DEF ChainTypeOK
  <2>3. templates' = IF a = "LidoTemplate" THEN Created(templates, n, [registry |-> None, dao |-> None]) ELSE templates
    BY DEF Deploy
  <2>4. CASE a = "LidoTemplate"
    BY <1>1, <2>1, <2>2, <2>3, <2>4 DEF Created
  <2>5. CASE a # "LidoTemplate"
    BY <2>1, <2>2, <2>3, <2>5
  <2> QED BY <2>4, <2>5
<1>12. DOMAIN chain' = DOMAIN chain \cup {n} /\ chain'[n].of = n
  BY <1>1, <1>3
<1> HIDE DEF n
<1>6. ChainTypeOK'
  BY <1>0, <1>1, <1>3, <1>5 DEF ChainTypeOK
<1>7. ReposAreVerified' /\ InstalledCodeIsVerified'
  BY <1>0, <1>4 DEF WorldInv, ReposAreVerified, Verified, InstalledCodeIsVerified
<1>8. \A t \in DOMAIN templates' : TemplateOK(t)'
  <2>1. ASSUME NEW t \in DOMAIN templates PROVE TemplateOK(t)'
    <3>1. TemplateOK(t) /\ templates'[t] = templates[t]
      BY <1>5 DEF WorldInv
    <3>2. /\ templates[t].registry # None => templates[t].registry \in DOMAIN registries
          /\ templates[t].dao # None => templates[t].dao \in DOMAIN daos
      BY <1>0, Addresses
    <3> QED BY <1>0, <1>1, <1>3, <3>1, <3>2 DEF TemplateOK, RegistryIsLatest, DaoIsLater
  <2>2. ASSUME NEW t \in DOMAIN templates' \ DOMAIN templates PROVE TemplateOK(t)'
    BY <1>5 DEF TemplateOK
  <2> QED BY <2>1, <2>2
<1>9. ASSUME NEW d \in DOMAIN daos' PROVE DaoOK(d)'
  <2>1. DaoOK(d) /\ d \in DOMAIN daos
    BY <1>0 DEF WorldInv
  <2>2. ASSUME NEW r \in DOMAIN registries, LeftBehind(r, d) PROVE LeftBehind(r, d)'
    BY SMTT(60), <1>0, <1>1, <1>3, <1>5, <2>1, <2>2 DEF LeftBehind
  <2> QED BY <1>0, <2>1, <2>2 DEF DaoOK
<1>10. DaosAreKnown'
  BY <1>0, <1>12, <1>3 DEF WorldInv, DaosAreKnown
<1>11. OneDaoEach'
  BY <1>0, <1>1, <1>3, <1>5 DEF WorldInv, OneDaoEach, NothingFinalized
<1> QED BY <1>6, <1>7, <1>8, <1>9, <1>10, <1>11 DEF WorldInv

-----------------------------------------------------------------------------
(* Transactions of a template *)

LEMMA Transacts ==
    ASSUME ChainTypeOK, NEW t \in DOMAIN templates, NEW e \in Events, Mined(t, e)
    PROVE  LET n == Len(chain) + 1
           IN  /\ n \in Nat
               /\ n \notin DOMAIN chain
               /\ \A i \in DOMAIN chain : i \in Nat /\ i < n
               /\ DOMAIN chain' = DOMAIN chain \cup {n}
               /\ chain' \in Seq(Transactions)
               /\ \A i \in DOMAIN chain : chain'[i] = chain[i]
               /\ chain'[n] = [of |-> t, did |-> e]
               /\ AddressesOf("LidoTemplate")' = AddressesOf("LidoTemplate")
               /\ \A i, a : HasCode(i, a) => HasCode(i, a)'
<1> DEFINE n == Len(chain) + 1
<1>1. t \in DOMAIN chain /\ Len(chain) \in Nat /\ DOMAIN chain = 1 .. Len(chain)
  BY Addresses
<1>2. t \in Nat /\ e \in Artifacts \cup Events
  BY <1>1
<1>3. /\ DOMAIN chain' = 1 .. Len(chain) + 1
      /\ chain' \in Seq(Transactions)
      /\ \A i \in DOMAIN chain : i \in DOMAIN chain' /\ chain'[i] = chain[i]
      /\ chain'[Len(chain) + 1] = [of |-> t, did |-> e]
  BY <1>2, MinedIs
<1>4. \A i, a : HasCode(i, a) => HasCode(i, a)'
  BY <1>2, CodeStays
<1>5. AddressesOf("LidoTemplate")' = AddressesOf("LidoTemplate")
  BY <1>1, <1>2, CodeStays
<1>6. DOMAIN chain' = DOMAIN chain \cup {n} /\ n \in Nat /\ n \notin DOMAIN chain
  BY <1>1, <1>3
<1>7. \A i \in DOMAIN chain : i \in Nat /\ i < n
  BY <1>1
<1> HIDE DEF n
<1> QED BY <1>3, <1>4, <1>5, <1>6, <1>7 DEF n

\* The types of the instances.
Templates == [registry : DOMAIN registries \cup {None}, dao : DOMAIN daos \cup {None}]
Registries ==
    [repos : Publications, aragon : Nat,
     acl : {EmptyRegistryACL, FullRegistryACL, FinalRegistryACL(FullRegistryACL)}]
Daos ==
    [apps : [LidoApps -> Nat], supply : Nat, vestings : [Holders -> Nat], agentTokens : Nat,
     finalized : BOOLEAN, acl : {UnfinishedACL, FinalACL(UnfinishedACL)}]

LEMMA InstancesAre ==
    ASSUME ChainTypeOK
    PROVE  /\ templates \in [AddressesOf("LidoTemplate") -> Templates]
           /\ registries \in [DOMAIN registries -> Registries]
           /\ daos \in [DOMAIN daos -> Daos]
           /\ DOMAIN templates = AddressesOf("LidoTemplate")
BY DEF ChainTypeOK, Templates, Registries, Daos

\* A new registry is the latest of its template, and later than any DAO.
LEMMA DeployLidoAPMKeeps ==
    ASSUME WorldInv, NEW t \in DOMAIN templates, DeployLidoAPM(t)
    PROVE  WorldInv'
<1> DEFINE n == Len(chain) + 1
           r0 == [repos |-> NoRepos, aragon |-> None, acl |-> EmptyRegistryACL]
<1>0. /\ ChainTypeOK
      /\ UNCHANGED <<daos, upstream>>
      /\ Mined(t, "TmplAPMDeployed")
      /\ templates[t].registry = None
      /\ templates' = [templates EXCEPT ![t].registry = n]
      /\ registries' = Created(registries, n, r0)
  BY DEF WorldInv, DeployLidoAPM, EmptyRegistryACL
<1>1. /\ DOMAIN templates \subseteq DOMAIN chain
      /\ DOMAIN registries \subseteq DOMAIN chain
      /\ DOMAIN daos \subseteq DOMAIN chain
      /\ None \notin DOMAIN chain
      /\ \A u \in DOMAIN templates : /\ templates[u].registry # None => templates[u].registry \in DOMAIN registries
                                     /\ templates[u].dao # None => templates[u].dao \in DOMAIN daos
  BY <1>0, Addresses
<1>2. /\ n \in Nat
      /\ n \notin DOMAIN chain
      /\ \A i \in DOMAIN chain : i \in Nat /\ i < n
      /\ DOMAIN chain' = DOMAIN chain \cup {n}
      /\ chain' \in Seq(Transactions)
      /\ \A i \in DOMAIN chain : chain'[i] = chain[i]
      /\ chain'[n] = [of |-> t, did |-> "TmplAPMDeployed"]
      /\ AddressesOf("LidoTemplate")' = AddressesOf("LidoTemplate")
      /\ \A i, a : HasCode(i, a) => HasCode(i, a)'
  <2>1. "TmplAPMDeployed" \in Events
    BY DEF Events
  <2> QED BY <1>0, <2>1, Transacts
<1>3. /\ templates \in [AddressesOf("LidoTemplate") -> Templates]
      /\ registries \in [DOMAIN registries -> Registries]
      /\ daos \in [DOMAIN daos -> Daos]
      /\ DOMAIN templates = AddressesOf("LidoTemplate")
  BY <1>0, InstancesAre
<1> HIDE DEF n
<1>4. r0 \in Registries
  BY DEF Registries, Publications, None
<1>5. /\ DOMAIN registries' = DOMAIN registries \cup {n}
      /\ \A r \in DOMAIN registries : registries'[r] = registries[r]
      /\ registries'[n] = r0
      /\ registries' \in [DOMAIN registries' -> Registries]
  <2> HIDE DEF r0
  <2> QED BY <1>0, <1>1, <1>2, <1>3, <1>4 DEF Created
<1>6. /\ DOMAIN templates' = DOMAIN templates
      /\ \A u \in DOMAIN templates \ {t} : templates'[u] = templates[u]
      /\ templates'[t].registry = n
      /\ templates'[t].dao = templates[t].dao
      /\ \A u \in DOMAIN templates :
            templates'[u] \in [registry : DOMAIN registries \cup {n, None}, dao : DOMAIN daos \cup {None}]
      /\ templates' \in [DOMAIN templates ->
            [registry : DOMAIN registries \cup {n, None}, dao : DOMAIN daos \cup {None}]]
  BY <1>0, <1>3 DEF Templates
<1>7. ChainTypeOK'
  <2>1. templates' \in [AddressesOf("LidoTemplate")' ->
            [registry : DOMAIN registries' \cup {None}, dao : DOMAIN daos' \cup {None}]]
    BY <1>0, <1>2, <1>3, <1>5, <1>6
  <2>2. registries' \in [DOMAIN registries' ->
            [repos : Publications, aragon : Nat,
             acl : {EmptyRegistryACL, FullRegistryACL, FinalRegistryACL(FullRegistryACL)}]]
    BY <1>5 DEF Registries
  <2>3. DOMAIN registries' \subseteq DOMAIN chain' /\ DOMAIN daos' \subseteq DOMAIN chain'
    BY <1>0, <1>1, <1>2, <1>5
  <2> QED BY <1>0, <1>2, <2>1, <2>2, <2>3 DEF ChainTypeOK
<1>8. ReposAreVerified' /\ InstalledCodeIsVerified'
  <2>1. ReposAreVerified'
    BY <1>2, <1>5 DEF WorldInv, ReposAreVerified, Verified
  <2>2. InstalledCodeIsVerified'
    BY <1>0, <1>2 DEF WorldInv, InstalledCodeIsVerified
  <2> QED BY <2>1, <2>2
<1>9. ASSUME NEW u \in DOMAIN templates' PROVE TemplateOK(u)'
  <2>1. TemplateOK(u) /\ u \in DOMAIN templates
    BY <1>6 DEF WorldInv
  <2>2. CASE u = t
    <3>1. templates[t].dao = None
      BY <1>0, <2>1, <2>2 DEF TemplateOK, DaoIsLater
    <3>2. \A s \in DOMAIN registries' : s <= n
      BY <1>1, <1>2, <1>5
    <3>3. PICK m : m = n
      OBVIOUS
    <3>4. RegistryIsLatest(t, m)'
      BY <1>2, <1>5, <3>2, <3>3 DEF RegistryIsLatest
    <3> QED BY <1>6, <2>2, <3>1, <3>3, <3>4 DEF TemplateOK
  <2>3. CASE u # t
    <3>1. templates'[u] = templates[u]
      BY <1>6, <2>1, <2>3
    <3>2. templates[u].registry # None => templates[u].registry \in DOMAIN registries
      BY <1>1, <2>1
    <3>3. templates[u].dao # None => templates[u].dao \in DOMAIN daos
      BY <1>1, <2>1
    <3>4. templates[u].registry # None => RegistryIsLatest(u, templates[u].registry)'
      BY <1>1, <1>2, <1>5, <2>1, <2>3, <3>1, <3>2 DEF TemplateOK, RegistryIsLatest
    <3>5. templates[u].dao # None => DaoIsLater(u, templates[u].registry, templates[u].dao)'
      BY <1>0, <1>1, <1>2, <1>5, <2>1, <3>1, <3>2, <3>3 DEF TemplateOK, DaoIsLater
    <3> QED BY <3>1, <3>4, <3>5 DEF TemplateOK
  <2> QED BY <2>2, <2>3
<1>10. ASSUME NEW d \in DOMAIN daos' PROVE DaoOK(d)'
  <2>1. DaoOK(d) /\ d \in DOMAIN daos
    BY <1>0 DEF WorldInv
  <2>2. ASSUME NEW r \in DOMAIN registries, LeftBehind(r, d) PROVE LeftBehind(r, d)'
    BY <1>0, <1>1, <1>2, <1>5, <1>6, <2>1, <2>2 DEF LeftBehind
  <2> QED BY <1>0, <1>5, <2>1, <2>2 DEF DaoOK
<1>11. DaosAreKnown'
  BY <1>0, <1>2 DEF WorldInv, DaosAreKnown
<1>12. OneDaoEach'
  BY <1>0, <1>1, <1>2, <1>6 DEF WorldInv, OneDaoEach, NothingFinalized
<1> QED BY <1>7, <1>8, <1>9, <1>10, <1>11, <1>12 DEF WorldInv

\* The repositories of a registry are made once, of verified code.
LEMMA CreateReposKeeps ==
    ASSUME WorldInv, NEW t \in DOMAIN templates, NEW apps \in Publications, Verified(apps), CreateRepos(t, apps)
    PROVE  WorldInv'
<1> DEFINE n == Len(chain) + 1
           r0 == templates[t].registry
           r1 == [repos |-> apps, aragon |-> upstream, acl |-> FullRegistryACL]
<1>0. /\ ChainTypeOK
      /\ UNCHANGED <<templates, daos, upstream>>
      /\ Mined(t, "TmplReposCreated")
      /\ r0 # None
      /\ registries[r0].repos = NoRepos
      /\ registries' = [registries EXCEPT ![r0] =
              [repos |-> apps, aragon |-> upstream,
               acl |-> Create(@.acl, RepoRoles(LidoApps \cup AragonRepos), "template", "template")]]
  BY DEF WorldInv, CreateRepos, CanCreateRepos
<1>1. /\ DOMAIN templates \subseteq DOMAIN chain
      /\ DOMAIN registries \subseteq DOMAIN chain
      /\ DOMAIN daos \subseteq DOMAIN chain
      /\ None \notin DOMAIN chain
      /\ \A u \in DOMAIN templates : /\ templates[u].registry # None => templates[u].registry \in DOMAIN registries
                                     /\ templates[u].dao # None => templates[u].dao \in DOMAIN daos
  BY <1>0, Addresses
<1>2. /\ n \in Nat
      /\ n \notin DOMAIN chain
      /\ \A i \in DOMAIN chain : i \in Nat /\ i < n
      /\ DOMAIN chain' = DOMAIN chain \cup {n}
      /\ chain' \in Seq(Transactions)
      /\ \A i \in DOMAIN chain : chain'[i] = chain[i]
      /\ chain'[n] = [of |-> t, did |-> "TmplReposCreated"]
      /\ AddressesOf("LidoTemplate")' = AddressesOf("LidoTemplate")
      /\ \A i, a : HasCode(i, a) => HasCode(i, a)'
  <2>1. "TmplReposCreated" \in Events
    BY DEF Events
  <2> QED BY <1>0, <2>1, Transacts
<1>3. /\ templates \in [AddressesOf("LidoTemplate") -> Templates]
      /\ registries \in [DOMAIN registries -> Registries]
      /\ daos \in [DOMAIN daos -> Daos]
      /\ DOMAIN templates = AddressesOf("LidoTemplate")
  BY <1>0, InstancesAre
<1> HIDE DEF n
<1> HIDE DEF r0
<1>4. r0 \in DOMAIN registries
  BY <1>0, <1>1 DEF r0
<1>5. registries[r0].acl = EmptyRegistryACL
  BY <1>0 DEF WorldInv, TemplateOK, RegistryIsLatest, r0
<1>6. /\ DOMAIN registries' = DOMAIN registries
      /\ \A r \in DOMAIN registries \ {r0} : registries'[r] = registries[r]
      /\ registries'[r0] = r1
      /\ registries' \in [DOMAIN registries' -> Registries]
  <2>1. r1 \in Registries
    BY <1>0 DEF Registries, ChainTypeOK
  <2>2. registries' = [registries EXCEPT ![r0] = r1]
    BY <1>0, <1>4, <1>5 DEF FullRegistryACL
  <2> HIDE DEF r1
  <2> QED BY <1>3, <1>4, <2>1, <2>2
<1>7. ChainTypeOK'
  <2>1. registries' \in [DOMAIN registries' ->
            [repos : Publications, aragon : Nat,
             acl : {EmptyRegistryACL, FullRegistryACL, FinalRegistryACL(FullRegistryACL)}]]
    BY <1>6 DEF Registries
  <2>2. DOMAIN registries' \subseteq DOMAIN chain' /\ DOMAIN daos' \subseteq DOMAIN chain'
    BY <1>0, <1>1, <1>2, <1>6
  <2> QED BY <1>0, <1>2, <1>6, <2>1, <2>2 DEF ChainTypeOK
<1>8. ReposAreVerified' /\ InstalledCodeIsVerified'
  <2>1. ASSUME NEW r \in DOMAIN registries', registries'[r].repos # NoRepos PROVE Verified(registries[r].repos)'
    <3>1. CASE r = r0
      BY <1>2, <1>6, <3>1 DEF Verified
    <3>2. CASE r # r0
      BY <1>2, <1>6, <2>1, <3>2 DEF WorldInv, ReposAreVerified, Verified
    <3> QED BY <3>1, <3>2
  <2>2. InstalledCodeIsVerified'
    BY <1>0, <1>2 DEF WorldInv, InstalledCodeIsVerified
  <2> QED BY <2>1, <2>2 DEF ReposAreVerified
<1>9. ASSUME NEW u \in DOMAIN templates' PROVE TemplateOK(u)'
  <2>1. TemplateOK(u) /\ u \in DOMAIN templates /\ templates'[u] = templates[u]
    BY <1>0 DEF WorldInv
  <2>2. templates[u].registry # None => templates[u].registry \in DOMAIN registries
    BY <1>1, <2>1
  <2>3. templates[u].dao # None => templates[u].dao \in DOMAIN daos
    BY <1>1, <2>1
  <2>4. apps # NoRepos
    BY DEF Verified
  <2>5. templates[u].registry # None => RegistryIsLatest(u, templates[u].registry)'
    <3>1. SUFFICES ASSUME templates[u].registry # None PROVE RegistryIsLatest(u, templates[u].registry)'
      OBVIOUS
    <3>2. PICK r \in DOMAIN registries : r = templates[u].registry
      BY <2>2, <3>1
    <3>3. RegistryIsLatest(u, r)
      BY <2>1, <3>1, <3>2 DEF TemplateOK
    <3>4. chain'[r].of = u /\ \A s \in DOMAIN registries' : chain'[s].of = u => s <= r
      BY <1>1, <1>2, <1>6, <3>2, <3>3 DEF RegistryIsLatest
    <3>5. registries'[r].acl = IF registries'[r].repos = NoRepos THEN EmptyRegistryACL ELSE FullRegistryACL
      <4>1. CASE r = r0
        BY <1>6, <2>4, <4>1
      <4>2. CASE r # r0
        BY <1>6, <3>2, <3>3, <4>2 DEF RegistryIsLatest
      <4> QED BY <4>1, <4>2
    <3> QED BY <2>1, <3>2, <3>4, <3>5 DEF RegistryIsLatest
  <2>6. templates[u].dao # None => DaoIsLater(u, templates[u].registry, templates[u].dao)'
    <3>1. SUFFICES ASSUME templates[u].dao # None
                   PROVE  DaoIsLater(u, templates[u].registry, templates[u].dao)'
      OBVIOUS
    <3>2. DaoIsLater(u, templates[u].registry, templates[u].dao)
      BY <2>1, <3>1 DEF TemplateOK
    <3>3. PICK r \in DOMAIN registries : r = templates[u].registry
      BY <2>2, <3>2 DEF DaoIsLater
    <3>4. registries'[r].repos # NoRepos
      <4>1. CASE r = r0
        BY <1>6, <2>4, <4>1
      <4>2. CASE r # r0
        BY <1>6, <3>2, <3>3, <4>2 DEF DaoIsLater
      <4> QED BY <4>1, <4>2
    <3> QED BY <1>0, <1>1, <1>2, <2>1, <2>3, <3>1, <3>2, <3>3, <3>4 DEF DaoIsLater
  <2> QED BY <2>1, <2>5, <2>6 DEF TemplateOK
<1>10. ASSUME NEW d \in DOMAIN daos' PROVE DaoOK(d)'
  <2>1. DaoOK(d) /\ d \in DOMAIN daos
    BY <1>0 DEF WorldInv
  <2>2. ASSUME NEW r \in DOMAIN registries, LeftBehind(r, d) PROVE LeftBehind(r, d)'
    <3>1. r # r0
      BY <2>2 DEF LeftBehind, r0
    <3> QED BY <1>0, <1>1, <1>2, <1>6, <2>1, <2>2, <3>1 DEF LeftBehind
  <2> QED BY <1>0, <1>6, <2>1, <2>2 DEF DaoOK
<1>11. DaosAreKnown'
  BY <1>0, <1>2 DEF WorldInv, DaosAreKnown
<1>12. OneDaoEach'
  BY <1>0, <1>1, <1>2 DEF WorldInv, OneDaoEach, NothingFinalized
<1> QED BY <1>7, <1>8, <1>9, <1>10, <1>11, <1>12 DEF WorldInv

LEMMA VestedNone == VestedBy({}) = 0
<1> DEFINE f == [h \in {} |-> VestedAmount[h]]
<1>1. f \in [{} -> {0}]
  OBVIOUS
<1> HIDE DEF f
<1>2. SupplyOf(f) = 0
  BY <1>1, SupplyNone
<1> QED BY <1>2 DEF VestedBy, f

\* A new DAO is that of its template and runs what the repositories name.
LEMMA NewDAOKeeps ==
    ASSUME WorldInv, TemplateAssumption, DeploymentAssumption, NEW t \in DOMAIN templates, NewDAO(t)
    PROVE  WorldInv'
<1> DEFINE n == Len(chain) + 1
           r0 == templates[t].registry
           d0 == [apps |-> [a \in LidoApps |-> registries[r0].repos[a].base],
                  supply |-> 0,
                  vestings |-> [h \in Holders |-> 0],
                  agentTokens |-> 0,
                  finalized |-> FALSE,
                  acl |-> UnfinishedACL]
<1>0. /\ ChainTypeOK
      /\ UNCHANGED <<registries, upstream>>
      /\ Mined(t, "TmplDAOAndTokenDeployed")
      /\ r0 # None
      /\ registries[r0].repos # NoRepos
      /\ templates[t].dao = None
      /\ templates' = [templates EXCEPT ![t].dao = n]
      /\ daos' = Created(daos, n, d0)
  BY DEF WorldInv, NewDAO, CanCreateDAO, UnfinishedACL
<1>1. /\ DOMAIN templates \subseteq DOMAIN chain
      /\ DOMAIN registries \subseteq DOMAIN chain
      /\ DOMAIN daos \subseteq DOMAIN chain
      /\ None \notin DOMAIN chain
      /\ \A u \in DOMAIN templates : /\ templates[u].registry # None => templates[u].registry \in DOMAIN registries
                                     /\ templates[u].dao # None => templates[u].dao \in DOMAIN daos
  BY <1>0, Addresses
<1>2. /\ n \in Nat
      /\ n \notin DOMAIN chain
      /\ \A i \in DOMAIN chain : i \in Nat /\ i < n
      /\ DOMAIN chain' = DOMAIN chain \cup {n}
      /\ chain' \in Seq(Transactions)
      /\ \A i \in DOMAIN chain : chain'[i] = chain[i]
      /\ chain'[n] = [of |-> t, did |-> "TmplDAOAndTokenDeployed"]
      /\ AddressesOf("LidoTemplate")' = AddressesOf("LidoTemplate")
      /\ \A i, a : HasCode(i, a) => HasCode(i, a)'
  <2>1. "TmplDAOAndTokenDeployed" \in Events
    BY DEF Events
  <2> QED BY <1>0, <2>1, Transacts
<1>3. /\ templates \in [AddressesOf("LidoTemplate") -> Templates]
      /\ registries \in [DOMAIN registries -> Registries]
      /\ daos \in [DOMAIN daos -> Daos]
      /\ DOMAIN templates = AddressesOf("LidoTemplate")
  BY <1>0, InstancesAre
<1> HIDE DEF n
<1>4. r0 \in DOMAIN registries
  BY <1>0, <1>1
<1>5. /\ registries[r0].repos \in [LidoApps -> AppStates]
      /\ \A a \in LidoApps : HasCode(registries[r0].repos[a].base, a)
  BY <1>0, <1>3, <1>4 DEF WorldInv, ReposAreVerified, Verified, Registries, Publications
<1>6. d0 \in Daos
  BY <1>5 DEF Daos, AppStates
<1>7. /\ DOMAIN daos' = DOMAIN daos \cup {n}
      /\ \A d \in DOMAIN daos : daos'[d] = daos[d]
      /\ daos'[n] = d0
      /\ daos' \in [DOMAIN daos' -> Daos]
  <2> HIDE DEF d0
  <2> QED BY <1>0, <1>1, <1>2, <1>3, <1>6 DEF Created
<1>8. /\ DOMAIN templates' = DOMAIN templates
      /\ \A u \in DOMAIN templates \ {t} : templates'[u] = templates[u]
      /\ templates'[t].registry = r0
      /\ templates'[t].dao = n
      /\ templates' \in [DOMAIN templates ->
            [registry : DOMAIN registries \cup {None}, dao : DOMAIN daos \cup {n, None}]]
  <2> DEFINE e == [templates[t] EXCEPT !.dao = n]
  <2>1. templates \in [DOMAIN templates -> Templates] /\ templates' = [templates EXCEPT ![t] = e]
    BY <1>0, <1>3
  <2>2. /\ e \in [registry : DOMAIN registries \cup {None}, dao : DOMAIN daos \cup {n, None}]
        /\ e.registry = r0 /\ e.dao = n
    BY <2>1 DEF Templates
  <2>3. Templates \subseteq [registry : DOMAIN registries \cup {None}, dao : DOMAIN daos \cup {n, None}]
    BY DEF Templates
  <2> HIDE DEF e, r0
  <2> QED BY <2>1, <2>2, <2>3
<1>9. ChainTypeOK'
  <2>1. templates' \in [AddressesOf("LidoTemplate")' ->
            [registry : DOMAIN registries' \cup {None}, dao : DOMAIN daos' \cup {None}]]
    <3>1. DOMAIN templates = AddressesOf("LidoTemplate")' /\ DOMAIN registries' = DOMAIN registries
      BY <1>0, <1>2, <1>3
    <3>2. DOMAIN daos \cup {n, None} = DOMAIN daos' \cup {None}
      BY <1>7
    <3> QED BY <1>8, <3>1, <3>2
  <2>2. daos' \in [DOMAIN daos' ->
            [apps : [LidoApps -> Nat], supply : Nat, vestings : [Holders -> Nat], agentTokens : Nat,
             finalized : BOOLEAN, acl : {UnfinishedACL, FinalACL(UnfinishedACL)}]]
    BY <1>7 DEF Daos
  <2>3. DOMAIN registries' \subseteq DOMAIN chain' /\ DOMAIN daos' \subseteq DOMAIN chain'
    BY <1>0, <1>1, <1>2, <1>7
  <2> QED BY <1>0, <1>2, <2>1, <2>2, <2>3 DEF ChainTypeOK
<1>10. ReposAreVerified' /\ InstalledCodeIsVerified'
  <2>1. ReposAreVerified'
    BY <1>0, <1>2 DEF WorldInv, ReposAreVerified, Verified
  <2>2. ASSUME NEW d \in DOMAIN daos', NEW a \in LidoApps PROVE HasCode(daos[d].apps[a], a)'
    <3>1. CASE d = n
      <4>1. daos'[d].apps[a] = registries[r0].repos[a].base
        BY <1>7, <3>1
      <4>2. PICK i : i = registries[r0].repos[a].base
        OBVIOUS
      <4>3. HasCode(i, a)'
        BY <1>2, <1>5, <4>2
      <4> QED BY <4>1, <4>2, <4>3
    <3>2. CASE d # n
      BY <1>2, <1>7, <2>2, <3>2 DEF WorldInv, InstalledCodeIsVerified
    <3> QED BY <3>1, <3>2
  <2> QED BY <2>1, <2>2 DEF InstalledCodeIsVerified
<1>11. ASSUME NEW u \in DOMAIN templates' PROVE TemplateOK(u)'
  <2>1. TemplateOK(u) /\ u \in DOMAIN templates /\ templates'[u].registry = templates[u].registry
    BY <1>8 DEF WorldInv
  <2>2. templates[u].registry # None => templates[u].registry \in DOMAIN registries
    BY <1>1, <2>1
  <2>3. templates[u].registry # None => RegistryIsLatest(u, templates[u].registry)'
    BY <1>0, <1>1, <1>2, <2>1, <2>2 DEF TemplateOK, RegistryIsLatest
  <2>4. CASE u = t
    <3>1. PICK m : m = n
      OBVIOUS
    <3>2. PICK r : r = r0
      OBVIOUS
    <3>3. DaoIsLater(t, r, m)'
      <4>1. r # None /\ r < m
        BY <1>0, <1>1, <1>2, <1>4, <3>1, <3>2
      <4>2. chain'[m].of = t /\ ~daos'[m].finalized
        BY <1>2, <1>7, <3>1
      <4>3. registries'[r].repos # NoRepos
        BY <1>0, <3>2
      <4> QED BY <4>1, <4>2, <4>3 DEF DaoIsLater
    <3> QED BY <1>8, <2>1, <2>3, <2>4, <3>1, <3>2, <3>3 DEF TemplateOK
  <2>5. CASE u # t
    <3>1. templates'[u] = templates[u]
      BY <1>8, <2>1, <2>5
    <3>2. templates[u].dao # None => templates[u].dao \in DOMAIN daos
      BY <1>1, <2>1
    <3>3. templates[u].dao # None => DaoIsLater(u, templates[u].registry, templates[u].dao)'
      <4>1. ASSUME NEW r, NEW d \in DOMAIN daos, DaoIsLater(u, r, d) PROVE DaoIsLater(u, r, d)'
        <5>1. chain'[d] = chain[d] /\ daos'[d] = daos[d] /\ registries' = registries
          BY <1>0, <1>1, <1>2, <1>7
        <5> QED BY <4>1, <5>1 DEF DaoIsLater
      <4>2. templates[u].dao # None => DaoIsLater(u, templates[u].registry, templates[u].dao)
        BY <2>1 DEF TemplateOK
      <4> QED BY <3>1, <3>2, <4>1, <4>2
    <3> QED BY <2>1, <2>3, <3>1, <3>3 DEF TemplateOK
  <2> QED BY <2>4, <2>5
<1>12. ASSUME NEW d \in DOMAIN daos' PROVE DaoOK(d)'
  <2>1. CASE d = n
    <3>1. {h \in Holders : daos'[d].vestings[h] = 1} = {}
      BY <1>7, <2>1
    <3>2. VestedBatches(daos'[d].vestings, 0) /\ 0 \in 0 .. TotalTxes
      <4>1. FirstBatches(0) = {}
        BY DEF FirstBatches
      <4>2. TotalTxes \in Nat
        BY BatchSizes
      <4> QED BY <1>7, <2>1, <4>1, <4>2 DEF VestedBatches
    <3>3. Unfinished(daos'[d])
      BY <1>7, <2>1, <3>2 DEF Unfinished
    <3>4. daos'[d].supply = 0 /\ daos'[d].agentTokens = 0 /\ daos'[d].finalized = FALSE
      BY <1>7, <2>1
    <3>5. VestedBy({h \in Holders : daos'[d].vestings[h] = 1}) = 0
      BY <3>1, VestedNone
    <3> QED BY <3>3, <3>4, <3>5 DEF DaoOK
  <2>2. CASE d # n
    <3>1. DaoOK(d) /\ d \in DOMAIN daos /\ daos'[d] = daos[d]
      BY <1>7, <2>2 DEF WorldInv
    <3>2. ASSUME NEW r \in DOMAIN registries, LeftBehind(r, d) PROVE LeftBehind(r, d)'
      BY SMTT(60), <1>0, <1>1, <1>2, <1>8, <3>1, <3>2 DEF LeftBehind
    <3> QED BY <1>0, <3>1, <3>2 DEF DaoOK
  <2> QED BY <2>1, <2>2
<1>13. DaosAreKnown'
  BY <1>2, <1>7 DEF WorldInv, DaosAreKnown
<1>14. OneDaoEach'
  <2>1. SUFFICES ASSUME NothingFinalized', NEW d \in DOMAIN daos'
                 PROVE  chain'[d].of \in DOMAIN templates' /\ templates'[chain'[d].of].dao = d
    BY DEF OneDaoEach
  <2>2. CASE d = n
    BY <1>2, <1>8, <2>2
  <2>3. CASE d # n
    <3>1. NothingFinalized
      BY <1>7, <2>1 DEF NothingFinalized
    <3>2. d \in DOMAIN daos /\ chain'[d] = chain[d]
      BY <1>1, <1>2, <1>7, <2>3
    <3>3. chain[d].of \in DOMAIN templates /\ templates[chain[d].of].dao = d /\ d # None
      BY <1>1, <3>1, <3>2 DEF WorldInv, OneDaoEach
    <3>4. chain[d].of # t
      BY <1>0, <3>3
    <3> QED BY <1>8, <3>2, <3>3, <3>4
  <2> QED BY <2>2, <2>3
<1> QED BY <1>9, <1>10, <1>11, <1>12, <1>13, <1>14 DEF WorldInv

\* Issued is the next batch, however it was saved and whenever it is sent: no
\* other comes to the supply that the call expects.
LEMMA IssueTokensKeeps ==
    ASSUME WorldInv, TemplateAssumption, DeploymentAssumption,
           NEW t \in DOMAIN templates, NEW i \in 1 .. TotalTxes,
           IssueTokens(t, Batch(i), EndTotalSupply(i))
    PROVE  /\ WorldInv'
           /\ \A d \in DOMAIN daos : AllVested(daos[d]) => AllVested(daos'[d])
<1> DEFINE n == Len(chain) + 1
           d0 == templates[t].dao
           issued == daos[d0].supply + VestedBy(Batch(i))
           vested == [h \in Holders |-> daos[d0].vestings[h] + (IF h \in Batch(i) THEN 1 ELSE 0)]
<1>0. /\ ChainTypeOK
      /\ UNCHANGED <<templates, registries, upstream>>
      /\ Mined(t, "TmplTokensIssued")
      /\ d0 # None
      /\ issued = VestedBy(FirstBatches(i))
      /\ daos' = [daos EXCEPT ![d0].supply = issued, ![d0].vestings = vested]
  BY DEF WorldInv, IssueTokens, SupplyIsExpected, EndTotalSupply, FirstBatches
<1>1. /\ DOMAIN templates \subseteq DOMAIN chain
      /\ DOMAIN registries \subseteq DOMAIN chain
      /\ DOMAIN daos \subseteq DOMAIN chain
      /\ None \notin DOMAIN chain
      /\ \A u \in DOMAIN templates : /\ templates[u].registry # None => templates[u].registry \in DOMAIN registries
                                     /\ templates[u].dao # None => templates[u].dao \in DOMAIN daos
  BY <1>0, Addresses
<1>2. /\ n \in Nat
      /\ n \notin DOMAIN chain
      /\ \A x \in DOMAIN chain : x \in Nat /\ x < n
      /\ DOMAIN chain' = DOMAIN chain \cup {n}
      /\ chain' \in Seq(Transactions)
      /\ \A x \in DOMAIN chain : chain'[x] = chain[x]
      /\ chain'[n] = [of |-> t, did |-> "TmplTokensIssued"]
      /\ AddressesOf("LidoTemplate")' = AddressesOf("LidoTemplate")
      /\ \A x, a : HasCode(x, a) => HasCode(x, a)'
  <2>1. "TmplTokensIssued" \in Events
    BY DEF Events
  <2> QED BY <1>0, <2>1, Transacts
<1>3. /\ templates \in [AddressesOf("LidoTemplate") -> Templates]
      /\ registries \in [DOMAIN registries -> Registries]
      /\ daos \in [DOMAIN daos -> Daos]
      /\ DOMAIN templates = AddressesOf("LidoTemplate")
  BY <1>0, InstancesAre
<1> HIDE DEF n
<1>4. d0 \in DOMAIN daos
  BY <1>0, <1>1
<1>5. /\ DaoOK(d0) /\ ~daos[d0].finalized
  BY <1>0, <1>4 DEF WorldInv, TemplateOK, DaoIsLater
<1>6. PICK j \in 0 .. TotalTxes : VestedBatches(daos[d0].vestings, j)
  BY <1>5 DEF DaoOK, Unfinished
<1>7. FirstBatches(j) \in SUBSET Holders /\ FirstBatches(i) \in SUBSET Holders /\ Batch(i) \in SUBSET Holders
  BY FirstBatchesHold, BatchAdds
<1>8. daos[d0].supply = VestedBy(FirstBatches(j))
  <2> DEFINE holders == {h \in Holders : daos[d0].vestings[h] = 1}
  <2>1. holders = FirstBatches(j)
    BY <1>6, <1>7 DEF VestedBatches
  <2>2. VestedBy(FirstBatches(j)) \in Nat /\ daos[d0].agentTokens = 0
    BY <1>5, <1>7, VestedMore DEF DaoOK, Unfinished
  <2>3. daos[d0].supply = daos[d0].agentTokens + VestedBy(holders)
    BY <1>5 DEF DaoOK
  <2> HIDE DEF holders
  <2> QED BY <2>1, <2>2, <2>3
<1>9. j = i - 1
  BY <1>0, <1>8, BatchesInOrder
<1>10. VestedBatches(vested, i)
  <2>1. FirstBatches(i) = FirstBatches(i - 1) \cup Batch(i) /\ FirstBatches(i - 1) \cap Batch(i) = {}
    BY BatchAdds
  <2>2. \A h \in Holders : daos[d0].vestings[h] = IF h \in FirstBatches(i - 1) THEN 1 ELSE 0
    BY <1>6, <1>9 DEF VestedBatches
  <2> QED BY <2>1, <2>2 DEF VestedBatches
<1>11. {h \in Holders : vested[h] = 1} = FirstBatches(i)
  <2> HIDE DEF vested
  <2> QED BY <1>7, <1>10 DEF VestedBatches
<1>12. issued \in Nat
  BY <1>0, <1>7, VestedMore
<1>13. vested \in [Holders -> Nat]
  <2> DEFINE old == daos[d0].vestings
  <2>1. old \in [Holders -> Nat]
    BY <1>3, <1>4 DEF Daos
  <2>2. \A h \in Holders : old[h] + (IF h \in Batch(i) THEN 1 ELSE 0) \in Nat
    <3> HIDE DEF old
    <3> QED BY <2>1
  <2> QED BY <2>2
<1>14. ASSUME AllVested(daos[d0]) PROVE \A h \in Holders : vested[h] = 1
  <2>1. \A h \in Holders : h \in FirstBatches(i - 1)
    <3>1. ASSUME NEW h \in Holders PROVE h \in FirstBatches(i - 1)
      <4>1. daos[d0].vestings[h] = 1
        BY <1>14 DEF AllVested
      <4>2. daos[d0].vestings[h] = IF h \in FirstBatches(i - 1) THEN 1 ELSE 0
        BY <1>6, <1>9 DEF VestedBatches
      <4> QED BY <4>1, <4>2
    <3> QED BY <3>1
  <2>2. FirstBatches(i) = FirstBatches(i - 1) \cup Batch(i)
    BY BatchAdds
  <2> HIDE DEF vested
  <2> QED BY <1>10, <2>1, <2>2 DEF VestedBatches
<1> HIDE DEF issued, vested
<1>15. /\ DOMAIN daos' = DOMAIN daos
       /\ \A d \in DOMAIN daos \ {d0} : daos'[d] = daos[d]
       /\ daos'[d0].supply = issued
       /\ daos'[d0].vestings = vested
       /\ \A d \in DOMAIN daos : /\ daos'[d].apps = daos[d].apps
                                 /\ daos'[d].agentTokens = daos[d].agentTokens
                                 /\ daos'[d].finalized = daos[d].finalized
                                 /\ daos'[d].acl = daos[d].acl
       /\ daos' \in [DOMAIN daos' -> Daos]
  <2> DEFINE e == [daos[d0] EXCEPT !.supply = issued, !.vestings = vested]
  <2>1. daos[d0] \in Daos
    BY <1>3, <1>4
  <2>2. /\ e \in Daos
        /\ e.supply = issued
        /\ e.vestings = vested
        /\ e.apps = daos[d0].apps
        /\ e.agentTokens = daos[d0].agentTokens
        /\ e.finalized = daos[d0].finalized
        /\ e.acl = daos[d0].acl
    BY <1>12, <1>13, <2>1 DEF Daos
  <2>3. daos' = [daos EXCEPT ![d0] = e]
    BY <1>0, <1>3, <1>4
  <2> HIDE DEF e, d0
  <2> QED BY <1>3, <1>4, <2>2, <2>3
<1>16. ChainTypeOK'
  <2>1. daos' \in [DOMAIN daos' ->
            [apps : [LidoApps -> Nat], supply : Nat, vestings : [Holders -> Nat], agentTokens : Nat,
             finalized : BOOLEAN, acl : {UnfinishedACL, FinalACL(UnfinishedACL)}]]
    BY <1>15 DEF Daos
  <2>2. DOMAIN registries' \subseteq DOMAIN chain' /\ DOMAIN daos' \subseteq DOMAIN chain'
    BY <1>0, <1>1, <1>2, <1>15
  <2> QED BY <1>0, <1>2, <1>15, <2>1, <2>2 DEF ChainTypeOK
<1>17. ReposAreVerified' /\ InstalledCodeIsVerified'
  <2>1. ReposAreVerified'
    BY <1>0, <1>2 DEF WorldInv, ReposAreVerified, Verified
  <2>2. InstalledCodeIsVerified'
    BY <1>2, <1>15 DEF WorldInv, InstalledCodeIsVerified
  <2> QED BY <2>1, <2>2
<1>18. ASSUME NEW u \in DOMAIN templates' PROVE TemplateOK(u)'
  <2>1. TemplateOK(u) /\ u \in DOMAIN templates /\ templates'[u] = templates[u]
    BY <1>0 DEF WorldInv
  <2>2. /\ templates[u].registry # None => templates[u].registry \in DOMAIN registries
        /\ templates[u].dao # None => templates[u].dao \in DOMAIN daos
    BY <1>1, <2>1
  <2> QED BY SMTT(60), <1>0, <1>1, <1>2, <1>15, <2>1, <2>2 DEF TemplateOK, RegistryIsLatest, DaoIsLater
<1>19. ASSUME NEW d \in DOMAIN daos' PROVE DaoOK(d)'
  <2>1. DaoOK(d) /\ d \in DOMAIN daos
    BY <1>15 DEF WorldInv
  <2>2. CASE d = d0
    <3>1. Unfinished(daos'[d])
      BY <1>5, <1>10, <1>15, <2>2 DEF DaoOK, Unfinished
    <3> DEFINE holders == {h \in Holders : daos'[d].vestings[h] = 1}
    <3>2. holders = FirstBatches(i)
      BY <1>11, <1>15, <2>2
    <3>3. daos'[d].supply = daos'[d].agentTokens + VestedBy(holders)
      <4>1. daos'[d].supply = VestedBy(FirstBatches(i)) /\ daos'[d].supply \in Nat /\ daos'[d].agentTokens = 0
        BY <1>0, <1>5, <1>12, <1>15, <2>2 DEF DaoOK, Unfinished
      <4> HIDE DEF holders
      <4> QED BY <3>2, <4>1
    <3>4. ~daos'[d].finalized
      BY <1>5, <1>15, <2>2
    <3> QED BY <3>1, <3>3, <3>4 DEF DaoOK
  <2>3. CASE d # d0
    <3>1. daos'[d] = daos[d]
      BY <1>15, <2>1, <2>3
    <3>2. ASSUME NEW r \in DOMAIN registries, LeftBehind(r, d) PROVE LeftBehind(r, d)'
      BY SMTT(60), <1>0, <1>1, <1>2, <2>1, <3>2 DEF LeftBehind
    <3>3. daos[d].finalized => \E r \in DOMAIN registries' : LeftBehind(r, d)'
      BY <1>0, <2>1, <3>2 DEF DaoOK
    <3> QED BY <2>1, <3>1, <3>3 DEF DaoOK
  <2> QED BY <2>2, <2>3
<1>20. DaosAreKnown'
  BY <1>2, <1>15 DEF WorldInv, DaosAreKnown
<1>21. OneDaoEach'
  <2>1. NothingFinalized' => NothingFinalized
    BY <1>15 DEF NothingFinalized
  <2>2. \A d \in DOMAIN daos : chain'[d] = chain[d]
    BY <1>1, <1>2
  <2> QED BY <1>0, <1>15, <2>1, <2>2 DEF WorldInv, OneDaoEach
<1>22. ASSUME NEW d \in DOMAIN daos, AllVested(daos[d]) PROVE AllVested(daos'[d])
  <2>1. ASSUME NEW h \in Holders PROVE daos'[d].vestings[h] = 1
    <3>1. daos[d].vestings[h] = 1
      BY <1>22 DEF AllVested
    <3>2. CASE d = d0
      <4>1. AllVested(daos[d0])
        BY <1>22, <3>2
      <4>2. \A x \in Holders : vested[x] = 1
        BY <1>14, <4>1
      <4>3. daos'[d0].vestings = vested
        BY <1>15
      <4> QED BY <3>2, <4>2, <4>3
    <3>3. CASE d # d0
      <4>1. daos'[d] = daos[d]
        BY <1>15, <3>3
      <4> QED BY <3>1, <4>1
    <3> QED BY <3>2, <3>3
  <2> QED BY <2>1 DEF AllVested
<1> QED BY <1>16, <1>17, <1>18, <1>19, <1>20, <1>21, <1>22 DEF WorldInv

\* Only one DAO is ever finalized, whose tokens were all vested when the call
\* was saved; its template lets go of it and of its registry.
LEMMA FinalizeDAOKeeps ==
    ASSUME WorldInv, TemplateAssumption, DeploymentAssumption,
           NEW t \in DOMAIN templates, FinalizeDAO(t),
           AllVested(daos[templates[t].dao])
    PROVE  WorldInv' /\ ~NothingFinalized'
<1> DEFINE n == Len(chain) + 1
           r0 == templates[t].registry
           d0 == templates[t].dao
           r1 == [registries[r0] EXCEPT !.acl = FinalRegistryACL(@)]
           d1 == [daos[d0] EXCEPT !.supply = @ + UnvestedAmount,
                                  !.agentTokens = @ + UnvestedAmount,
                                  !.finalized = TRUE,
                                  !.acl = FinalACL(@)]
<1>0. /\ ChainTypeOK
      /\ UNCHANGED upstream
      /\ Mined(t, "TmplDaoFinalized")
      /\ d0 # None
      /\ NothingFinalized
      /\ daos' = [daos EXCEPT ![d0] = d1]
      /\ registries' = [registries EXCEPT ![r0].acl = FinalRegistryACL(@)]
      /\ templates' = [templates EXCEPT ![t] = [registry |-> None, dao |-> None]]
  <2>1. /\ ChainTypeOK
        /\ UNCHANGED upstream
        /\ Mined(t, "TmplDaoFinalized")
        /\ d0 # None
        /\ registries' = [registries EXCEPT ![r0].acl = FinalRegistryACL(@)]
        /\ templates' = [templates EXCEPT ![t] = [registry |-> None, dao |-> None]]
    BY DEF WorldInv, FinalizeDAO, CanFinalize
  <2>2. NothingFinalized
    BY DEF FinalizeDAO, CanFinalize, NothingFinalized
  <2>3. daos' = [daos EXCEPT ![d0].supply = @ + UnvestedAmount,
                             ![d0].agentTokens = @ + UnvestedAmount,
                             ![d0].finalized = TRUE,
                             ![d0].acl = FinalACL(@)]
    BY DEF FinalizeDAO
  <2>4. daos \in [DOMAIN daos -> Daos] /\ d0 \in DOMAIN daos
    BY <2>1, InstancesAre, Addresses
  <2>5. daos' = [daos EXCEPT ![d0] = d1]
    BY <2>3, <2>4
  <2> HIDE DEF d0, r0, d1
  <2> QED BY <2>1, <2>2, <2>5
<1>1. /\ DOMAIN templates \subseteq DOMAIN chain
      /\ DOMAIN registries \subseteq DOMAIN chain
      /\ DOMAIN daos \subseteq DOMAIN chain
      /\ None \notin DOMAIN chain
      /\ \A u \in DOMAIN templates : /\ templates[u].registry # None => templates[u].registry \in DOMAIN registries
                                     /\ templates[u].dao # None => templates[u].dao \in DOMAIN daos
  BY <1>0, Addresses
<1>2. /\ n \in Nat
      /\ n \notin DOMAIN chain
      /\ \A i \in DOMAIN chain : i \in Nat /\ i < n
      /\ DOMAIN chain' = DOMAIN chain \cup {n}
      /\ chain' \in Seq(Transactions)
      /\ \A i \in DOMAIN chain : chain'[i] = chain[i]
      /\ chain'[n] = [of |-> t, did |-> "TmplDaoFinalized"]
      /\ AddressesOf("LidoTemplate")' = AddressesOf("LidoTemplate")
      /\ \A i, a : HasCode(i, a) => HasCode(i, a)'
  <2>1. "TmplDaoFinalized" \in Events
    BY DEF Events
  <2> QED BY <1>0, <2>1, Transacts
<1>3. /\ templates \in [AddressesOf("LidoTemplate") -> Templates]
      /\ registries \in [DOMAIN registries -> Registries]
      /\ daos \in [DOMAIN daos -> Daos]
      /\ DOMAIN templates = AddressesOf("LidoTemplate")
  BY <1>0, InstancesAre
<1> HIDE DEF n
<1>4. d0 \in DOMAIN daos /\ DaoIsLater(t, r0, d0) /\ DaoOK(d0) /\ Unfinished(daos[d0]) /\ ~daos[d0].finalized
  BY <1>0, <1>1 DEF WorldInv, TemplateOK, DaoIsLater, DaoOK
<1>5. r0 \in DOMAIN registries /\ RegistryIsLatest(t, r0)
  BY <1>1, <1>4 DEF WorldInv, TemplateOK, DaoIsLater
<1>6. registries[r0].acl = FullRegistryACL
  BY <1>4, <1>5 DEF RegistryIsLatest, DaoIsLater
<1>7. /\ DOMAIN registries' = DOMAIN registries
      /\ \A r \in DOMAIN registries \ {r0} : registries'[r] = registries[r]
      /\ \A r \in DOMAIN registries : registries'[r].repos = registries[r].repos
      /\ registries'[r0].acl = FinalRegistryACL(FullRegistryACL)
      /\ registries' \in [DOMAIN registries' -> Registries]
  <2>1. registries[r0] \in Registries
    BY <1>3, <1>5
  <2>2. r1 \in Registries /\ r1.repos = registries[r0].repos /\ r1.acl = FinalRegistryACL(FullRegistryACL)
    BY <1>6, <2>1 DEF Registries
  <2>3. registries' = [registries EXCEPT ![r0] = r1]
    BY <1>0, <1>5
  <2> HIDE DEF r0, r1
  <2> QED BY <1>3, <1>5, <2>2, <2>3
<1>8. UnvestedAmount \in Nat
  BY DEF TemplateAssumption
<1>9. daos[d0] \in Daos
  BY <1>3, <1>4
<1>10. /\ d1 \in Daos
       /\ d1.supply = daos[d0].supply + UnvestedAmount
       /\ d1.agentTokens = daos[d0].agentTokens + UnvestedAmount
       /\ d1.finalized = TRUE
       /\ d1.acl = FinalACL(UnfinishedACL)
       /\ d1.vestings = daos[d0].vestings
       /\ d1.apps = daos[d0].apps
  <2>1. /\ daos[d0].acl = UnfinishedACL
        /\ daos[d0].supply + UnvestedAmount \in Nat
        /\ daos[d0].agentTokens + UnvestedAmount \in Nat
    BY <1>4, <1>8, <1>9 DEF Daos, Unfinished
  <2>2. d1 = [daos[d0] EXCEPT !.supply = daos[d0].supply + UnvestedAmount,
                              !.agentTokens = daos[d0].agentTokens + UnvestedAmount,
                              !.finalized = TRUE,
                              !.acl = FinalACL(UnfinishedACL)]
    BY <2>1
  <2> HIDE DEF d0, d1
  <2> QED BY <1>9, <2>1, <2>2 DEF Daos
<1>11. /\ DOMAIN daos' = DOMAIN daos
       /\ \A d \in DOMAIN daos \ {d0} : daos'[d] = daos[d]
       /\ \A d \in DOMAIN daos : daos'[d].apps = daos[d].apps
       /\ daos'[d0] = d1
       /\ daos' \in [DOMAIN daos' -> Daos]
  <2> HIDE DEF d0, d1
  <2> QED BY <1>0, <1>3, <1>4, <1>10
<1>12. /\ DOMAIN templates' = DOMAIN templates
       /\ \A u \in DOMAIN templates \ {t} : templates'[u] = templates[u]
       /\ templates'[t].registry = None /\ templates'[t].dao = None
       /\ templates' \in [DOMAIN templates -> Templates]
  BY <1>0, <1>3 DEF Templates
<1> HIDE DEF r0, d0, r1, d1
<1>13. ChainTypeOK'
  <2>1. registries' \in [DOMAIN registries' ->
            [repos : Publications, aragon : Nat,
             acl : {EmptyRegistryACL, FullRegistryACL, FinalRegistryACL(FullRegistryACL)}]]
    BY <1>7 DEF Registries
  <2>2. daos' \in [DOMAIN daos' ->
            [apps : [LidoApps -> Nat], supply : Nat, vestings : [Holders -> Nat], agentTokens : Nat,
             finalized : BOOLEAN, acl : {UnfinishedACL, FinalACL(UnfinishedACL)}]]
    BY <1>11 DEF Daos
  <2>3. templates' \in [AddressesOf("LidoTemplate")' ->
            [registry : DOMAIN registries' \cup {None}, dao : DOMAIN daos' \cup {None}]]
    BY <1>2, <1>3, <1>7, <1>11, <1>12 DEF Templates
  <2>4. DOMAIN registries' \subseteq DOMAIN chain' /\ DOMAIN daos' \subseteq DOMAIN chain'
    BY <1>1, <1>2, <1>7, <1>11
  <2> QED BY <1>0, <1>2, <2>1, <2>2, <2>3, <2>4 DEF ChainTypeOK
<1>14. ReposAreVerified' /\ InstalledCodeIsVerified'
  <2>1. ReposAreVerified'
    BY <1>2, <1>7 DEF WorldInv, ReposAreVerified, Verified
  <2>2. InstalledCodeIsVerified'
    BY <1>2, <1>11 DEF WorldInv, InstalledCodeIsVerified
  <2> QED BY <2>1, <2>2
<1>15. ASSUME NEW u \in DOMAIN templates' PROVE TemplateOK(u)'
  <2>1. CASE u = t
    BY <1>12, <2>1 DEF TemplateOK
  <2>2. CASE u # t
    <3>1. TemplateOK(u) /\ u \in DOMAIN templates /\ templates'[u] = templates[u]
      BY <1>12, <2>2 DEF WorldInv
    <3>2. /\ templates[u].registry # None => templates[u].registry \in DOMAIN registries
          /\ templates[u].dao # None => templates[u].dao \in DOMAIN daos
      BY <1>1, <3>1
    <3>3. templates[u].registry # r0
      BY <1>1, <1>5, <2>2, <3>1 DEF TemplateOK, RegistryIsLatest
    <3>4. templates[u].dao # d0
      BY <1>0, <1>4, <2>2, <3>1 DEF TemplateOK, DaoIsLater
    <3>5. templates[u].registry # None => RegistryIsLatest(u, templates[u].registry)'
      BY SMTT(60), <1>1, <1>2, <1>7, <3>1, <3>2, <3>3 DEF TemplateOK, RegistryIsLatest
    <3>6. templates[u].dao # None => DaoIsLater(u, templates[u].registry, templates[u].dao)'
      BY SMTT(60), <1>1, <1>2, <1>7, <1>11, <3>1, <3>2, <3>3, <3>4 DEF TemplateOK, DaoIsLater
    <3> QED BY <3>1, <3>5, <3>6 DEF TemplateOK
  <2> QED BY <2>1, <2>2
<1>16. ASSUME NEW d \in DOMAIN daos' PROVE DaoOK(d)'
  <2>1. CASE d = d0
    <3> DEFINE holders == {h \in Holders : daos[d0].vestings[h] = 1}
    <3>1. daos[d0].supply = daos[d0].agentTokens + VestedBy(holders) /\ daos[d0].agentTokens = 0
      BY <1>4 DEF DaoOK, Unfinished
    <3>2. holders = {h \in Holders : daos'[d].vestings[h] = 1}
      BY <1>10, <1>11, <2>1
    <3>3. daos[d0].supply \in Nat
      BY <1>9 DEF Daos
    <3>4. VestedBy(holders) \in Nat
      BY VestedMore
    <3>5. Finished(daos'[d])
      <4>1. \A h \in Holders : daos'[d].vestings[h] = 1
        BY <1>10, <1>11, <2>1 DEF AllVested, d0
      <4> QED BY <1>8, <1>10, <1>11, <2>1, <3>1, <4>1 DEF Finished
    <3>6. PICK r : r = r0
      OBVIOUS
    <3>7. \A u \in DOMAIN templates' : templates'[u].registry # r
      BY <1>1, <1>5, <1>12, <3>6 DEF WorldInv, TemplateOK, RegistryIsLatest
    <3>8. LeftBehind(r, d)'
      BY <1>1, <1>2, <1>4, <1>5, <1>7, <2>1, <3>6, <3>7 DEF LeftBehind, DaoIsLater, RegistryIsLatest
    <3>9. daos'[d].supply = daos'[d].agentTokens + VestedBy(holders)
      <4> HIDE DEF holders
      <4> QED BY <1>8, <1>10, <1>11, <2>1, <3>1, <3>3, <3>4
    <3>10. daos'[d].finalized = TRUE /\ r \in DOMAIN registries'
      BY <1>5, <1>7, <1>10, <1>11, <2>1, <3>6
    <3> QED BY <3>2, <3>5, <3>8, <3>9, <3>10 DEF DaoOK
  <2>2. CASE d # d0
    <3>1. DaoOK(d) /\ d \in DOMAIN daos /\ daos'[d] = daos[d] /\ ~daos[d].finalized
      BY <1>0, <1>11, <2>2 DEF WorldInv, NothingFinalized
    <3> QED BY <3>1 DEF DaoOK
  <2> QED BY <2>1, <2>2
<1>17. DaosAreKnown'
  BY <1>2, <1>11 DEF WorldInv, DaosAreKnown
<1>18. ~NothingFinalized'
  BY <1>4, <1>10, <1>11 DEF NothingFinalized
<1> QED BY <1>13, <1>14, <1>15, <1>16, <1>17, <1>18 DEF WorldInv, OneDaoEach

LEMMA ReleaseUpstreamKeeps == WorldInv /\ ReleaseUpstream => WorldInv'
<1> SUFFICES ASSUME WorldInv, ReleaseUpstream PROVE WorldInv'
  OBVIOUS
<1>1. UNCHANGED <<chain, templates, registries, daos>> /\ upstream' = upstream + 1
  BY DEF ReleaseUpstream
<1>2. ChainTypeOK'
  BY <1>1 DEF WorldInv, ChainTypeOK, AddressesOf, HasCode
<1>3. ReposAreVerified' /\ InstalledCodeIsVerified'
  BY <1>1 DEF WorldInv, ReposAreVerified, Verified, InstalledCodeIsVerified, HasCode
<1>4. \A t \in DOMAIN templates' : TemplateOK(t)'
  BY <1>1 DEF WorldInv, TemplateOK, RegistryIsLatest, DaoIsLater
<1>5. \A d \in DOMAIN daos' : DaoOK(d)'
  BY <1>1 DEF WorldInv, DaoOK, LeftBehind
<1>6. DaosAreKnown' /\ OneDaoEach'
  BY <1>1 DEF WorldInv, DaosAreKnown, OneDaoEach, NothingFinalized
<1> QED BY <1>2, <1>3, <1>4, <1>5, <1>6 DEF WorldInv

-----------------------------------------------------------------------------
(* Files *)

\* What a file may rely on: the chain only grows, and while nothing is finalized
\* a template keeps its DAO and the holders what they were vested.
Grown ==
    /\ \A i \in DOMAIN chain : i \in DOMAIN chain' /\ chain'[i] = chain[i]
    /\ DOMAIN templates \subseteq DOMAIN templates'
    /\ DOMAIN daos \subseteq DOMAIN daos'
    /\ NothingFinalized' =>
        /\ NothingFinalized
        /\ \A t \in DOMAIN templates : templates[t].dao # None => templates'[t].dao = templates[t].dao
    /\ \A d \in DOMAIN daos : AllVested(daos[d]) => AllVested(daos'[d])

LEMMA FilesStay ==
    ASSUME ChainTypeOK, FileOK, SavedOK, Grown, UNCHANGED <<file, saved>>
    PROVE  FileOK' /\ SavedOK'
<1>1. /\ \A i \in DOMAIN chain : i \in DOMAIN chain' /\ chain'[i] = chain[i]
      /\ DOMAIN templates \subseteq DOMAIN templates'
      /\ DOMAIN daos \subseteq DOMAIN daos'
  BY DEF Grown
<1>2. \A i, a : HasCode(i, a) => HasCode(i, a)'
  BY <1>1 DEF HasCode
<1>3. MaybeTemplate \subseteq MaybeTemplate'
  BY <1>1 DEF MaybeTemplate
<1>4. FileTypeOK'
  BY <1>1, <1>3 DEF FileOK, FileTypeOK
<1>5. FileOK'
  <2>1. file.dao # None => file.dao \in DOMAIN chain
    BY Addresses DEF FileOK, FileTypeOK
  <2> QED BY <1>1, <1>2, <1>4, <2>1 DEF FileOK
<1>6. SavedTypeOK'
  BY <1>3 DEF SavedOK, SavedTypeOK
<1>7. saved'.repos.to # None => Verified(saved.repos.apps)'
  BY <1>2 DEF SavedOK, Verified
<1>8. FinalizeOK'
  <2>1. SUFFICES ASSUME NothingFinalized', saved.finalize # None
                 PROVE  /\ templates'[saved.finalize].dao # None
                        /\ AllVested(daos'[templates'[saved.finalize].dao])
    BY DEF FinalizeOK
  <2>2. saved.finalize \in DOMAIN templates
    BY <2>1 DEF SavedOK, SavedTypeOK, MaybeTemplate
  <2>3. templates[saved.finalize].dao # None /\ AllVested(daos[templates[saved.finalize].dao])
    BY <2>1 DEF Grown, SavedOK, FinalizeOK
  <2>4. templates'[saved.finalize].dao = templates[saved.finalize].dao
    BY <2>1, <2>2, <2>3 DEF Grown
  <2>5. templates[saved.finalize].dao \in DOMAIN daos
    BY <2>2, <2>3, Addresses
  <2> QED BY <2>3, <2>4, <2>5 DEF Grown
<1> QED BY <1>5, <1>6, <1>7, <1>8 DEF SavedOK

LEMMA DeployGrows == ASSUME WorldInv, NEW a \in Artifacts, Deploy(a) PROVE Grown
<1>0. ChainTypeOK /\ UNCHANGED daos /\ Mined(Len(chain) + 1, a)
  BY DEF WorldInv, Deploy
<1>1. Len(chain) + 1 \in Nat /\ Len(chain) + 1 \notin DOMAIN templates
  BY <1>0, Addresses
<1>2. \A i \in DOMAIN chain : i \in DOMAIN chain' /\ chain'[i] = chain[i]
  BY <1>0, <1>1, MinedIs
<1>3. \A t \in DOMAIN templates : t \in DOMAIN templates' /\ templates'[t] = templates[t]
  BY <1>1 DEF Deploy, Created
<1> QED BY <1>0, <1>2, <1>3 DEF Grown, NothingFinalized

LEMMA TransactionGrows ==
    ASSUME WorldInv, NEW t \in DOMAIN templates, NEW e \in Events, Mined(t, e)
    PROVE  \A i \in DOMAIN chain : i \in DOMAIN chain' /\ chain'[i] = chain[i]
<1>1. ChainTypeOK
  BY DEF WorldInv
<1> QED BY <1>1, Transacts

LEMMA DeployLidoAPMGrows == ASSUME WorldInv, NEW t \in DOMAIN templates, DeployLidoAPM(t) PROVE Grown
<1>1. \A i \in DOMAIN chain : i \in DOMAIN chain' /\ chain'[i] = chain[i]
  BY TransactionGrows DEF DeployLidoAPM, Events
<1>2. templates \in [DOMAIN templates -> Templates]
  BY InstancesAre DEF WorldInv
<1>3. /\ DOMAIN templates' = DOMAIN templates
      /\ \A u \in DOMAIN templates : templates'[u].dao = templates[u].dao
  BY <1>2 DEF DeployLidoAPM, Templates
<1>4. UNCHANGED daos
  BY DEF DeployLidoAPM
<1> QED BY <1>1, <1>3, <1>4 DEF Grown, NothingFinalized

LEMMA CreateReposGrows == ASSUME WorldInv, NEW t \in DOMAIN templates, NEW apps, CreateRepos(t, apps) PROVE Grown
<1>1. \A i \in DOMAIN chain : i \in DOMAIN chain' /\ chain'[i] = chain[i]
  BY TransactionGrows DEF CreateRepos, Events
<1>2. UNCHANGED <<templates, daos>>
  BY DEF CreateRepos
<1> QED BY <1>1, <1>2 DEF Grown, NothingFinalized

LEMMA NewDAOGrows == ASSUME WorldInv, NEW t \in DOMAIN templates, NewDAO(t) PROVE Grown
<1>1. \A i \in DOMAIN chain : i \in DOMAIN chain' /\ chain'[i] = chain[i]
  BY TransactionGrows DEF NewDAO, Events
<1>2. /\ templates \in [DOMAIN templates -> Templates]
      /\ Len(chain) + 1 \notin DOMAIN daos
  BY InstancesAre, Addresses DEF WorldInv
<1>3. templates[t].dao = None /\ templates' = [templates EXCEPT ![t].dao = Len(chain) + 1]
  BY DEF NewDAO, CanCreateDAO
<1>4. /\ DOMAIN templates' = DOMAIN templates
      /\ \A u \in DOMAIN templates : templates[u].dao # None => templates'[u].dao = templates[u].dao
  BY <1>2, <1>3 DEF Templates
<1>5. \A d \in DOMAIN daos : d \in DOMAIN daos' /\ daos'[d] = daos[d]
  BY <1>2 DEF NewDAO, Created
<1> QED BY <1>1, <1>4, <1>5 DEF Grown, NothingFinalized

LEMMA IssueTokensGrows ==
    ASSUME WorldInv, TemplateAssumption, DeploymentAssumption,
           NEW t \in DOMAIN templates, NEW i \in 1 .. TotalTxes,
           IssueTokens(t, Batch(i), EndTotalSupply(i))
    PROVE  Grown
<1>1. \A k \in DOMAIN chain : k \in DOMAIN chain' /\ chain'[k] = chain[k]
  BY TransactionGrows DEF IssueTokens, Events
<1>2. daos \in [DOMAIN daos -> Daos] /\ UNCHANGED templates
  BY InstancesAre DEF WorldInv, IssueTokens
<1>3. \A d \in DOMAIN daos : AllVested(daos[d]) => AllVested(daos'[d])
  BY IssueTokensKeeps
<1>4. DOMAIN daos' = DOMAIN daos /\ \A d \in DOMAIN daos : daos'[d].finalized = daos[d].finalized
  BY <1>2 DEF IssueTokens, Daos
<1> QED BY <1>1, <1>2, <1>3, <1>4 DEF Grown, NothingFinalized

LEMMA FinalizeDAOGrows ==
    ASSUME WorldInv, TemplateAssumption, DeploymentAssumption,
           NEW t \in DOMAIN templates, FinalizeDAO(t), AllVested(daos[templates[t].dao])
    PROVE  Grown
<1>1. \A i \in DOMAIN chain : i \in DOMAIN chain' /\ chain'[i] = chain[i]
  BY TransactionGrows DEF FinalizeDAO, Events
<1>2. daos \in [DOMAIN daos -> Daos] /\ templates \in [DOMAIN templates -> Templates]
  BY InstancesAre DEF WorldInv
<1>3. ~NothingFinalized'
  BY FinalizeDAOKeeps
<1>4. DOMAIN daos' = DOMAIN daos /\ \A d \in DOMAIN daos : daos'[d].vestings = daos[d].vestings
  <2> DEFINE d0 == templates[t].dao
             d1 == [daos[d0] EXCEPT !.supply = @ + UnvestedAmount,
                                    !.agentTokens = @ + UnvestedAmount,
                                    !.finalized = TRUE,
                                    !.acl = FinalACL(@)]
  <2>1. daos' = [daos EXCEPT ![d0] = d1]
    BY DEF FinalizeDAO
  <2>2. d0 \in DOMAIN daos => d1.vestings = daos[d0].vestings
    BY <1>2 DEF Daos
  <2> HIDE DEF d0, d1
  <2> QED BY <1>2, <2>1, <2>2
<1>5. DOMAIN templates' = DOMAIN templates
  BY <1>2 DEF FinalizeDAO
<1> QED BY <1>1, <1>3, <1>4, <1>5 DEF Grown, AllVested

-----------------------------------------------------------------------------
(* Scripts: the chain stands still *)

LEMMA WorldStill ==
    ASSUME WorldInv, UNCHANGED templateVars
    PROVE  WorldInv' /\ Grown
<1>1. UNCHANGED <<chain, templates, registries, daos, upstream>>
  BY DEF templateVars
<1>2. Grown
  BY <1>1 DEF Grown, NothingFinalized
<1> QED BY <1>1, <1>2, WorldSame

\* A script that writes one of its two files leaves what it read in the other.
LEMMA FileStill ==
    ASSUME FileOK, UNCHANGED <<templateVars, file>>
    PROVE  FileOK'
BY DEF FileOK, FileTypeOK, MaybeTemplate, HasCode, templateVars

LEMMA SavedStill ==
    ASSUME SavedOK, UNCHANGED <<templateVars, saved>>
    PROVE  SavedOK'
BY DEF SavedOK, SavedTypeOK, MaybeTemplate, Verified, HasCode, FinalizeOK, NothingFinalized, templateVars

\* The last event of a template is a transaction of it.
LEMMA LastEventIs ==
    ASSUME ChainTypeOK, NEW t, NEW event, NEW from, AssertLastEvent(t, event, from)
    PROVE  LET last == LastEvent(t, from)
           IN  last \in DOMAIN chain /\ chain[last].of = t /\ last # t /\ chain[last].did = event
<1> DEFINE events == EventsOf(t, from)
           last == LastEvent(t, from)
<1>1. events # {} /\ chain[Max(events)].did = event
  BY DEF AssertLastEvent
<1>2. Len(chain) \in Nat /\ DOMAIN chain = 1 .. Len(chain)
  BY Addresses
<1>3. events \in SUBSET DOMAIN chain /\ \A i \in events : chain[i].of = t /\ i # t
  BY DEF EventsOf
<1>4. \E x \in events : \A y \in events : y <= x
  <2>1. events \in SUBSET Nat /\ \A y \in events : y <= Len(chain)
    BY <1>2, <1>3
  <2> HIDE DEF events
  <2> QED BY <1>1, <1>2, <2>1, NatMaximum
<1>5. Max(events) \in events
  <2> HIDE DEF events
  <2>1. events \in SUBSET Nat
    BY <1>2, <1>3
  <2>2. \E x \in events : \A y \in events : x >= y
    BY <1>4, <2>1
  <2> QED BY <2>2 DEF Max
<1> QED BY <1>1, <1>3, <1>5 DEF LastEvent

LEMMA SaveDeployTxsKeeps ==
    ASSUME DeploymentAssumption, FileOK, SavedOK, NEW n \in 1 .. Len(DeployOrder), SaveDeployTxs(n)
    PROVE  FileOK' /\ SavedOK'
<1>0. UNCHANGED templateVars
  BY DEF SaveDeployTxs
<1>1. FileOK'
  <2>1. CASE UNCHANGED file
    BY <1>0, <2>1, FileStill
  <2>2. CASE file' = [file EXCEPT !.deployTx = [a \in Artifacts |-> None]]
    <3>1. FileTypeOK'
      BY <1>0, <2>2 DEF FileOK, FileTypeOK, MaybeTemplate, templateVars, None
    <3>2. file'.apps = file.apps /\ file'.dao = file.dao /\ file'.template = file.template
      BY <2>2 DEF FileOK, FileTypeOK
    <3> QED BY <1>0, <3>1, <3>2 DEF FileOK, HasCode, templateVars
  <2> QED BY <2>1, <2>2 DEF SaveDeployTxs
<1>2. SavedOK'
  <2>1. {DeployOrder[k] : k \in 1 .. n} \subseteq Artifacts
    <3>1. DeployOrder \in Seq(Artifacts)
      <4>1. <<"LidoTemplate">> \in Seq(Artifacts) /\ AppList \in Seq(Artifacts)
        BY DEF DeploymentAssumption, Artifacts
      <4> QED BY <4>1 DEF DeployOrder
    <3> QED BY <3>1
  <2>2. saved' = [saved EXCEPT !.deploys = @ \cup {DeployOrder[k] : k \in 1 .. n}]
    BY DEF SaveDeployTxs
  <2> DEFINE now == saved.deploys \cup {DeployOrder[k] : k \in 1 .. n}
  <2>3. now \in SUBSET Artifacts
    BY <2>1 DEF SavedOK, SavedTypeOK
  <2>4. saved' = [saved EXCEPT !.deploys = now]
    BY <2>2
  <2> HIDE DEF now
  <2>5. SavedTypeOK'
    BY <1>0, <2>3, <2>4 DEF SavedOK, SavedTypeOK, MaybeTemplate, templateVars
  <2>6. saved'.repos = saved.repos /\ saved'.finalize = saved.finalize
    BY <2>4 DEF SavedOK, SavedTypeOK
  <2> QED BY <1>0, <2>5, <2>6 DEF SavedOK, Verified, HasCode, FinalizeOK, NothingFinalized, templateVars
<1> QED BY <1>1, <1>2

LEMMA RecordDeployTxKeeps ==
    ASSUME ChainTypeOK, FileOK, SavedOK, NEW a \in Artifacts, NEW tx \in Creations, RecordDeployTx(a, tx)
    PROVE  FileOK' /\ SavedOK'
<1>0. UNCHANGED <<templateVars, saved>> /\ file' = [file EXCEPT !.deployTx[a] = tx]
  BY DEF RecordDeployTx
<1>1. tx \in Nat
  BY Addresses DEF Creations
<1>2. FileTypeOK'
  BY <1>0, <1>1 DEF FileOK, FileTypeOK, MaybeTemplate, templateVars
<1>3. file'.apps = file.apps /\ file'.dao = file.dao /\ file'.template = file.template
  BY <1>0 DEF FileOK, FileTypeOK
<1>4. FileOK'
  BY <1>0, <1>2, <1>3 DEF FileOK, HasCode, templateVars
<1> QED BY <1>0, <1>4, SavedStill

\* Only what was compared with its artifact gets into the file.
LEMMA ObtainDeployedInstancesKeeps ==
    ASSUME ChainTypeOK, FileOK, SavedOK, NEW n \in 0 .. Len(AppList), ObtainDeployedInstances(n)
    PROVE  FileOK' /\ SavedOK'
<1> DEFINE obtained == {AppList[k] : k \in 1 .. n}
           apps == [a \in LidoApps |-> IF a \in obtained
                                       THEN [file.apps[a] EXCEPT !.base = file.deployTx[a]]
                                       ELSE file.apps[a]]
<1>0. /\ UNCHANGED <<templateVars, saved>>
      /\ HasCode(ObtainedTemplate, "LidoTemplate")
      /\ \A a \in obtained : HasCode(file.deployTx[a], a)
      /\ file' = [file EXCEPT !.template = ObtainedTemplate,
                              !.templateBlock = file.deployTx["LidoTemplate"],
                              !.apps = apps]
  BY DEF ObtainDeployedInstances, AssertDeployedBytecode
<1>1. ObtainedTemplate \in DOMAIN templates
  <2>1. DOMAIN templates = AddressesOf("LidoTemplate")
    BY InstancesAre
  <2> QED BY <1>0, <2>1 DEF AddressesOf, HasCode
<1>2. file.template # None => ObtainedTemplate = file.template
  BY DEF ObtainedTemplate, UseOrGetDeployed
<1>3. file.deployTx \in [Artifacts -> Nat] /\ file.apps \in [LidoApps -> AppStates]
  BY DEF FileOK, FileTypeOK
<1>4. file.deployTx["LidoTemplate"] \in Nat /\ \A a \in LidoApps : file.deployTx[a] \in Nat
  BY <1>3 DEF Artifacts
<1>5. apps \in [LidoApps -> AppStates]
  BY <1>3, <1>4 DEF AppStates
<1>6. \A a \in LidoApps : apps[a].base # None => HasCode(apps[a].base, a)
  <2>1. SUFFICES ASSUME NEW a \in LidoApps, apps[a].base # None PROVE HasCode(apps[a].base, a)
    OBVIOUS
  <2>2. CASE a \in obtained
    BY <1>0, <1>3, <2>2 DEF AppStates
  <2>3. CASE a \notin obtained
    BY <2>1, <2>3 DEF FileOK
  <2> QED BY <2>2, <2>3
<1> HIDE DEF apps
<1>7. FileTypeOK'
  BY <1>0, <1>1, <1>4, <1>5 DEF FileOK, FileTypeOK, MaybeTemplate, templateVars
<1>8. file'.apps = apps /\ file'.dao = file.dao /\ file'.template = ObtainedTemplate
  BY <1>0 DEF FileOK, FileTypeOK
<1>9. FileOK'
  <2>1. \A a \in LidoApps : file'.apps[a].base # None => HasCode(file.apps[a].base, a)'
    BY <1>0, <1>6, <1>8 DEF HasCode, templateVars
  <2>2. file'.dao # None => file'.template # None /\ chain'[file'.dao].of = file'.template
    BY <1>0, <1>2, <1>8 DEF FileOK, templateVars
  <2> QED BY <1>7, <2>1, <2>2 DEF FileOK
<1> QED BY <1>0, <1>9, SavedStill

LEMMA PublishAppFrontendKeeps ==
    ASSUME DeploymentAssumption, FileOK, SavedOK,
           NEW a \in LidoApps, NEW content \in Contents, PublishAppFrontend(a, content)
    PROVE  FileOK' /\ SavedOK'
<1>0. UNCHANGED <<templateVars, saved>> /\ file' = [file EXCEPT !.apps[a].content = content]
  BY DEF PublishAppFrontend
<1>1. content \in Nat
  BY DEF DeploymentAssumption
<1>2. file.apps \in [LidoApps -> AppStates]
  BY DEF FileOK, FileTypeOK
<1>3. /\ file'.apps \in [LidoApps -> AppStates]
      /\ \A b \in LidoApps : file'.apps[b].base = file.apps[b].base
      /\ file'.dao = file.dao /\ file'.template = file.template
  BY <1>0, <1>1, <1>2 DEF FileOK, FileTypeOK, AppStates
<1>4. FileTypeOK'
  <2>1. file' = [file EXCEPT !.apps = file'.apps]
    BY <1>0, <1>2 DEF FileOK, FileTypeOK
  <2> QED BY <1>0, <1>3, <2>1 DEF FileOK, FileTypeOK, MaybeTemplate, templateVars
<1>5. FileOK'
  BY <1>0, <1>3, <1>4 DEF FileOK, HasCode, templateVars
<1> QED BY <1>0, <1>5, SavedStill

LEMMA ObtainDeployedAPMKeeps ==
    ASSUME ChainTypeOK, FileOK, SavedOK, ObtainDeployedAPM
    PROVE  FileOK' /\ SavedOK'
<1> DEFINE registry == LastEvent(file.template, file.templateBlock)
<1>0. /\ UNCHANGED <<templateVars, saved>>
      /\ AssertLastEvent(file.template, "TmplAPMDeployed", file.templateBlock)
      /\ file' = [file EXCEPT !.apm = registry]
  BY DEF ObtainDeployedAPM
<1>1. registry \in Nat
  BY <1>0, Addresses, LastEventIs
<1> HIDE DEF registry
<1>2. FileTypeOK'
  BY <1>0, <1>1 DEF FileOK, FileTypeOK, MaybeTemplate, templateVars
<1>3. file'.apps = file.apps /\ file'.dao = file.dao /\ file'.template = file.template
  BY <1>0 DEF FileOK, FileTypeOK
<1>4. FileOK'
  BY <1>0, <1>2, <1>3 DEF FileOK, HasCode, templateVars
<1> QED BY <1>0, <1>4, SavedStill

\* The DAO of the last event is a DAO of the template.
LEMMA ObtainDeployedDAOKeeps ==
    ASSUME WorldInv, FileOK, SavedOK, ObtainDeployedDAO
    PROVE  FileOK' /\ SavedOK'
<1> DEFINE dao == LastEvent(file.template, file.templateBlock)
<1>0. /\ UNCHANGED <<templateVars, saved>>
      /\ file.template # None
      /\ AssertLastEvent(file.template, "TmplDAOAndTokenDeployed", file.templateBlock)
      /\ file' = [file EXCEPT !.dao = dao]
  BY DEF ObtainDeployedDAO
<1>1. /\ dao \in DOMAIN chain /\ chain[dao].of = file.template /\ dao # file.template
      /\ chain[dao].did = "TmplDAOAndTokenDeployed"
  BY <1>0, LastEventIs DEF WorldInv
<1>2. dao \in DOMAIN daos
  BY <1>1 DEF WorldInv, DaosAreKnown
<1> HIDE DEF dao
<1>3. FileTypeOK'
  BY <1>0, <1>2 DEF FileOK, FileTypeOK, MaybeTemplate, templateVars
<1>4. file'.apps = file.apps /\ file'.dao = dao /\ file'.template = file.template
  BY <1>0 DEF FileOK, FileTypeOK
<1>5. FileOK'
  BY <1>0, <1>1, <1>3, <1>4 DEF FileOK, HasCode, templateVars
<1> QED BY <1>0, <1>5, SavedStill

-----------------------------------------------------------------------------
(* Scripts that save a call *)

LEMMA SavesACall ==
    ASSUME FileOK, SavedOK, UNCHANGED <<templateVars, file>>,
           SavedTypeOK', saved'.repos = saved.repos, saved'.finalize = saved.finalize
    PROVE  FileOK' /\ SavedOK'
<1>1. FileOK'
  BY FileStill
<1>2. SavedOK'
  BY DEF SavedOK, Verified, HasCode, FinalizeOK, NothingFinalized, templateVars
<1> QED BY <1>1, <1>2

LEMMA RegisterENSDomainKeeps ==
    ASSUME FileOK, SavedOK, RegisterENSDomain
    PROVE  FileOK' /\ SavedOK'
<1>0. UNCHANGED <<templateVars, file>>
  BY DEF RegisterENSDomain
<1>1. PICK name \in DomainCalls : saved' = [saved EXCEPT !.domain = name]
  BY DEF RegisterENSDomain, DomainCalls
<1>2. SavedTypeOK' /\ saved'.repos = saved.repos /\ saved'.finalize = saved.finalize
  BY <1>0, <1>1 DEF SavedOK, SavedTypeOK, MaybeTemplate, templateVars
<1> QED BY <1>0, <1>2, SavesACall

LEMMA SaveDeployAPMKeeps ==
    ASSUME FileOK, SavedOK, SaveDeployAPM
    PROVE  FileOK' /\ SavedOK'
<1>0. UNCHANGED <<templateVars, file>> /\ saved' = [saved EXCEPT !.apm = file.template]
  BY DEF SaveDeployAPM
<1>1. file.template \in MaybeTemplate
  BY DEF FileOK, FileTypeOK
<1>2. SavedTypeOK' /\ saved'.repos = saved.repos /\ saved'.finalize = saved.finalize
  BY <1>0, <1>1 DEF SavedOK, SavedTypeOK, MaybeTemplate, templateVars
<1> QED BY <1>0, <1>2, SavesACall

LEMMA SaveNewDAOKeeps ==
    ASSUME FileOK, SavedOK, SaveNewDAO
    PROVE  FileOK' /\ SavedOK'
<1>0. UNCHANGED <<templateVars, file>> /\ saved' = [saved EXCEPT !.dao = file.template]
  BY DEF SaveNewDAO
<1>1. file.template \in MaybeTemplate
  BY DEF FileOK, FileTypeOK
<1>2. SavedTypeOK' /\ saved'.repos = saved.repos /\ saved'.finalize = saved.finalize
  BY <1>0, <1>1 DEF SavedOK, SavedTypeOK, MaybeTemplate, templateVars
<1> QED BY <1>0, <1>2, SavesACall

LEMMA SaveIssueTokensKeeps ==
    ASSUME FileOK, SavedOK, NEW n \in 1 .. TotalTxes, SaveIssueTokens(n)
    PROVE  FileOK' /\ SavedOK'
<1> DEFINE issue == [i \in 1 .. TotalTxes |-> IF i <= n THEN file.template ELSE saved.issue[i]]
<1>0. UNCHANGED <<templateVars, file>> /\ saved' = [saved EXCEPT !.issue = issue]
  BY DEF SaveIssueTokens
<1>1. issue \in [1 .. TotalTxes -> MaybeTemplate]
  BY DEF FileOK, FileTypeOK, SavedOK, SavedTypeOK
<1> HIDE DEF issue
<1>2. SavedTypeOK' /\ saved'.repos = saved.repos /\ saved'.finalize = saved.finalize
  BY <1>0, <1>1 DEF SavedOK, SavedTypeOK, MaybeTemplate, templateVars
<1> QED BY <1>0, <1>2, SavesACall

\* The repositories are made of what the file has of every application.
LEMMA SaveCreateReposKeeps ==
    ASSUME TemplateAssumption, FileOK, SavedOK, SaveCreateRepos
    PROVE  FileOK' /\ SavedOK'
<1> DEFINE repos == [to |-> file.template, apps |-> file.apps]
<1>0. /\ UNCHANGED <<templateVars, file>>
      /\ \A a \in LidoApps : file.apps[a].base # None
      /\ saved' = [saved EXCEPT !.repos = repos]
  BY DEF SaveCreateRepos
<1>1. repos \in [to : MaybeTemplate, apps : Publications] /\ repos.apps = file.apps
  BY DEF FileOK, FileTypeOK, Publications
<1>2. Verified(file.apps)
  <2>1. file.apps # NoRepos
    <3>1. DOMAIN file.apps # {}
      BY DEF FileOK, FileTypeOK, TemplateAssumption
    <3> QED BY <3>1 DEF NoRepos
  <2> QED BY <1>0, <2>1 DEF Verified, FileOK
<1> HIDE DEF repos
<1>3. SavedTypeOK' /\ saved'.repos = repos /\ saved'.finalize = saved.finalize
  BY <1>0, <1>1 DEF SavedOK, SavedTypeOK, MaybeTemplate, templateVars
<1>4. SavedOK'
  BY <1>0, <1>1, <1>2, <1>3 DEF SavedOK, Verified, HasCode, FinalizeOK, NothingFinalized, templateVars
<1> QED BY <1>0, <1>4, FileStill

\* The call to finalize is saved when the file's DAO, which is the template's,
\* has vested every holder.
LEMMA SaveFinalizeDAOKeeps ==
    ASSUME WorldInv, FileOK, SavedOK, SaveFinalizeDAO
    PROVE  FileOK' /\ SavedOK'
<1>0. /\ UNCHANGED <<templateVars, file>>
      /\ file.dao # None
      /\ AssertVesting(file.dao, 0)
      /\ templates[file.template].dao # None
      /\ NothingFinalized
      /\ saved' = [saved EXCEPT !.finalize = file.template]
  BY DEF SaveFinalizeDAO, CanFinalize, NothingFinalized
<1>1. file.dao \in DOMAIN daos /\ chain[file.dao].of = file.template /\ file.template \in MaybeTemplate
  BY <1>0 DEF FileOK, FileTypeOK
<1>2. templates[file.template].dao = file.dao
  BY <1>0, <1>1 DEF WorldInv, OneDaoEach
<1>3. AllVested(daos[file.dao])
  <2>1. DaoOK(file.dao) /\ ~daos[file.dao].finalized
    BY <1>0, <1>1 DEF WorldInv, NothingFinalized
  <2>2. PICK i \in 0 .. TotalTxes : VestedBatches(daos[file.dao].vestings, i)
    BY <2>1 DEF DaoOK, Unfinished
  <2>3. \A h \in Holders : daos[file.dao].vestings[h] > 0
    BY <1>0 DEF AssertVesting
  <2> QED BY <2>2, <2>3 DEF VestedBatches, AllVested
<1>4. SavedTypeOK' /\ saved'.repos = saved.repos /\ saved'.finalize = file.template
  BY <1>0, <1>1 DEF SavedOK, SavedTypeOK, MaybeTemplate, templateVars
<1>5. SavedOK'
  <2>1. FinalizeOK'
    BY <1>0, <1>2, <1>3, <1>4 DEF FinalizeOK, templateVars
  <2> QED BY <1>0, <1>4, <2>1 DEF SavedOK, Verified, HasCode, templateVars
<1> QED BY <1>0, <1>5, FileStill

-----------------------------------------------------------------------------
(* The invariant *)

LEMMA DeploymentInvInit ==
    ASSUME TemplateAssumption, DeploymentAssumption, DeploymentInit
    PROVE  DeploymentInv
<1>1. /\ chain = <<>> /\ templates = <<>> /\ registries = <<>> /\ daos = <<>> /\ upstream = 1
      /\ DOMAIN chain = {} /\ DOMAIN templates = {} /\ DOMAIN registries = {} /\ DOMAIN daos = {}
  BY DEF DeploymentInit, TemplateInit
<1>2. ChainTypeOK
  <2>1. AddressesOf("LidoTemplate") = {}
    BY <1>1 DEF AddressesOf
  <2>2. chain \in Seq(Transactions)
    BY <1>1
  <2>3. \A S : <<>> \in [{} -> S]
    OBVIOUS
  <2> QED BY <1>1, <2>1, <2>2, <2>3 DEF ChainTypeOK
<1>3. WorldInv
  BY <1>1, <1>2 DEF WorldInv, ReposAreVerified, InstalledCodeIsVerified, DaosAreKnown, OneDaoEach
<1>4. FileOK
  BY DEF DeploymentInit, FileOK, FileTypeOK, AppStates, AnApp, MaybeTemplate, None
<1>5. SavedOK
  BY DEF DomainCalls, DeploymentInit, SavedOK, SavedTypeOK, Publications, NoRepos, MaybeTemplate, FinalizeOK, None
<1> QED BY <1>3, <1>4, <1>5 DEF DeploymentInv

\* What is sent changes the chain and no file.
LEMMA Sent ==
    ASSUME DeploymentInv, WorldInv', Grown, UNCHANGED <<file, saved>>
    PROVE  DeploymentInv'
BY FilesStay DEF DeploymentInv, WorldInv

LEMMA SentElsewhere ==
    ASSUME DeploymentInv, UNCHANGED <<chain, templates, registries, daos, file, saved>>, WorldInv'
    PROVE  DeploymentInv'
<1>1. Grown
  BY DEF Grown, NothingFinalized
<1> QED BY <1>1, Sent

LEMMA Scripted ==
    ASSUME DeploymentInv, UNCHANGED templateVars, FileOK', SavedOK'
    PROVE  DeploymentInv'
BY WorldStill DEF DeploymentInv

LEMMA SendFinalizeDAOKeeps ==
    ASSUME TemplateAssumption, DeploymentAssumption, DeploymentInv, SendFinalizeDAO
    PROVE  DeploymentInv'
<1> DEFINE t == saved.finalize
<1>1. t # None /\ FinalizeDAO(t) /\ NothingFinalized /\ UNCHANGED <<file, saved>>
  BY DEF SendFinalizeDAO, FinalizeDAO, CanFinalize, NothingFinalized
<1>2. t \in DOMAIN templates
  BY <1>1 DEF DeploymentInv, SavedOK, SavedTypeOK, MaybeTemplate
<1>3. AllVested(daos[templates[t].dao])
  BY <1>1 DEF DeploymentInv, SavedOK, FinalizeOK
<1>4. WorldInv
  BY DEF DeploymentInv
<1> HIDE DEF t
<1>5. WorldInv'
  BY <1>1, <1>2, <1>3, <1>4, FinalizeDAOKeeps
<1>6. Grown
  BY <1>1, <1>2, <1>3, <1>4, FinalizeDAOGrows
<1> QED BY <1>1, <1>5, <1>6, Sent

LEMMA SendsKeep ==
    ASSUME TemplateAssumption, DeploymentAssumption, DeploymentInv,
           \/ \E a \in Artifacts : SendDeploy(a)
           \/ SendDeployLidoAPM
           \/ SendCreateRepos
           \/ SendNewDAO
           \/ \E i \in 1 .. TotalTxes : SendIssueTokens(i)
    PROVE  DeploymentInv'
<1>0. WorldInv /\ SavedTypeOK
  BY DEF DeploymentInv, SavedOK
<1>1. ASSUME NEW a \in Artifacts, SendDeploy(a) PROVE DeploymentInv'
  <2>1. Deploy(a) /\ UNCHANGED <<file, saved>>
    BY <1>1 DEF SendDeploy
  <2> QED BY <1>0, <2>1, DeployKeeps, DeployGrows, Sent
<1>2. CASE SendDeployLidoAPM
  <2>1. PICK t \in DOMAIN templates : DeployLidoAPM(t) /\ UNCHANGED <<file, saved>>
    BY <1>0, <1>2 DEF SendDeployLidoAPM, SavedTypeOK, MaybeTemplate
  <2> QED BY <1>0, <2>1, DeployLidoAPMKeeps, DeployLidoAPMGrows, Sent
<1>3. CASE SendCreateRepos
  <2>1. /\ saved.repos.to \in DOMAIN templates
        /\ saved.repos.apps \in Publications
        /\ CreateRepos(saved.repos.to, saved.repos.apps)
        /\ UNCHANGED <<file, saved>>
    BY <1>0, <1>3 DEF SendCreateRepos, SavedTypeOK, MaybeTemplate
  <2>2. Verified(saved.repos.apps)
    BY <1>3 DEF SendCreateRepos, DeploymentInv, SavedOK
  <2>3. PICK t \in DOMAIN templates, apps \in Publications : Verified(apps) /\ CreateRepos(t, apps)
    BY <2>1, <2>2
  <2> QED BY <1>0, <2>1, <2>3, CreateReposKeeps, CreateReposGrows, Sent
<1>4. CASE SendNewDAO
  <2>1. PICK t \in DOMAIN templates : NewDAO(t) /\ UNCHANGED <<file, saved>>
    BY <1>0, <1>4 DEF SendNewDAO, SavedTypeOK, MaybeTemplate
  <2> QED BY <1>0, <2>1, NewDAOKeeps, NewDAOGrows, Sent
<1>5. ASSUME NEW i \in 1 .. TotalTxes, SendIssueTokens(i) PROVE DeploymentInv'
  <2>1. PICK t \in DOMAIN templates :
            IssueTokens(t, Batch(i), EndTotalSupply(i)) /\ UNCHANGED <<file, saved>>
    BY <1>0, <1>5 DEF SendIssueTokens, SavedTypeOK, MaybeTemplate
  <2> QED BY <1>0, <2>1, IssueTokensKeeps, IssueTokensGrows, Sent
<1> QED BY <1>1, <1>2, <1>3, <1>4, <1>5

LEMMA OthersKeep ==
    ASSUME DeploymentInv,
           \/ ReleaseUpstream /\ UNCHANGED <<file, saved>>
           \/ SendDomain
           \/ \E t \in DOMAIN templates : SendCancelAndTransferDomain(t)
    PROVE  DeploymentInv'
<1>0. WorldInv
  BY DEF DeploymentInv
<1>1. CASE ReleaseUpstream /\ UNCHANGED <<file, saved>>
  <2>1. UNCHANGED <<chain, templates, registries, daos, file, saved>>
    BY <1>1 DEF ReleaseUpstream
  <2> QED BY <1>0, <1>1, <2>1, ReleaseUpstreamKeeps, SentElsewhere
<1>2. CASE SendDomain \/ \E t \in DOMAIN templates : SendCancelAndTransferDomain(t)
  <2>1. UNCHANGED <<chain, templates, registries, daos, upstream, file, saved>>
    BY <1>2 DEF SendDomain, SendCancelAndTransferDomain, CancelAndTransferDomain
  <2> QED BY <1>0, <2>1, WorldSame, SentElsewhere
<1> QED BY <1>1, <1>2

LEMMA ScriptsKeep ==
    ASSUME TemplateAssumption, DeploymentAssumption, DeploymentInv,
           \/ \E a \in Artifacts, tx \in Creations : RecordDeployTx(a, tx)
           \/ \E n \in 1 .. Len(DeployOrder) : SaveDeployTxs(n)
           \/ \E n \in 0 .. Len(AppList) : ObtainDeployedInstances(n)
           \/ RegisterENSDomain
           \/ \E a \in LidoApps, content \in Contents : PublishAppFrontend(a, content)
           \/ SaveDeployAPM
           \/ ObtainDeployedAPM
           \/ SaveCreateRepos
           \/ SaveNewDAO
           \/ ObtainDeployedDAO
           \/ \E n \in 1 .. TotalTxes : SaveIssueTokens(n)
           \/ SaveFinalizeDAO
    PROVE  DeploymentInv'
<1>0. WorldInv /\ ChainTypeOK /\ FileOK /\ SavedOK
  BY DEF DeploymentInv, WorldInv
<1>1. UNCHANGED templateVars
  BY DEF RecordDeployTx, SaveDeployTxs, ObtainDeployedInstances, RegisterENSDomain, PublishAppFrontend,
         SaveDeployAPM, ObtainDeployedAPM, SaveCreateRepos, SaveNewDAO, ObtainDeployedDAO,
         SaveIssueTokens, SaveFinalizeDAO
<1>2. ASSUME NEW a \in Artifacts, NEW tx \in Creations, RecordDeployTx(a, tx) PROVE FileOK' /\ SavedOK'
  BY <1>0, <1>2, RecordDeployTxKeeps
<1>3. ASSUME NEW n \in 1 .. Len(DeployOrder), SaveDeployTxs(n) PROVE FileOK' /\ SavedOK'
  BY <1>0, <1>3, SaveDeployTxsKeeps
<1>4. ASSUME NEW n \in 0 .. Len(AppList), ObtainDeployedInstances(n) PROVE FileOK' /\ SavedOK'
  BY <1>0, <1>4, ObtainDeployedInstancesKeeps
<1>5. CASE RegisterENSDomain
  BY <1>0, <1>1, <1>5, RegisterENSDomainKeeps, Scripted
<1>6. ASSUME NEW a \in LidoApps, NEW content \in Contents, PublishAppFrontend(a, content)
      PROVE  FileOK' /\ SavedOK'
  BY <1>0, <1>6, PublishAppFrontendKeeps
<1>7. CASE SaveDeployAPM
  BY <1>0, <1>1, <1>7, SaveDeployAPMKeeps, Scripted
<1>8. CASE ObtainDeployedAPM
  BY <1>0, <1>1, <1>8, ObtainDeployedAPMKeeps, Scripted
<1>9. CASE SaveCreateRepos
  BY <1>0, <1>1, <1>9, SaveCreateReposKeeps, Scripted
<1>10. CASE SaveNewDAO
  BY <1>0, <1>1, <1>10, SaveNewDAOKeeps, Scripted
<1>11. CASE ObtainDeployedDAO
  BY <1>0, <1>1, <1>11, ObtainDeployedDAOKeeps, Scripted
<1>12. ASSUME NEW n \in 1 .. TotalTxes, SaveIssueTokens(n) PROVE FileOK' /\ SavedOK'
  BY <1>0, <1>12, SaveIssueTokensKeeps
<1>13. CASE SaveFinalizeDAO
  BY <1>0, <1>1, <1>13, SaveFinalizeDAOKeeps, Scripted
<1> QED BY <1>1, <1>2, <1>3, <1>4, <1>5, <1>6, <1>7, <1>8, <1>9, <1>10, <1>11, <1>12, <1>13, Scripted

LEMMA DeploymentInvStep ==
    ASSUME TemplateAssumption, DeploymentAssumption, DeploymentInv, [DeploymentNext]_deploymentVars
    PROVE  DeploymentInv'
<1>1. CASE UNCHANGED deploymentVars
  <2>1. UNCHANGED <<chain, templates, registries, daos, upstream, file, saved>>
    BY <1>1 DEF deploymentVars, templateVars
  <2> QED BY <2>1, WorldSame, SentElsewhere DEF DeploymentInv
<1>2. CASE DeploymentNext
  BY <1>2, SendsKeep, SendFinalizeDAOKeeps, OthersKeep, ScriptsKeep DEF DeploymentNext
<1> QED BY <1>1, <1>2

LEMMA DeploymentInvHolds == DeploymentSpec => []DeploymentInv
<1>1. DeploymentInit => DeploymentInv
  BY DeploymentInvInit, TemplateAssumption, DeploymentAssumption
<1>2. DeploymentInv /\ [DeploymentNext]_deploymentVars => DeploymentInv'
  BY DeploymentInvStep, TemplateAssumption, DeploymentAssumption
<1> QED BY <1>1, <1>2, PTL DEF DeploymentSpec

\* Whatever was recorded, saved again or sent late, the applications that a DAO
\* installs are those whose bytecode 02 compared with their artifacts.
THEOREM DeploymentInstalledCodeIsVerified == DeploymentSpec => []InstalledCodeIsVerified
<1>1. DeploymentInv => InstalledCodeIsVerified
  BY DEF DeploymentInv, WorldInv
<1> QED BY <1>1, DeploymentInvHolds, PTL

\* However the batches that 10 saves are sent, _issueTokens of the template lets
\* no holder be vested twice, the tokens are those vested and the Agent's, and a
\* DAO that is finalized has vested every holder.
THEOREM DeploymentVestedExactly == DeploymentSpec => []VestedExactly
<1>1. ASSUME DeploymentInv PROVE VestedExactly
  <2> SUFFICES ASSUME NEW d \in DOMAIN daos
               PROVE  /\ \A h \in Holders : daos[d].vestings[h] \in (IF daos[d].finalized THEN {1} ELSE {0, 1})
                      /\ daos[d].supply = daos[d].agentTokens + VestedBy({h \in Holders : daos[d].vestings[h] = 1})
                      /\ daos[d].finalized => daos[d].agentTokens = UnvestedAmount
    BY DEF VestedExactly
  <2>1. DaoOK(d)
    BY <1>1 DEF DeploymentInv, WorldInv
  <2>2. CASE daos[d].finalized
    BY <2>1, <2>2 DEF DaoOK, Finished
  <2>3. CASE ~daos[d].finalized
    <3>1. PICK i \in 0 .. TotalTxes : VestedBatches(daos[d].vestings, i)
      BY <2>1, <2>3 DEF DaoOK, Unfinished
    <3> QED BY <2>1, <2>3, <3>1 DEF DaoOK, VestedBatches
  <2> QED BY <2>2, <2>3
<1> QED BY <1>1, DeploymentInvHolds, PTL

-----------------------------------------------------------------------------
(* Permissions, one at a time *)

LEMMA TransferIs ==
    ASSUME NEW acl, NEW ps, NEW p
    PROVE  LET now == TransferPermissionFromTemplate(acl, ps)
           IN  /\ p \in ps => /\ Manager(now, p) = "voting"
                              /\ Grantees(now, p) = (Grantees(acl, p) \cup {"voting"}) \ {"template"}
               /\ p \notin ps => Manager(now, p) = Manager(acl, p) /\ Grantees(now, p) = Grantees(acl, p)
<1> DEFINE granted == Grant(acl, ps, "voting")
           revoked == Revoke(granted, ps, "template")
           now == SetManager(revoked, ps, "voting")
<1>1. /\ Manager(granted, p) = Manager(acl, p)
      /\ p \in ps => Grantees(granted, p) = Grantees(acl, p) \cup {"voting"}
      /\ p \notin ps => Grantees(granted, p) = Grantees(acl, p)
  BY GrantIs
<1> HIDE DEF granted
<1>2. /\ Manager(revoked, p) = Manager(granted, p)
      /\ p \in ps => Grantees(revoked, p) = Grantees(granted, p) \ {"template"}
      /\ p \notin ps => Grantees(revoked, p) = Grantees(granted, p)
  BY RevokeIs
<1> HIDE DEF revoked
<1>3. /\ p \in ps => Manager(now, p) = "voting"
      /\ p \notin ps => Manager(now, p) = Manager(revoked, p)
      /\ Grantees(now, p) = Grantees(revoked, p)
  BY SetManagerIs
<1>4. now = TransferPermissionFromTemplate(acl, ps)
  BY DEF granted, revoked, TransferPermissionFromTemplate
<1> HIDE DEF now
<1> QED BY <1>1, <1>2, <1>3, <1>4

LEMMA TransferDomain ==
    ASSUME NEW acl, NEW ps
    PROVE  DOMAIN TransferPermissionFromTemplate(acl, ps) = DOMAIN acl \cup ps
<1>1. DOMAIN Grant(acl, ps, "voting") = DOMAIN acl \cup ps
  BY DEF Grant
<1>2. DOMAIN Revoke(Grant(acl, ps, "voting"), ps, "template") = DOMAIN Grant(acl, ps, "voting") \cup ps
  BY DEF Revoke
<1> QED BY <1>1, <1>2 DEF TransferPermissionFromTemplate, SetManager

LEMMA RemoveIs ==
    ASSUME NEW acl, NEW ps, NEW p
    PROVE  LET now == RemovePermissionFromTemplate(acl, ps)
           IN  /\ p \in ps => /\ Manager(now, p) = Nobody
                              /\ Grantees(now, p) = Grantees(acl, p) \ {"template"}
               /\ p \notin ps => Manager(now, p) = Manager(acl, p) /\ Grantees(now, p) = Grantees(acl, p)
BY RevokeIs, SetManagerIs DEF RemovePermissionFromTemplate

\* What no one set of the permissions of a DAO has in common with another.
LEMMA RolesApart ==
    ASSUME NEW p
    PROVE  /\ p \in RootRoles => p \notin CreatedForVoting \cup VaultRoles \cup CreateVotesRoles \cup TemplateRoles
           /\ p \in VaultRoles => p \notin CreatedForVoting \cup CreateVotesRoles \cup TemplateRoles
           /\ p \in CreateVotesRoles => p \notin CreatedForVoting \cup TemplateRoles
<1>1. p \in RootRoles => p[1] \in {"acl", "kernel"}
  BY DEF RootRoles
<1>2. p \in VaultRoles => p = <<"agent", "TRANSFER_ROLE">>
  BY DEF VaultRoles
<1>3. p \in CreateVotesRoles => p = <<"voting", "CREATE_VOTES_ROLE">>
  BY DEF CreateVotesRoles
<1>4. p \in TemplateRoles => p[1] = "tokenManager"
  BY DEF TemplateRoles, Roles
<1>5. p \in CreatedForVoting =>
         /\ p[1] \notin {"acl", "kernel"}
         /\ p[2] \notin {"TRANSFER_ROLE", "CREATE_VOTES_ROLE"}
  <2>1. p \in AgentRoles \cup FinanceRoles \cup EvmScriptsRegistryRoles \cup VotingRoles =>
         p[1] \notin {"acl", "kernel"} /\ p[2] \notin {"TRANSFER_ROLE", "CREATE_VOTES_ROLE"}
    BY DEF AgentRoles, FinanceRoles, EvmScriptsRegistryRoles, VotingRoles, Roles
  <2>2. p \in OracleRoles \cup OperatorsRoles => 
         p[1] \notin {"acl", "kernel"} /\ p[2] \notin {"TRANSFER_ROLE", "CREATE_VOTES_ROLE"}
    BY DEF OracleRoles, OperatorsRoles, Roles
  <2>3. p \in LidoRoles \cup {<<"tokenManager", "ASSIGN_ROLE">>} => 
         p[1] \notin {"acl", "kernel"} /\ p[2] \notin {"TRANSFER_ROLE", "CREATE_VOTES_ROLE"}
    BY DEF LidoRoles, Roles
  <2> QED BY <2>1, <2>2, <2>3 DEF CreatedForVoting
<1> QED BY <1>1, <1>2, <1>3, <1>4, <1>5

\* Every permission of a DAO that was finalized.
LEMMA FinalACLIs ==
    ASSUME NEW p
    PROVE  LET now == FinalACL(UnfinishedACL)
           IN  /\ p \in RootRoles \cup CreatedForVoting => Manager(now, p) = "voting" /\ Grantees(now, p) = {"voting"}
               /\ p \in VaultRoles => Manager(now, p) = "voting" /\ Grantees(now, p) = {"finance"}
               /\ p \in CreateVotesRoles => Manager(now, p) = "voting" /\ Grantees(now, p) = {"tokenManager"}
               /\ p \notin RootRoles \cup CreatedForVoting \cup VaultRoles \cup CreateVotesRoles =>
                    Manager(now, p) = Nobody /\ Grantees(now, p) = {}
<1> DEFINE freed == RemovePermissionFromTemplate(UnfinishedACL, TemplateRoles)
           voting == Create(freed, CreatedForVoting, "voting", "voting")
           vault == Create(voting, VaultRoles, "finance", "voting")
           votes == Create(vault, CreateVotesRoles, "tokenManager", "voting")
           now == TransferPermissionFromTemplate(votes, RootRoles)
<1>1. /\ p \in RootRoles \cup TemplateRoles => Grantees(UnfinishedACL, p) = {"template"}
      /\ p \notin RootRoles \cup TemplateRoles => Manager(UnfinishedACL, p) = Nobody /\ Grantees(UnfinishedACL, p) = {}
  <2> DEFINE ps == RootRoles \cup TemplateRoles
  <2>1. UnfinishedACL = Create(NoPermissions, ps, "template", "template")
    BY DEF UnfinishedACL
  <2> HIDE DEF ps
  <2>2. /\ p \in ps => Grantees(UnfinishedACL, p) = {"template"}
        /\ p \notin ps => Manager(UnfinishedACL, p) = Nobody /\ Grantees(UnfinishedACL, p) = {}
    BY <2>1, CreateIs, NothingIsPermitted
  <2> QED BY <2>2 DEF ps
<1>2. /\ p \in TemplateRoles => Manager(freed, p) = Nobody /\ Grantees(freed, p) = Grantees(UnfinishedACL, p) \ {"template"}
      /\ p \notin TemplateRoles => /\ Manager(freed, p) = Manager(UnfinishedACL, p)
                                   /\ Grantees(freed, p) = Grantees(UnfinishedACL, p)
  BY RemoveIs
<1> HIDE DEF freed
<1>3. /\ p \in CreatedForVoting => Manager(voting, p) = "voting" /\ Grantees(voting, p) = Grantees(freed, p) \cup {"voting"}
      /\ p \notin CreatedForVoting => Manager(voting, p) = Manager(freed, p) /\ Grantees(voting, p) = Grantees(freed, p)
  BY CreateIs
<1> HIDE DEF voting
<1>4. /\ p \in VaultRoles => Manager(vault, p) = "voting" /\ Grantees(vault, p) = Grantees(voting, p) \cup {"finance"}
      /\ p \notin VaultRoles => Manager(vault, p) = Manager(voting, p) /\ Grantees(vault, p) = Grantees(voting, p)
  BY CreateIs
<1> HIDE DEF vault
<1>5. /\ p \in CreateVotesRoles => Manager(votes, p) = "voting" /\ Grantees(votes, p) = Grantees(vault, p) \cup {"tokenManager"}
      /\ p \notin CreateVotesRoles => Manager(votes, p) = Manager(vault, p) /\ Grantees(votes, p) = Grantees(vault, p)
  BY CreateIs
<1> HIDE DEF votes
<1>6. /\ p \in RootRoles => Manager(now, p) = "voting" /\ Grantees(now, p) = (Grantees(votes, p) \cup {"voting"}) \ {"template"}
      /\ p \notin RootRoles => Manager(now, p) = Manager(votes, p) /\ Grantees(now, p) = Grantees(votes, p)
  BY TransferIs
<1>7. now = FinalACL(UnfinishedACL)
  BY DEF FinalACL, freed, voting, vault, votes
<1> HIDE DEF now
<1>8. CASE p \in RootRoles
  BY <1>1, <1>2, <1>3, <1>4, <1>5, <1>6, <1>7, <1>8, RolesApart
<1>9. CASE p \in CreatedForVoting
  BY <1>1, <1>2, <1>3, <1>4, <1>5, <1>6, <1>7, <1>9, RolesApart
<1>10. CASE p \in VaultRoles \cup CreateVotesRoles
  BY <1>1, <1>2, <1>3, <1>4, <1>5, <1>6, <1>7, <1>10, RolesApart
<1>11. CASE p \notin RootRoles \cup CreatedForVoting \cup VaultRoles \cup CreateVotesRoles
  BY <1>1, <1>2, <1>3, <1>4, <1>5, <1>6, <1>7, <1>11, RolesApart
<1> QED BY <1>8, <1>9, <1>10, <1>11

\* The permissions of a registry are apart: each is of another application, and
\* those of the repositories, which may have any names, are of one role.
LEMMA RegistryRolesApart ==
    ASSUME NEW p, NEW names
    PROVE  /\ p \in RegistryKernelRoles => p[1] = "registry.kernel" /\ p[2] = "APP_MANAGER_ROLE"
           /\ p \in RegistryRootRoles => p[1] = "registry.acl" /\ p[2] = "CREATE_PERMISSIONS_ROLE"
           /\ p \in RegistrarRoles => p[1] = "registrar" /\ p[2] \in {"CREATE_NAME_ROLE", "POINT_ROOTNODE_ROLE"}
           /\ p \in RegistryRoles => p[1] = "registry" /\ p[2] = "CREATE_REPO_ROLE"
           /\ p \in RepoRoles(names) => p[2] = "CREATE_VERSION_ROLE"
BY DEF RegistryKernelRoles, RegistryRootRoles, RegistrarRoles, RegistryRoles, RepoRoles, Roles

AllRepoRoles == RepoRoles(LidoApps \cup AragonRepos \cup ApmRepos)

LEMMA AllRepoRolesAre == AllRepoRoles = RepoRoles(ApmRepos) \cup RepoRoles(LidoApps \cup AragonRepos)
BY DEF AllRepoRoles, RepoRoles

\* Every permission of the registry of an unfinished DAO.
LEMMA FullRegistryACLIs ==
    ASSUME NEW p
    PROVE  LET now == FullRegistryACL
           IN  /\ p \in RegistryKernelRoles => Manager(now, p) = "template" /\ Grantees(now, p) = {"factory"}
               /\ p \in RegistryRootRoles => Manager(now, p) = "template" /\ Grantees(now, p) = {"template", "registry"}
               /\ p \in RegistrarRoles => Manager(now, p) = "template" /\ Grantees(now, p) = {"registry"}
               /\ p \in RegistryRoles \cup AllRepoRoles => Manager(now, p) = "template" /\ Grantees(now, p) = {"template"}
               /\ p \notin RegistryKernelRoles \cup RegistryRootRoles \cup RegistrarRoles \cup RegistryRoles \cup AllRepoRoles =>
                    Manager(now, p) = Nobody /\ Grantees(now, p) = {}
<1> DEFINE kernel == Create(NoPermissions, RegistryKernelRoles, "factory", "template")
           root1 == Create(kernel, RegistryRootRoles, "template", "template")
           root == Create(root1, RegistryRootRoles, "registry", "template")
           names == Create(root, RegistrarRoles, "registry", "template")
           repos1 == Create(names, RegistryRoles, "template", "template")
           repos == Create(repos1, RegistryRoles, "factory", "template")
           apm == Create(repos, RepoRoles(ApmRepos), "template", "template")
           empty == Revoke(apm, RegistryRoles, "factory")
           now == Create(empty, RepoRoles(LidoApps \cup AragonRepos), "template", "template")
<1>0. now = FullRegistryACL
  BY DEF FullRegistryACL, EmptyRegistryACL, NewRegistryACL
<1>1. /\ p \in RegistryKernelRoles => Manager(kernel, p) = "template" /\ Grantees(kernel, p) = {"factory"}
      /\ p \notin RegistryKernelRoles => Manager(kernel, p) = Nobody /\ Grantees(kernel, p) = {}
  BY CreateIs, NothingIsPermitted
<1> HIDE DEF kernel
<1>2. /\ p \in RegistryRootRoles => Manager(root1, p) = "template" /\ Grantees(root1, p) = Grantees(kernel, p) \cup {"template"}
      /\ p \notin RegistryRootRoles => Manager(root1, p) = Manager(kernel, p) /\ Grantees(root1, p) = Grantees(kernel, p)
  BY CreateIs
<1> HIDE DEF root1
<1>3. /\ p \in RegistryRootRoles => Manager(root, p) = "template" /\ Grantees(root, p) = Grantees(root1, p) \cup {"registry"}
      /\ p \notin RegistryRootRoles => Manager(root, p) = Manager(root1, p) /\ Grantees(root, p) = Grantees(root1, p)
  BY CreateIs
<1> HIDE DEF root
<1>4. /\ p \in RegistrarRoles => Manager(names, p) = "template" /\ Grantees(names, p) = Grantees(root, p) \cup {"registry"}
      /\ p \notin RegistrarRoles => Manager(names, p) = Manager(root, p) /\ Grantees(names, p) = Grantees(root, p)
  BY CreateIs
<1> HIDE DEF names
<1>5. /\ p \in RegistryRoles => Manager(repos1, p) = "template" /\ Grantees(repos1, p) = Grantees(names, p) \cup {"template"}
      /\ p \notin RegistryRoles => Manager(repos1, p) = Manager(names, p) /\ Grantees(repos1, p) = Grantees(names, p)
  BY CreateIs
<1> HIDE DEF repos1
<1>6. /\ p \in RegistryRoles => Manager(repos, p) = "template" /\ Grantees(repos, p) = Grantees(repos1, p) \cup {"factory"}
      /\ p \notin RegistryRoles => Manager(repos, p) = Manager(repos1, p) /\ Grantees(repos, p) = Grantees(repos1, p)
  BY CreateIs
<1> HIDE DEF repos
<1>7. /\ p \in RepoRoles(ApmRepos) => Manager(apm, p) = "template" /\ Grantees(apm, p) = Grantees(repos, p) \cup {"template"}
      /\ p \notin RepoRoles(ApmRepos) => Manager(apm, p) = Manager(repos, p) /\ Grantees(apm, p) = Grantees(repos, p)
  BY CreateIs
<1> HIDE DEF apm
<1>8. /\ Manager(empty, p) = Manager(apm, p)
      /\ p \in RegistryRoles => Grantees(empty, p) = Grantees(apm, p) \ {"factory"}
      /\ p \notin RegistryRoles => Grantees(empty, p) = Grantees(apm, p)
  BY RevokeIs
<1> HIDE DEF empty
<1> DEFINE others == RepoRoles(LidoApps \cup AragonRepos)
<1>9. /\ p \in others => Manager(now, p) = "template" /\ Grantees(now, p) = Grantees(empty, p) \cup {"template"}
      /\ p \notin others => Manager(now, p) = Manager(empty, p) /\ Grantees(now, p) = Grantees(empty, p)
  <2> HIDE DEF others
  <2>1. now = Create(empty, others, "template", "template")
    BY DEF others
  <2> HIDE DEF now
  <2> QED BY <2>1, CreateIs
<1> HIDE DEF now
<1>10. AllRepoRoles = RepoRoles(ApmRepos) \cup others
  BY AllRepoRolesAre
<1>11. p \in others \cup RepoRoles(ApmRepos) => p[2] = "CREATE_VERSION_ROLE"
  BY RegistryRolesApart
<1> HIDE DEF others
<1> DEFINE K == p \in RegistryKernelRoles
           A == p \in RegistryRootRoles
           N == p \in RegistrarRoles
           R == p \in RegistryRoles
           P == p \in AllRepoRoles
<1>12. /\ K => ~A /\ ~N /\ ~R /\ ~P
       /\ A => ~N /\ ~R /\ ~P
       /\ N => ~R /\ ~P
       /\ R => ~P
  BY <1>10, <1>11, RegistryRolesApart
<1>13. CASE K \/ A
  BY <1>1, <1>2, <1>3, <1>4, <1>5, <1>6, <1>7, <1>8, <1>9, <1>0, <1>10, <1>12, <1>13
<1>14. CASE N
  BY <1>1, <1>2, <1>3, <1>4, <1>5, <1>6, <1>7, <1>8, <1>9, <1>0, <1>10, <1>12, <1>14
<1>15. CASE R
  BY <1>1, <1>2, <1>3, <1>4, <1>5, <1>6, <1>7, <1>8, <1>9, <1>0, <1>10, <1>12, <1>15
<1>16. CASE P
  BY <1>1, <1>2, <1>3, <1>4, <1>5, <1>6, <1>7, <1>8, <1>9, <1>0, <1>10, <1>12, <1>16
<1>17. CASE ~K /\ ~A /\ ~N /\ ~R /\ ~P
  BY <1>1, <1>2, <1>3, <1>4, <1>5, <1>6, <1>7, <1>8, <1>9, <1>0, <1>10, <1>12, <1>17
<1> QED BY <1>13, <1>14, <1>15, <1>16, <1>17

\* ... and of one that was finalized.
LEMMA FinalRegistryACLIs ==
    ASSUME NEW p
    PROVE  LET now == FinalRegistryACL(FullRegistryACL)
           IN  /\ p \in RegistryKernelRoles => Manager(now, p) = "voting" /\ Grantees(now, p) = {"factory"}
               /\ p \in RegistryRootRoles => Manager(now, p) = "voting" /\ Grantees(now, p) = {"voting", "registry"}
               /\ p \in RegistrarRoles => Manager(now, p) = "voting" /\ Grantees(now, p) = {"registry"}
               /\ p \in RegistryRoles \cup AllRepoRoles => Manager(now, p) = "voting" /\ Grantees(now, p) = {"voting"}
               /\ p \notin RegistryKernelRoles \cup RegistryRootRoles \cup RegistrarRoles \cup RegistryRoles \cup AllRepoRoles =>
                    Manager(now, p) = Nobody /\ Grantees(now, p) = {}
<1> DEFINE ps == RegistryRoles \cup RegistryRootRoles \cup AllRepoRoles
           others == RegistryKernelRoles \cup RegistrarRoles
           acl == FullRegistryACL
           given == TransferPermissionFromTemplate(acl, ps)
           now == SetManager(given, others, "voting")
<1>0. now = FinalRegistryACL(FullRegistryACL)
  BY DEF FinalRegistryACL, AllRepoRoles
<1>1. /\ p \in ps => Manager(given, p) = "voting" /\ Grantees(given, p) = (Grantees(acl, p) \cup {"voting"}) \ {"template"}
      /\ p \notin ps => Manager(given, p) = Manager(acl, p) /\ Grantees(given, p) = Grantees(acl, p)
  <2> HIDE DEF ps, acl
  <2> QED BY TransferIs
<1> HIDE DEF given
<1>2. /\ p \in others => Manager(now, p) = "voting"
      /\ p \notin others => Manager(now, p) = Manager(given, p)
      /\ Grantees(now, p) = Grantees(given, p)
  <2> HIDE DEF others
  <2> QED BY SetManagerIs
<1> HIDE DEF now
<1> DEFINE K == p \in RegistryKernelRoles
           A == p \in RegistryRootRoles
           N == p \in RegistrarRoles
           R == p \in RegistryRoles
           P == p \in AllRepoRoles
<1>3. P => p[2] = "CREATE_VERSION_ROLE"
  BY RegistryRolesApart DEF AllRepoRoles
<1>4. /\ K => ~A /\ ~N /\ ~R /\ ~P
      /\ A => ~N /\ ~R /\ ~P
      /\ N => ~R /\ ~P
      /\ R => ~P
  BY <1>3, RegistryRolesApart
<1>5. /\ K => Grantees(acl, p) = {"factory"}
      /\ A => Grantees(acl, p) = {"template", "registry"}
      /\ N => Grantees(acl, p) = {"registry"}
      /\ R \/ P => Grantees(acl, p) = {"template"}
      /\ ~K /\ ~A /\ ~N /\ ~R /\ ~P => Manager(acl, p) = Nobody /\ Grantees(acl, p) = {}
  BY FullRegistryACLIs
<1> HIDE DEF acl
<1> QED BY <1>0, <1>1, <1>2, <1>4, <1>5

\* The roles of each application that anyone is given.
LEMMA RolesOfApps ==
    ASSUME NEW p, p \in RootRoles \cup CreatedForVoting \cup VaultRoles \cup CreateVotesRoles
    PROVE  /\ p[1] = "agent" => p[2] \in {"EXECUTE_ROLE", "RUN_SCRIPT_ROLE", "TRANSFER_ROLE"}
           /\ p[1] = "finance" => p[2] \in {"EXECUTE_PAYMENTS_ROLE", "MANAGE_PAYMENTS_ROLE", "CREATE_PAYMENTS_ROLE"}
           /\ p[1] = "tokenManager" => p[2] = "ASSIGN_ROLE"
<1>1. CASE p \in RootRoles \cup VaultRoles \cup CreateVotesRoles
  BY <1>1 DEF RootRoles, VaultRoles, CreateVotesRoles
<1>2. CASE p \in AgentRoles \cup FinanceRoles
  BY <1>2 DEF AgentRoles, FinanceRoles, Roles
<1>3. CASE p \in EvmScriptsRegistryRoles \cup VotingRoles \cup {<<"tokenManager", "ASSIGN_ROLE">>}
  BY <1>3 DEF EvmScriptsRegistryRoles, VotingRoles, Roles
<1>4. CASE p \in OracleRoles \cup OperatorsRoles \cup LidoRoles
  <2>1. p[1] \in {"oracle", "nops", "lido"}
    BY <1>4 DEF OracleRoles, OperatorsRoles, LidoRoles, Roles
  <2> QED BY <2>1
<1> QED BY <1>1, <1>2, <1>3, <1>4 DEF CreatedForVoting

LEMMA FinalRegistryACLDomain ==
    DOMAIN FinalRegistryACL(FullRegistryACL) =
        RegistryKernelRoles \cup RegistryRootRoles \cup RegistrarRoles \cup RegistryRoles \cup AllRepoRoles
<1> DEFINE kernel == Create(NoPermissions, RegistryKernelRoles, "factory", "template")
           root == Create(Create(kernel, RegistryRootRoles, "template", "template"),
                          RegistryRootRoles, "registry", "template")
           names == Create(root, RegistrarRoles, "registry", "template")
           repos == Create(Create(names, RegistryRoles, "template", "template"),
                           RegistryRoles, "factory", "template")
           apm == Create(repos, RepoRoles(ApmRepos), "template", "template")
           ps == RegistryRoles \cup RegistryRootRoles \cup AllRepoRoles
           given == TransferPermissionFromTemplate(FullRegistryACL, ps)
<1>1. DOMAIN kernel = RegistryKernelRoles
  <2>1. DOMAIN NoPermissions = {}
    BY DEF NoPermissions
  <2> QED BY <2>1 DEF Create
<1> HIDE DEF kernel
<1>2. DOMAIN root = DOMAIN kernel \cup RegistryRootRoles
  BY DEF Create
<1> HIDE DEF root
<1>3. DOMAIN names = DOMAIN root \cup RegistrarRoles
  BY DEF Create
<1> HIDE DEF names
<1>4. DOMAIN repos = DOMAIN names \cup RegistryRoles
  BY DEF Create
<1> HIDE DEF repos
<1>5. DOMAIN apm = DOMAIN repos \cup RepoRoles(ApmRepos)
  BY DEF Create
<1>6. apm = NewRegistryACL
  BY DEF NewRegistryACL, repos, names, root, kernel
<1> HIDE DEF apm
<1>7. DOMAIN EmptyRegistryACL = DOMAIN apm \cup RegistryRoles
  BY <1>6 DEF EmptyRegistryACL, Revoke
<1>8. DOMAIN FullRegistryACL = DOMAIN EmptyRegistryACL \cup RepoRoles(LidoApps \cup AragonRepos)
  BY DEF FullRegistryACL, Create
<1>9. DOMAIN given = DOMAIN FullRegistryACL \cup ps
  BY TransferDomain
<1>10. FinalRegistryACL(FullRegistryACL) = SetManager(given, RegistryKernelRoles \cup RegistrarRoles, "voting")
  BY DEF FinalRegistryACL, AllRepoRoles
<1> HIDE DEF given
<1>11. DOMAIN FinalRegistryACL(FullRegistryACL) = DOMAIN given \cup RegistryKernelRoles \cup RegistrarRoles
  BY <1>10 DEF SetManager
<1> QED BY <1>1, <1>2, <1>3, <1>4, <1>5, <1>7, <1>8, <1>9, <1>11, AllRepoRolesAre

\* What 12-check-dao.js looks for in the DAO.
LEMMA FinalDaoIsChecked ==
    LET acl == FinalACL(UnfinishedACL)
    IN  TemplateKeepsNothing(acl) /\ AssertDaoPermissions(acl)
<1> DEFINE acl == FinalACL(UnfinishedACL)
<1>1. ASSUME NEW p
      PROVE  Manager(acl, p) # "template" /\ "template" \notin Grantees(acl, p)
  BY FinalACLIs DEF Nobody
<1>2. ASSUME NEW ps, ps \subseteq RootRoles \cup CreatedForVoting
      PROVE  AssertRoles(acl, ps, "voting", {"voting"})
  BY <1>2, FinalACLIs DEF AssertRoles, AssertRole
<1>3. AssertRoles(acl, Roles("voting", {"CREATE_VOTES_ROLE"}), "voting", {"tokenManager"})
  <2>1. \A p \in Roles("voting", {"CREATE_VOTES_ROLE"}) : p \in CreateVotesRoles
    BY DEF Roles, CreateVotesRoles
  <2> QED BY <2>1, FinalACLIs DEF AssertRoles, AssertRole
<1>4. ASSUME NEW ps,
             \A p \in ps : p \notin RootRoles \cup CreatedForVoting \cup VaultRoles \cup CreateVotesRoles
      PROVE  AssertMissingRoles(acl, ps)
  BY <1>4, FinalACLIs DEF AssertMissingRoles, AssertMissingRole
<1>5. TemplateKeepsNothing(acl)
  BY <1>1 DEF TemplateKeepsNothing
<1> HIDE DEF acl
<1>6. RootChecks(acl)
  <2>1. Roles("acl", {"CREATE_PERMISSIONS_ROLE"}) \subseteq RootRoles /\ Roles("kernel", {"APP_MANAGER_ROLE"}) \subseteq RootRoles
    BY DEF Roles, RootRoles
  <2> QED BY <1>2, <2>1 DEF RootChecks
<1>7. EvmScriptRegistryChecks(acl)
  <2>1. Roles("evmScriptRegistry", {"REGISTRY_MANAGER_ROLE", "REGISTRY_ADD_EXECUTOR_ROLE"}) \subseteq CreatedForVoting
    BY DEF CreatedForVoting, EvmScriptsRegistryRoles
  <2> QED BY <1>2, <2>1 DEF EvmScriptRegistryChecks
<1>8. AgentChecks(acl)
  <2>1. Roles("agent", {"EXECUTE_ROLE", "RUN_SCRIPT_ROLE"}) \subseteq CreatedForVoting
    BY DEF CreatedForVoting, AgentRoles
  <2> DEFINE missing == {"SAFE_EXECUTE_ROLE", "ADD_PROTECTED_TOKEN_ROLE", "REMOVE_PROTECTED_TOKEN_ROLE",
                         "ADD_PRESIGNED_HASH_ROLE", "DESIGNATE_SIGNER_ROLE"}
  <2>2. AssertMissingRoles(acl, Roles("agent", missing))
    <3>1. ASSUME NEW p \in Roles("agent", missing)
          PROVE  p \notin RootRoles \cup CreatedForVoting \cup VaultRoles \cup CreateVotesRoles
      <4>1. p[1] = "agent" /\ p[2] \in missing
        BY DEF Roles
      <4> QED BY <4>1, RolesOfApps
    <3> HIDE DEF missing
    <3> QED BY <1>4, <3>1
  <2> QED BY <1>2, <2>1, <2>2 DEF AgentChecks
<1>9. FinanceChecks(acl)
  <2>1. Roles("finance", {"CREATE_PAYMENTS_ROLE", "EXECUTE_PAYMENTS_ROLE", "MANAGE_PAYMENTS_ROLE"}) \subseteq CreatedForVoting
    BY DEF CreatedForVoting, FinanceRoles, Roles
  <2> DEFINE missing == {"CHANGE_PERIOD_ROLE", "CHANGE_BUDGETS_ROLE"}
  <2>2. AssertMissingRoles(acl, Roles("finance", missing))
    <3>1. ASSUME NEW p \in Roles("finance", missing)
          PROVE  p \notin RootRoles \cup CreatedForVoting \cup VaultRoles \cup CreateVotesRoles
      <4>1. p[1] = "finance" /\ p[2] \in missing
        BY DEF Roles
      <4> QED BY <4>1, RolesOfApps
    <3> HIDE DEF missing
    <3> QED BY <1>4, <3>1
  <2> QED BY <1>2, <2>1, <2>2 DEF FinanceChecks
<1>10. TokenManagerChecks(acl)
  <2>1. Roles("tokenManager", {"ASSIGN_ROLE"}) \subseteq CreatedForVoting
    BY DEF CreatedForVoting, Roles
  <2> DEFINE missing == {"MINT_ROLE", "BURN_ROLE", "ISSUE_ROLE", "REVOKE_VESTINGS_ROLE"}
  <2>2. AssertMissingRoles(acl, Roles("tokenManager", missing))
    <3>1. ASSUME NEW p \in Roles("tokenManager", missing)
          PROVE  p \notin RootRoles \cup CreatedForVoting \cup VaultRoles \cup CreateVotesRoles
      <4>1. p[1] = "tokenManager" /\ p[2] \in missing
        BY DEF Roles
      <4> QED BY <4>1, RolesOfApps
    <3> HIDE DEF missing
    <3> QED BY <1>4, <3>1
  <2> QED BY <1>2, <2>1, <2>2 DEF TokenManagerChecks
<1>11. VotingChecks(acl)
  <2>1. Roles("voting", {"MODIFY_SUPPORT_ROLE", "MODIFY_QUORUM_ROLE"}) \subseteq CreatedForVoting
    BY DEF CreatedForVoting, VotingRoles, Roles
  <2> QED BY <1>2, <1>3, <2>1 DEF VotingChecks, acl
<1>12. LidoChecks(acl)
  <2>1. Roles("lido",
            {"PAUSE_ROLE", "RESUME_ROLE", "MANAGE_FEE", "MANAGE_PROTOCOL_CONTRACTS_ROLE",
             "MANAGE_WITHDRAWAL_KEY", "STAKING_PAUSE_ROLE", "STAKING_CONTROL_ROLE",
             "SET_EL_REWARDS_VAULT_ROLE", "SET_EL_REWARDS_WITHDRAWAL_LIMIT_ROLE"}) \subseteq LidoRoles
    BY DEF LidoRoles, Roles
  <2>2. LidoRoles \subseteq CreatedForVoting
    BY DEF CreatedForVoting
  <2> QED BY <1>2, <2>1, <2>2 DEF LidoChecks
<1>13. OracleChecks(acl)
  <2>1. Roles("oracle", {"MANAGE_MEMBERS", "MANAGE_QUORUM", "SET_BEACON_SPEC"}) \subseteq OracleRoles
    BY DEF OracleRoles, Roles
  <2>2. OracleRoles \subseteq CreatedForVoting
    BY DEF CreatedForVoting
  <2> QED BY <1>2, <2>1, <2>2 DEF OracleChecks
<1>14. NopsRegistryChecks(acl)
  <2>1. OperatorsRoles \subseteq CreatedForVoting
    BY DEF CreatedForVoting
  <2> QED BY <1>2, <2>1 DEF NopsRegistryChecks, OperatorsRoles
<1>15. AssertDaoPermissions(acl)
  BY <1>6, <1>7, <1>8, <1>9, <1>10, <1>11, <1>12, <1>13, <1>14 DEF AssertDaoPermissions
<1> QED BY <1>5, <1>15 DEF acl

\* ... and in its registry.
LEMMA FinalRegistryIsChecked ==
    LET acl == FinalRegistryACL(FullRegistryACL)
    IN  TemplateKeepsNothing(acl) /\ AssertAPMRegistryPermissions(acl, "voting") /\ AssertReposPermissions(acl)
<1> DEFINE acl == FinalRegistryACL(FullRegistryACL)
<1>1. ASSUME NEW p
      PROVE  Manager(acl, p) # "template" /\ "template" \notin Grantees(acl, p)
  BY FinalRegistryACLIs DEF Nobody
<1>2. TemplateKeepsNothing(acl)
  BY <1>1 DEF TemplateKeepsNothing
<1>3. AssertReposPermissions(acl)
  <2>1. SUFFICES ASSUME NEW p \in DOMAIN acl, p[2] = "CREATE_VERSION_ROLE"
                 PROVE  Manager(acl, p) = "voting" /\ "voting" \in Grantees(acl, p)
    BY DEF AssertReposPermissions
  <2>2. p \in RegistryKernelRoles \cup RegistryRootRoles \cup RegistrarRoles \cup RegistryRoles \cup AllRepoRoles
    BY FinalRegistryACLDomain
  <2>3. p \in AllRepoRoles
    BY <2>1, <2>2, RegistryRolesApart
  <2> QED BY <2>3, FinalRegistryACLIs
<1>4. AssertAPMRegistryPermissions(acl, "voting")
  <2>1. AssertRoles(acl, Roles("registry", {"CREATE_REPO_ROLE"}), "voting", {"voting"})
    <3>1. \A p \in Roles("registry", {"CREATE_REPO_ROLE"}) : p \in RegistryRoles
      BY DEF Roles, RegistryRoles
    <3> QED BY <3>1, FinalRegistryACLIs DEF AssertRoles, AssertRole
  <2>2. Manager(acl, <<"registry.kernel", "APP_MANAGER_ROLE">>) = "voting"
    <3>1. <<"registry.kernel", "APP_MANAGER_ROLE">> \in RegistryKernelRoles
      BY DEF RegistryKernelRoles
    <3> QED BY <3>1, FinalRegistryACLIs
  <2>3. AssertRoles(acl, Roles("registry.acl", {"CREATE_PERMISSIONS_ROLE"}), "voting", {"voting", "registry"})
    <3>1. \A p \in Roles("registry.acl", {"CREATE_PERMISSIONS_ROLE"}) : p \in RegistryRootRoles
      BY DEF Roles, RegistryRootRoles
    <3> QED BY <3>1, FinalRegistryACLIs DEF AssertRoles, AssertRole
  <2>4. /\ AssertRoles(acl, Roles("registrar", {"CREATE_NAME_ROLE"}), "voting", {"registry"})
        /\ AssertRoles(acl, Roles("registrar", {"POINT_ROOTNODE_ROLE"}), "voting", {"registry"})
    <3>1. /\ \A p \in Roles("registrar", {"CREATE_NAME_ROLE"}) : p \in RegistrarRoles
          /\ \A p \in Roles("registrar", {"POINT_ROOTNODE_ROLE"}) : p \in RegistrarRoles
      BY DEF Roles, RegistrarRoles
    <3> QED BY <3>1, FinalRegistryACLIs DEF AssertRoles, AssertRole
  <2>5. AssertMissingRoles(acl, Roles("registrar", {"DELETE_NAME_ROLE"}))
    <3>1. ASSUME NEW p \in Roles("registrar", {"DELETE_NAME_ROLE"})
          PROVE  AssertMissingRole(acl, p)
      <4>1. p[1] = "registrar" /\ p[2] = "DELETE_NAME_ROLE"
        BY DEF Roles
      <4>2. p \notin RegistryKernelRoles \cup RegistryRootRoles \cup RegistrarRoles \cup RegistryRoles \cup AllRepoRoles
        BY <4>1, RegistryRolesApart DEF AllRepoRoles
      <4> QED BY <4>2, FinalRegistryACLIs DEF AssertMissingRole
    <3> QED BY <3>1 DEF AssertMissingRoles
  <2> QED BY <2>1, <2>2, <2>3, <2>4, <2>5 DEF AssertAPMRegistryPermissions
<1> QED BY <1>2, <1>3, <1>4

\* Finalizing leaves the template no permission in the DAO and in the registry it
\* left behind, which is the one that RegistryOf finds, and exactly those that
\* 12-check-dao.js asserts.
THEOREM DeploymentPermissionsAreHandedOver == DeploymentSpec => []PermissionsAreHandedOver
<1>1. ASSUME DeploymentInv PROVE PermissionsAreHandedOver
  <2>1. SUFFICES ASSUME NEW d \in DOMAIN daos, daos[d].finalized
                 PROVE  LET acl == daos[d].acl
                            registryACL == registries[RegistryOf(d)].acl
                        IN  /\ TemplateKeepsNothing(acl)
                            /\ TemplateKeepsNothing(registryACL)
                            /\ AssertDaoPermissions(acl)
                            /\ AssertAPMRegistryPermissions(registryACL, "voting")
                            /\ AssertReposPermissions(registryACL)
    BY DEF PermissionsAreHandedOver
  <2>2. PICK r \in DOMAIN registries : LeftBehind(r, d)
    BY <1>1, <2>1 DEF DeploymentInv, WorldInv, DaoOK
  <2>3. daos[d].acl = FinalACL(UnfinishedACL)
    BY <1>1, <2>1 DEF DeploymentInv, WorldInv, DaoOK, Finished
  <2>4. RegistryOf(d) = r
    <3> DEFINE before == {s \in DOMAIN registries : s < d /\ chain[s].of = chain[d].of}
    <3>1. r \in before /\ \A s \in before : s <= r
      BY <2>2 DEF LeftBehind
    <3>2. before \subseteq Nat
      BY <1>1, Addresses DEF DeploymentInv, WorldInv
    <3>3. RegistryOf(d) = Max(before)
      BY DEF RegistryOf
    <3> HIDE DEF before
    <3>4. Max(before) \in before /\ \A s \in before : Max(before) >= s
      <4>1. \E x \in before : \A s \in before : x >= s
        BY <3>1, <3>2
      <4> QED BY <4>1 DEF Max
    <3> QED BY <3>1, <3>2, <3>3, <3>4
  <2>5. registries[RegistryOf(d)].acl = FinalRegistryACL(FullRegistryACL)
    BY <2>2, <2>4 DEF LeftBehind
  <2> QED BY <2>3, <2>5, FinalDaoIsChecked, FinalRegistryIsChecked
<1> QED BY <1>1, DeploymentInvHolds, PTL

=============================================================================
