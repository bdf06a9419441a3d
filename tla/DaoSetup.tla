------------------------------ MODULE DaoSetup ------------------------------
(***************************************************************************)
(* Setting a finalized DAO up: scripts/multisig/12 to 31, upgrade-app and  *)
(* vote-and-enact.  A script deploys an instance, or writes the address of *)
(* one into the network state file, or saves a call for the deployer, or a *)
(* vote.  A vote carries what its script read when it was saved, may be    *)
(* saved and sent again, and is enacted in any order, once, as a whole or  *)
(* not at all.                                                             *)
(*                                                                         *)
(* Creations have the same constructor arguments whenever they are saved,  *)
(* so that saving and sending one is a step.  The hash of a creation that  *)
(* a human writes in the file is of an instance no older than the file's.  *)
(* 15 is left out: it calls initialize_v2(), which LidoOracle has no more. *)
(***************************************************************************)
EXTENDS DaoChecks, SequencesExt

CONSTANTS
    AppList,            \* Lido's applications, in the order of their bases
    Entity(_),          \* how the ACL names the contract of an address
    Guardians,          \* addresses that may attest deposits
    ParamGuardians,     \* depositorParams of the file
    ParamQuorum,
    Campaigns,          \* bound: the groups of scripts that one setup runs
    MaxInstances,       \* bound: instances of each artifact that are deployed
    MaxVotes,           \* bound: votes
    MaxKeys             \* bound: signing keys of the node operator

\* The contracts that the setup adds.
Companions == {"depositor", "composite", "burner", "vault"}

(* The DAO that 01 to 11 leave behind *)

FirstBases == [a \in LidoApps |-> 1 + CHOOSE i \in DOMAIN AppList : AppList[i] = a]

Template == 1
Apm == Len(AppList) + 2
Dao == Apm + 2

FirstChain ==
    LET steps == <<"TmplAPMDeployed", "TmplReposCreated", "TmplDAOAndTokenDeployed",
                   "TmplTokensIssued", "TmplDaoFinalized">>
    IN  <<[of |-> Template, did |-> "LidoTemplate"]>>
            \o [i \in 1 .. Len(AppList) |-> [of |-> i + 1, did |-> AppList[i]]]
            \o [i \in 1 .. 5 |-> [of |-> Template, did |-> steps[i]]]

\* Nobody has the name of somebody else; an application of the DAO is not one of
\* the contracts around it.
ASSUME SetupAssumption ==
    /\ AppList \in Seq(LidoApps) /\ ToSet(AppList) = LidoApps
    /\ {"lido", "node-operators-registry"} \subseteq LidoApps
    /\ LidoApps \cap Companions = {}
    /\ Len(FirstChain) <= MaxChain
    /\ \A a \in 1 .. MaxChain : Entity(a) # "voting"
    /\ \A a, b \in 1 .. MaxChain : Entity(a) = Entity(b) => a = b
    /\ ParamGuardians \subseteq Guardians
    /\ Campaigns \subseteq SUBSET {"upgrades", "depositors", "guardians", "coverage", "rewards", "start"}
    /\ MaxInstances \in [LidoApps \cup Companions -> Nat]
    /\ {ParamQuorum, MaxVotes, MaxKeys} \subseteq Nat

VARIABLES
    file,           \* the network state file
    saved,          \* the saved calls to depositors
    votes,          \* the calls of each vote, Enacted once it was executed
    org,            \* what votes change beside the ACL and the applications
    depositors,     \* DepositSecurityModule instances
    keys,           \* signing keys of the node operator
    campaign        \* the groups of scripts that are run

setupVars == <<templateVars, file, saved, votes, org, depositors, keys, campaign>>

-----------------------------------------------------------------------------
(* Where the setup begins *)

FirstApps == [a \in LidoApps |-> [base |-> FirstBases[a], content |-> 1]]
FirstRegistryACL ==
    Create(Revoke(NewRegistryACL, RegistryRoles, "factory"),
           RepoRoles(LidoApps \cup AragonRepos), "template", "template")

FirstACL == FinalACL(Create(NoPermissions, RootRoles \cup TemplateRoles, "template", "template"))

NoUpdate == [to |-> None, guardians |-> {}, quorum |-> 0]

SetupInit ==
    /\ chain = FirstChain
    /\ domain = Owner("registrar", Apm)
    /\ tldOwned = FALSE
    /\ templates = [t \in {Template} |-> [registry |-> None, dao |-> None]]
    /\ registries = [r \in {Apm} |->
            [repos |-> FirstApps, aragon |-> 1, acl |-> FinalRegistryACL(FirstRegistryACL)]]
    /\ daos = [d \in {Dao} |->
            [apps |-> FirstBases,
             supply |-> VestedBy(Holders) + UnvestedAmount,
             vestings |-> [h \in Holders |-> 1],
             agentTokens |-> UnvestedAmount,
             finalized |-> TRUE,
             acl |-> FirstACL]]
    /\ upstream = 1
    /\ file = [base |-> FirstBases, depositor |-> None, previousDepositor |-> None,
               composite |-> None, burner |-> None, vault |-> None]
    /\ saved = [guardians |-> None, ownership |-> None, update |-> NoUpdate]
    /\ votes = <<>>
    /\ org = [latest |-> [a \in LidoApps |-> [version |-> <<1, 0>>, base |-> FirstBases[a]]],
              callbacks |-> <<>>, receiver |-> None, vault |-> None, stopped |-> TRUE, limit |-> 0]
    /\ depositors = <<>>
    /\ keys = 0
    /\ campaign \in Campaigns

BurnRole == {<<"lido", "BURN_ROLE">>}
DepositRole == {<<"lido", "DEPOSIT_ROLE">>}

-----------------------------------------------------------------------------
(* The calls of a vote: each maps the DAO to the DAO after it, or reverts *)

Enacted == <<>>
Reverted == [reverted |-> TRUE]

\* Repo (external): versions are bumped by one and the lower number starts
\* again; only a new major version has another contract.  Patches are minors.
ValidVersion(from, version, base) ==
    \/ version = <<from.version[1] + 1, 0>>
    \/ version = <<from.version[1], from.version[2] + 1>> /\ base = from.base

Step(dao, call) ==
    CASE call.do = "newVersion" ->
            IF ValidVersion(dao.latest[call.app], call.version, call.base)
            THEN [dao EXCEPT !.latest[call.app] = [version |-> call.version, base |-> call.base]]
            ELSE Reverted
      [] call.do = "setApp" -> [dao EXCEPT !.apps[call.app] = call.base]
      [] call.do = "createPermission" ->
            IF CanCreate(dao.acl, call.role)
            THEN [dao EXCEPT !.acl = Create(@, call.role, Entity(call.to), "voting")]
            ELSE Reverted
      [] call.do = "grantPermission" -> [dao EXCEPT !.acl = Grant(@, call.role, Entity(call.to))]
      [] call.do = "revokePermission" -> [dao EXCEPT !.acl = Revoke(@, call.role, "voting")]
      [] call.do = "setStakingLimit" -> [dao EXCEPT !.limit = call.limit]
      [] call.do = "addCallback" -> [dao EXCEPT !.callbacks[call.to] = Append(@, call.callback)]
      [] call.do = "setReceiver" -> [dao EXCEPT !.receiver = call.to]
      [] call.do = "setVault" -> [dao EXCEPT !.vault = call.to]
      [] call.do = "resume" -> IF dao.stopped THEN [dao EXCEPT !.stopped = FALSE] ELSE Reverted

Execute(dao, calls) ==
    FoldLeft(LAMBDA d, call : IF d = Reverted THEN d ELSE Step(d, call), dao, calls)

CurrentDao ==
    [latest |-> org.latest, callbacks |-> org.callbacks, receiver |-> org.receiver, vault |-> org.vault,
     stopped |-> org.stopped, limit |-> org.limit, acl |-> daos[Dao].acl, apps |-> daos[Dao].apps]

\* vote-and-enact: the latest vote or the one of VOTE_ID.
EnactVote(i) ==
    /\ votes[i] # Enacted
    /\ LET dao == Execute(CurrentDao, votes[i])
       IN  /\ dao # Reverted
           /\ org' = [f \in DOMAIN org |-> dao[f]]
           /\ daos' = [daos EXCEPT ![Dao].acl = dao.acl, ![Dao].apps = dao.apps]
    /\ votes' = [votes EXCEPT ![i] = Enacted]
    /\ UNCHANGED <<chain, domain, tldOwned, templates, registries, upstream, file, saved, depositors, keys, campaign>>

\* Only the forwarding of the vote is estimated, not what it does.
SaveVote(calls) ==
    /\ Len(votes) < MaxVotes
    /\ votes' = Append(votes, calls)
    /\ UNCHANGED <<templateVars, file, saved, org, depositors, keys, campaign>>

NewVersion(a, version, base) == [do |-> "newVersion", app |-> a, version |-> version, base |-> base]
SetApp(a, base) == [do |-> "setApp", app |-> a, base |-> base]
To(do, address) == [do |-> do, to |-> address]
WithRole(do, role, address) == [do |-> do, role |-> role, to |-> address]

-----------------------------------------------------------------------------
(* 13, 14 and upgrade-app: a new base of an application *)

Instances(artifact) == {i \in DOMAIN chain : i > Dao /\ HasCode(i, artifact)}

DeployInstance(artifact) ==
    /\ Cardinality(Instances(artifact)) < MaxInstances[artifact]
    /\ Deploy(artifact)

DeployBase(a) ==
    /\ DeployInstance(a)
    /\ UNCHANGED <<file, saved, votes, org, depositors, keys, campaign>>

\* The hash a human wrote into the file, of the artifact the script looks for.
Obtained(artifact, tx, current) == HasCode(tx, artifact) /\ tx >= current

ObtainBase(a, tx) ==
    /\ Obtained(a, tx, file.base[a])
    /\ tx # file.base[a]
    /\ AssertDeployedBytecode(tx, a)
    /\ file' = [file EXCEPT !.base[a] = tx]
    /\ UNCHANGED <<templateVars, saved, votes, org, depositors, keys, campaign>>

Bump(version, kind) ==
    IF kind = "minor" THEN <<version[1], version[2] + 1>> ELSE <<version[1] + 1, version[2]>>

VoteNewVersion(a, kind) ==
    SaveVote(<<NewVersion(a, Bump(org.latest[a].version, kind), file.base[a])>>)

-----------------------------------------------------------------------------
(* 16 to 20, 29 and 30: the deposit security module *)

NewDepositor == [owner |-> "deployer", guardians |-> {}, quorum |-> 0]

DeployDepositor ==
    /\ DeployInstance("depositor")
    /\ depositors' = Created(depositors, Len(chain) + 1, NewDepositor)
    /\ UNCHANGED <<file, saved, votes, org, keys, campaign>>

\* 29 saves the transaction of 16 again, once the parameters are compared.
DeployNewDepositor ==
    /\ file.depositor # None
    /\ depositors[file.depositor].quorum = ParamQuorum
    /\ depositors[file.depositor].guardians = ParamGuardians
    /\ DeployDepositor

ObtainDepositor(tx) ==
    /\ Obtained("depositor", tx, file.depositor)
    /\ file' = [file EXCEPT !.depositor = tx,
                            !.previousDepositor = IF file.depositor \notin {None, tx}
                                                  THEN file.depositor ELSE @]
    /\ UNCHANGED <<templateVars, saved, votes, org, depositors, keys, campaign>>

\* addGuardians() is of the owner and refuses those that are guardians.
CanAddGuardians(d, guardians) ==
    /\ depositors[d].owner = "deployer"
    /\ depositors[d].guardians \cap guardians = {}

SaveAddGuardians ==
    /\ file.depositor # None
    /\ CanAddGuardians(file.depositor, ParamGuardians)
    /\ saved' = [saved EXCEPT !.guardians = file.depositor]
    /\ UNCHANGED <<templateVars, file, votes, org, depositors, keys, campaign>>

SaveTransferOwnership ==
    /\ file.depositor # None
    /\ depositors[file.depositor].owner = "deployer"
    /\ saved' = [saved EXCEPT !.ownership = file.depositor]
    /\ UNCHANGED <<templateVars, file, votes, org, depositors, keys, campaign>>

\* The assertion that the new contract has no guardians compares a promise
\* with the old contract's, and never fails.
SaveInitializeDepositor ==
    /\ file.depositor # None
    /\ file.previousDepositor # None
    /\ LET previous == depositors[file.previousDepositor]
       IN  /\ CanAddGuardians(file.depositor, previous.guardians)
           /\ saved' = [saved EXCEPT !.update =
                  [to |-> file.depositor, guardians |-> previous.guardians, quorum |-> previous.quorum]]
    /\ UNCHANGED <<templateVars, file, votes, org, depositors, keys, campaign>>

AddGuardians(d, guardians, quorum) ==
    /\ CanAddGuardians(d, guardians)
    /\ depositors' = [depositors EXCEPT ![d].guardians = @ \cup guardians, ![d].quorum = quorum]
    /\ UNCHANGED <<templateVars, file, saved, votes, org, keys, campaign>>

SendAddGuardians == saved.guardians # None /\ AddGuardians(saved.guardians, ParamGuardians, ParamQuorum)
SendInitializeDepositor ==
    saved.update # NoUpdate /\ AddGuardians(saved.update.to, saved.update.guardians, saved.update.quorum)

SendTransferOwnership ==
    /\ saved.ownership # None
    /\ depositors[saved.ownership].owner = "deployer"
    /\ depositors' = [depositors EXCEPT ![saved.ownership].owner = "agent"]
    /\ UNCHANGED <<templateVars, file, saved, votes, org, keys, campaign>>

\* The owner replaces a guardian.
ReplaceGuardian(d, old, new) ==
    /\ old \in depositors[d].guardians
    /\ new \notin depositors[d].guardians
    /\ depositors' = [depositors EXCEPT ![d].guardians = (@ \ {old}) \cup {new}]
    /\ UNCHANGED <<templateVars, file, saved, votes, org, keys, campaign>>

AddSigningKeys ==
    /\ keys < MaxKeys
    /\ keys' = keys + 1
    /\ UNCHANGED <<templateVars, file, saved, votes, org, depositors, campaign>>

\* A mutation: the version is not published by the vote.
BuildUpgradeTransaction_Unpublished(a) == <<SetApp(a, file.base[a])>>

BuildUpgradeTransaction(a) ==
    <<NewVersion(a, Bump(org.latest[a].version, "major"), file.base[a]), SetApp(a, file.base[a])>>

\* A mutation: one key too many is vetted.
IncreaseLimits_Above == IF org.limit < keys THEN <<[do |-> "setStakingLimit", limit |-> keys + 1]>> ELSE <<>>

IncreaseLimits == IF org.limit < keys THEN <<[do |-> "setStakingLimit", limit |-> keys]>> ELSE <<>>

\* A mutation: the permission is granted to one more depositor.
VoteDeposits_Granted ==
    /\ file.depositor # None
    /\ SaveVote(BuildUpgradeTransaction("lido") \o BuildUpgradeTransaction("node-operators-registry")
                    \o <<WithRole("grantPermission", DepositRole, file.depositor)>> \o IncreaseLimits)

VoteDeposits ==
    /\ file.depositor # None
    /\ SaveVote(BuildUpgradeTransaction("lido") \o BuildUpgradeTransaction("node-operators-registry")
                    \o <<WithRole("createPermission", DepositRole, file.depositor)>> \o IncreaseLimits)

-----------------------------------------------------------------------------
(* 21 to 28 and 31: the receiver of reports, the burner, the vault, the start *)

DeployComposite ==
    /\ DeployInstance("composite")
    /\ org' = [org EXCEPT !.callbacks = Created(@, Len(chain) + 1, <<>>)]
    /\ UNCHANGED <<file, saved, votes, depositors, keys, campaign>>

ObtainComposite(tx) ==
    /\ Obtained("composite", tx, file.composite)
    /\ file' = [file EXCEPT !.composite = tx]
    /\ UNCHANGED <<templateVars, saved, votes, org, depositors, keys, campaign>>

DeployBurner ==
    /\ DeployInstance("burner")
    /\ UNCHANGED <<file, saved, votes, org, depositors, keys, campaign>>

ObtainBurner(tx) ==
    /\ Obtained("burner", tx, file.burner)
    /\ file' = [file EXCEPT !.burner = tx]
    /\ UNCHANGED <<templateVars, saved, votes, org, depositors, keys, campaign>>

\* A mutation: the burner is not added to the callbacks.
VoteCoverage_Uncalled ==
    /\ file.composite # None
    /\ file.burner # None
    /\ SaveVote(<<To("setReceiver", file.composite),
                  [do |-> "revokePermission", role |-> BurnRole],
                  WithRole("grantPermission", BurnRole, file.burner)>>)

VoteCoverage ==
    /\ file.composite # None
    /\ file.burner # None
    /\ SaveVote(<<[do |-> "addCallback", to |-> file.composite, callback |-> file.burner],
                  To("setReceiver", file.composite),
                  [do |-> "revokePermission", role |-> BurnRole],
                  WithRole("grantPermission", BurnRole, file.burner)>>)

DeployVault ==
    /\ DeployInstance("vault")
    /\ UNCHANGED <<file, saved, votes, org, depositors, keys, campaign>>

ObtainVault(tx) ==
    /\ Obtained("vault", tx, file.vault)
    /\ file' = [file EXCEPT !.vault = tx]
    /\ UNCHANGED <<templateVars, saved, votes, org, depositors, keys, campaign>>

VoteELRewards ==
    /\ file.vault # None
    /\ SaveVote(<<To("setVault", file.vault)>>)

VoteStart == SaveVote(<<[do |-> "resume"]>>)

-----------------------------------------------------------------------------
(* 12-check-dao, with DAO_LIVE or without *)

\* A mutation: the number of votes is not looked at.
AssertDAOConfig_AnyVotes(live) ==
    /\ live \/ org.stopped
    /\ org.vault = file.vault
    /\ org.receiver = file.composite

AssertDAOConfig(live) ==
    /\ live \/ Len(votes) = 2
    /\ live \/ org.stopped
    /\ org.vault = file.vault
    /\ org.receiver = file.composite

AssertBurnRole == \A p \in BurnRole : Entity(file.burner) \in Grantees(daos[Dao].acl, p)

CheckDAO(live) ==
    /\ {file.composite, file.burner, file.vault} \cap {None} = {}
    /\ AssertLastEvent(Template, "TmplDaoFinalized", Template)
    /\ AssertSingleEvent(Template, "TmplAPMDeployed", Template)
    /\ AssertInstalledApps(Template, Dao, Template)
    /\ AssertDAOConfig(live)
    /\ AssertDaoPermissions(daos[Dao].acl)
    /\ AssertBurnRole
    /\ AssertAPMRegistryPermissions(registries[Apm].acl, "voting")
    /\ AssertReposPermissions(registries[Apm].acl)
    /\ AssertVesting(Dao, UnvestedAmount)

-----------------------------------------------------------------------------
Runs(group) == group \in campaign

SetupNext ==
    \/ Runs("upgrades") /\ \E a \in LidoApps : DeployBase(a)
    \/ Runs("upgrades") /\ \E a \in LidoApps, tx \in Creations : ObtainBase(a, tx)
    \/ Runs("upgrades") /\ \E a \in LidoApps, kind \in {"minor", "major"} : VoteNewVersion(a, kind)
    \/ Runs("depositors") /\ DeployDepositor
    \/ Runs("depositors") /\ \E tx \in Creations : ObtainDepositor(tx)
    \/ Runs("depositors") /\ VoteDeposits
    \/ Runs("depositors") /\ AddSigningKeys
    \/ Runs("guardians") /\ DeployNewDepositor
    \/ Runs("guardians") /\ SaveAddGuardians
    \/ Runs("guardians") /\ SendAddGuardians
    \/ Runs("guardians") /\ SaveTransferOwnership
    \/ Runs("guardians") /\ SendTransferOwnership
    \/ Runs("guardians") /\ SaveInitializeDepositor
    \/ Runs("guardians") /\ SendInitializeDepositor
    \/ /\ Runs("guardians")
       /\ \E d \in DOMAIN depositors, old, new \in Guardians : ReplaceGuardian(d, old, new)
    \/ Runs("coverage") /\ DeployComposite
    \/ Runs("coverage") /\ \E tx \in Creations : ObtainComposite(tx)
    \/ Runs("coverage") /\ DeployBurner
    \/ Runs("coverage") /\ \E tx \in Creations : ObtainBurner(tx)
    \/ Runs("coverage") /\ VoteCoverage
    \/ Runs("rewards") /\ DeployVault
    \/ Runs("rewards") /\ \E tx \in Creations : ObtainVault(tx)
    \/ Runs("rewards") /\ VoteELRewards
    \/ Runs("start") /\ VoteStart
    \/ \E i \in DOMAIN votes : EnactVote(i)

SetupSpec == SetupInit /\ [][SetupNext]_setupVars
=============================================================================
