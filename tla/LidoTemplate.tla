---------------------------- MODULE LidoTemplate ----------------------------
(***************************************************************************)
(* The contract that sets the DAO up (0.4.24/template/LidoTemplate.sol):   *)
(* a registry of applications, their repositories, the DAO, its vested     *)
(* tokens, and the hand-over of every permission to Voting.                *)
(*                                                                         *)
(* A transaction is its position in `chain', which is its hash and its     *)
(* block; the address of what it creates is the same number.  A call that  *)
(* reverts changes nothing and is not in the chain.                        *)
(***************************************************************************)
EXTENDS Integers, Sequences, FiniteSets, TLC, Supply, AragonACL

CONSTANTS
    LidoApps,           \* the applications of Lido, with a base of their own
    Holders,            \* receivers of vested tokens
    VestedAmount,       \* what each of them receives
    UnvestedAmount,     \* what the Agent receives when the DAO is finalized
    InitialDomains,     \* who may own the domain at first: "nobody", "multisig"
    MaxUpstream,        \* bound: releases of the Aragon applications
    MaxCreations,       \* bound: contract creations
    MaxChain            \* bound: transactions

ASSUME TemplateAssumption ==
    /\ LidoApps # {}
    /\ VestedAmount \in [Holders -> Nat \ {0}]
    /\ UnvestedAmount \in Nat
    /\ InitialDomains \subseteq {"nobody", "multisig"}
    /\ {MaxUpstream, MaxCreations, MaxChain} \subseteq Nat

VARIABLES
    chain,          \* the transactions: whom they are of and what they did
    domain,         \* owner of the ENS node of the registry
    tldOwned,       \* whether the multisig owns the node above
    templates,      \* the templates' deployState: registry and DAO
    registries,     \* APM registries: their repositories and permissions
    daos,           \* DAOs: their applications, tokens and permissions
    upstream        \* latest version of the applications in aragonpm.eth

templateVars == <<chain, domain, tldOwned, templates, registries, daos, upstream>>

None == 0       \* the zero address, or no value
Owner(kind, address) == [kind |-> kind, address |-> address]
NoRepos == <<>>
AnApp == [base |-> None, content |-> None]

Created(instances, address, instance) ==
    [i \in DOMAIN instances \cup {address} |-> IF i = address THEN instance ELSE instances[i]]

HasCode(address, artifact) == address \in DOMAIN chain /\ chain[address] = [of |-> address, did |-> artifact]

\* Transactions that emitted events of a contract, from a block on.
EventsOf(address, fromBlock) ==
    {i \in DOMAIN chain : i >= fromBlock /\ chain[i].of = address /\ i # address}

Mined(address, did) ==
    /\ Len(chain) < MaxChain
    /\ chain' = Append(chain, [of |-> address, did |-> did])

TemplateInit ==
    /\ chain = <<>>
    /\ domain \in {Owner(kind, None) : kind \in InitialDomains}
    /\ tldOwned \in BOOLEAN
    /\ templates = <<>>
    /\ registries = <<>>
    /\ daos = <<>>
    /\ upstream = 1

Creations == {i \in DOMAIN chain : chain[i].of = i}

\* A contract creation; the constructors of the bases petrify them.
Deploy(artifact) ==
    /\ Cardinality(Creations) < MaxCreations
    /\ Mined(Len(chain) + 1, artifact)
    /\ templates' = IF artifact = "LidoTemplate"
                    THEN Created(templates, Len(chain) + 1, [registry |-> None, dao |-> None])
                    ELSE templates
    /\ UNCHANGED <<domain, tldOwned, registries, daos, upstream>>

\* Someone publishes a version in aragonpm.eth; one of before the repositories
\* were created is the one they copy, whichever it is.
ReleaseUpstream ==
    /\ upstream < MaxUpstream
    /\ \E r \in DOMAIN registries : registries[r].repos # NoRepos
    /\ upstream' = upstream + 1
    /\ UNCHANGED <<chain, domain, tldOwned, templates, registries, daos>>

-----------------------------------------------------------------------------
(* The registry and the repositories *)

\* The factory hands the registry over to the template, and the template takes
\* the factory's own permission away.
RegistryRoles == {<<"registry", "CREATE_REPO_ROLE">>}
RegistrarRoles == Roles("registrar", {"CREATE_NAME_ROLE", "POINT_ROOTNODE_ROLE"})
RegistryRootRoles == {<<"registry.acl", "CREATE_PERMISSIONS_ROLE">>}
RegistryKernelRoles == {<<"registry.kernel", "APP_MANAGER_ROLE">>}
RepoRoles(names) == {<<name, "CREATE_VERSION_ROLE">> : name \in names}

ApmRepos == {"apm-registry", "apm-repo", "apm-enssub"}
AragonRepos == {"aragon-agent", "aragon-finance", "aragon-token-manager", "aragon-voting"}

NewRegistryACL ==
    LET kernel == Create(NoPermissions, RegistryKernelRoles, "factory", "template")
        root == Create(Create(kernel, RegistryRootRoles, "template", "template"),
                       RegistryRootRoles, "registry", "template")
        names == Create(root, RegistrarRoles, "registry", "template")
        repos == Create(Create(names, RegistryRoles, "template", "template"),
                        RegistryRoles, "factory", "template")
    IN  Create(repos, RepoRoles(ApmRepos), "template", "template")

DeployLidoAPM(t) ==
    /\ templates[t].registry = None
    /\ domain = Owner("template", t)
    /\ LET registry == Len(chain) + 1
       IN  /\ domain' = Owner("registrar", registry)
           /\ registries' = Created(registries, registry,
                [repos |-> NoRepos, aragon |-> None,
                 acl |-> Revoke(NewRegistryACL, RegistryRoles, "factory")])
           /\ templates' = [templates EXCEPT ![t].registry = registry]
    /\ Mined(t, "TmplAPMDeployed")
    /\ UNCHANGED <<tldOwned, daos, upstream>>

CancelAndTransferDomain(t) ==
    /\ domain = Owner("template", t)
    /\ domain' = Owner("multisig", None)
    /\ UNCHANGED <<chain, tldOwned, templates, registries, daos, upstream>>

\* `apps' are the bases and the contents of Lido's applications; those of
\* Aragon are the latest upstream.  A name can be taken once.
CanCreateRepos(t) ==
    /\ templates[t].registry # None
    /\ registries[templates[t].registry].repos = NoRepos

CreateRepos(t, apps) ==
    /\ CanCreateRepos(t)
    /\ LET registry == templates[t].registry
       IN  registries' = [registries EXCEPT ![registry] =
              [repos |-> apps, aragon |-> upstream,
               acl |-> Create(@.acl, RepoRoles(LidoApps \cup AragonRepos), "template", "template")]]
    /\ Mined(t, "TmplReposCreated")
    /\ UNCHANGED <<domain, tldOwned, templates, daos, upstream>>

-----------------------------------------------------------------------------
(* The DAO and its tokens *)

TemplateRoles == Roles("tokenManager", {"ISSUE_ROLE", "ASSIGN_ROLE"})
RootRoles == {<<"acl", "CREATE_PERMISSIONS_ROLE">>, <<"kernel", "APP_MANAGER_ROLE">>}

CanCreateDAO(t) ==
    /\ templates[t].registry # None
    /\ registries[templates[t].registry].repos # NoRepos
    /\ templates[t].dao = None

\* The applications installed are the latest of the repositories.
NewDAO(t) ==
    /\ CanCreateDAO(t)
    /\ LET dao == Len(chain) + 1
           repos == registries[templates[t].registry].repos
       IN  /\ daos' = Created(daos, dao,
                [apps |-> [a \in LidoApps |-> repos[a].base],
                 supply |-> 0,
                 vestings |-> [h \in Holders |-> 0],
                 agentTokens |-> 0,
                 finalized |-> FALSE,
                 acl |-> Create(NoPermissions, RootRoles \cup TemplateRoles, "template", "template")])
           /\ templates' = [templates EXCEPT ![t].dao = dao]
    /\ Mined(t, "TmplDAOAndTokenDeployed")
    /\ UNCHANGED <<domain, tldOwned, registries, upstream>>

\* The vested tokens of a set of holders.
VestedBy(holders) == SupplyOf([h \in holders |-> VestedAmount[h]])

MayIssue(t) == \A p \in TemplateRoles : "template" \in Grantees(daos[templates[t].dao].acl, p)

\* A mutation: the supply is not compared.
SupplyIsExpected_Any(supply, expected) == TRUE

\* _issueTokens() requires the supply the caller expects in the end.
SupplyIsExpected(supply, expected) == supply = expected

IssueTokens(t, holders, expected) ==
    /\ holders # {}
    /\ templates[t].dao # None
    /\ MayIssue(t)
    /\ LET dao == templates[t].dao
           supply == daos[dao].supply + VestedBy(holders)
       IN  /\ SupplyIsExpected(supply, expected)
           /\ daos' = [daos EXCEPT ![dao].supply = supply,
                                   ![dao].vestings = [h \in Holders |-> @[h] + (IF h \in holders THEN 1 ELSE 0)]]
    /\ Mined(t, "TmplTokensIssued")
    /\ UNCHANGED <<domain, tldOwned, templates, registries, upstream>>
-----------------------------------------------------------------------------
(* finalizeDAO: every permission goes to Voting *)

\* _setupPermissions() creates these for Voting, which manages them.
AgentRoles == Roles("agent", {"EXECUTE_ROLE", "RUN_SCRIPT_ROLE"})
FinanceRoles ==
    Roles("finance", {"EXECUTE_PAYMENTS_ROLE", "MANAGE_PAYMENTS_ROLE", "CREATE_PAYMENTS_ROLE"})
EvmScriptsRegistryRoles ==
    Roles("evmScriptRegistry", {"REGISTRY_MANAGER_ROLE", "REGISTRY_ADD_EXECUTOR_ROLE"})
VotingRoles == Roles("voting", {"MODIFY_QUORUM_ROLE", "MODIFY_SUPPORT_ROLE"})
OracleRoles ==
    Roles("oracle", {"MANAGE_MEMBERS", "MANAGE_QUORUM", "SET_BEACON_SPEC",
                     "SET_REPORT_BOUNDARIES", "SET_BEACON_REPORT_RECEIVER"})
OperatorsRoles ==
    Roles("nops", {"MANAGE_SIGNING_KEYS", "ADD_NODE_OPERATOR_ROLE", "SET_NODE_OPERATOR_ACTIVE_ROLE",
                   "SET_NODE_OPERATOR_NAME_ROLE", "SET_NODE_OPERATOR_ADDRESS_ROLE",
                   "SET_NODE_OPERATOR_LIMIT_ROLE", "REPORT_STOPPED_VALIDATORS_ROLE"})
LidoRoles ==
    Roles("lido", {"PAUSE_ROLE", "MANAGE_FEE", "MANAGE_WITHDRAWAL_KEY",
                   "MANAGE_PROTOCOL_CONTRACTS_ROLE", "BURN_ROLE", "RESUME_ROLE",
                   "STAKING_PAUSE_ROLE", "STAKING_CONTROL_ROLE", "SET_EL_REWARDS_VAULT_ROLE",
                   "SET_EL_REWARDS_WITHDRAWAL_LIMIT_ROLE"})

CreatedForVoting ==
    AgentRoles \cup FinanceRoles \cup EvmScriptsRegistryRoles \cup VotingRoles \cup OracleRoles
        \cup OperatorsRoles \cup LidoRoles \cup {<<"tokenManager", "ASSIGN_ROLE">>}
VaultRoles == {<<"agent", "TRANSFER_ROLE">>}
CreateVotesRoles == {<<"voting", "CREATE_VOTES_ROLE">>}

RemovePermissionFromTemplate(acl, ps) == SetManager(Revoke(acl, ps, "template"), ps, Nobody)

\* A mutation: the template's own permission is not revoked.
TransferPermissionFromTemplate_Kept(acl, ps) ==
    SetManager(Grant(acl, ps, "voting"), ps, "voting")

TransferPermissionFromTemplate(acl, ps) ==
    SetManager(Revoke(Grant(acl, ps, "voting"), ps, "template"), ps, "voting")

FinalACL(acl) ==
    LET freed == RemovePermissionFromTemplate(acl, TemplateRoles)
        voting == Create(freed, CreatedForVoting, "voting", "voting")
        vault == Create(voting, VaultRoles, "finance", "voting")
        votes == Create(vault, CreateVotesRoles, "tokenManager", "voting")
    IN  TransferPermissionFromTemplate(votes, RootRoles)

FinalRegistryACL(acl) ==
    LET transferred == RegistryRoles \cup RegistryRootRoles
                        \cup RepoRoles(LidoApps \cup AragonRepos \cup ApmRepos)
    IN  SetManager(TransferPermissionFromTemplate(acl, transferred),
                   RegistryKernelRoles \cup RegistrarRoles, "voting")

\* createPermission() and issue() are refused where a permission is in place or
\* missing, and aragonID gives a name once; the permission to set the fees is
\* created and removed on the way.
CanFinalize(t) ==
    /\ templates[t].dao # None
    /\ \A d \in DOMAIN daos : ~daos[d].finalized
    /\ MayIssue(t)
    /\ CanCreate(RemovePermissionFromTemplate(daos[templates[t].dao].acl, TemplateRoles),
                 CreatedForVoting \cup VaultRoles \cup CreateVotesRoles)

FinalizeDAO(t) ==
    /\ CanFinalize(t)
    /\ LET dao == templates[t].dao
           registry == templates[t].registry
       IN  /\ daos' = [daos EXCEPT ![dao].supply = @ + UnvestedAmount,
                                   ![dao].agentTokens = @ + UnvestedAmount,
                                   ![dao].finalized = TRUE,
                                   ![dao].acl = FinalACL(@)]
           /\ registries' = [registries EXCEPT ![registry].acl = FinalRegistryACL(@)]
    /\ templates' = [templates EXCEPT ![t] = [registry |-> None, dao |-> None]]
    /\ Mined(t, "TmplDaoFinalized")
    /\ UNCHANGED <<domain, tldOwned, upstream>>
=============================================================================
