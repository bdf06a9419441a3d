------------------------------ MODULE DaoChecks -----------------------------
(***************************************************************************)
(* What the scripts assert about the contracts before they go on:          *)
(* scripts/helpers/events.js, scripts/multisig/checks/ and the assertions  *)
(* about permissions of scripts/multisig/12-check-dao.js.                  *)
(***************************************************************************)
EXTENDS LidoTemplate, FiniteSetsExt

\* The events of a template are those of its calls; the last one of a call is
\* the one the chain holds.
AssertLastEvent(t, event, fromBlock) ==
    LET events == EventsOf(t, fromBlock)
    IN  events # {} /\ chain[Max(events)].did = event

LastEvent(t, fromBlock) == Max(EventsOf(t, fromBlock))

AssertSingleEvent(t, event, fromBlock) ==
    Cardinality({i \in EventsOf(t, fromBlock) : chain[i].did = event}) = 1

AssertNoEvents(t, fromBlock) == EventsOf(t, fromBlock) = {}

AssertDeployedBytecode(address, artifact) == HasCode(address, artifact)

-----------------------------------------------------------------------------
\* Every DAO of the template installs all applications; the proxies and the
\* kernel name the same bases.
AssertInstalledApps(t, dao, fromBlock) ==
    /\ AssertSingleEvent(t, "TmplDAOAndTokenDeployed", fromBlock)
    /\ \A a \in LidoApps : AssertDeployedBytecode(daos[dao].apps[a], a)

\* Only the first vesting of a holder is read, but the whole balance.
AssertVesting(dao, unvested) ==
    /\ \A h \in Holders :
          /\ daos[dao].vestings[h] > 0
          /\ daos[dao].vestings[h] * VestedAmount[h] = VestedAmount[h]
    /\ unvested > 0 => daos[dao].agentTokens = unvested
    /\ daos[dao].supply = unvested + VestedBy(Holders)

AssertAPMRegistryPermissions(acl, root) ==
    /\ AssertRoles(acl, Roles("registry", {"CREATE_REPO_ROLE"}), root, {root})
    /\ Manager(acl, <<"registry.kernel", "APP_MANAGER_ROLE">>) = root
    /\ AssertRoles(acl, Roles("registry.acl", {"CREATE_PERMISSIONS_ROLE"}), root, {root, "registry"})
    /\ AssertRoles(acl, Roles("registrar", {"CREATE_NAME_ROLE"}), root, {"registry"})
    /\ AssertRoles(acl, Roles("registrar", {"POINT_ROOTNODE_ROLE"}), root, {"registry"})
    /\ AssertMissingRoles(acl, Roles("registrar", {"DELETE_NAME_ROLE"}))

\* The repositories are those of the registry's NewRepo events; other grantees
\* are not looked for.
AssertReposPermissions(acl) ==
    \A p \in DOMAIN acl : p[2] = "CREATE_VERSION_ROLE" =>
        Manager(acl, p) = "voting" /\ "voting" \in Grantees(acl, p)

-----------------------------------------------------------------------------
(* assertDaoPermissions *)

RootChecks(acl) ==
    /\ AssertRoles(acl, Roles("acl", {"CREATE_PERMISSIONS_ROLE"}), "voting", {"voting"})
    /\ AssertRoles(acl, Roles("kernel", {"APP_MANAGER_ROLE"}), "voting", {"voting"})

EvmScriptRegistryChecks(acl) ==
    AssertRoles(acl, Roles("evmScriptRegistry", {"REGISTRY_MANAGER_ROLE", "REGISTRY_ADD_EXECUTOR_ROLE"}),
                "voting", {"voting"})

AgentChecks(acl) ==
    /\ AssertRoles(acl, Roles("agent", {"EXECUTE_ROLE", "RUN_SCRIPT_ROLE"}), "voting", {"voting"})
    /\ AssertMissingRoles(acl, Roles("agent",
            {"SAFE_EXECUTE_ROLE", "ADD_PROTECTED_TOKEN_ROLE", "REMOVE_PROTECTED_TOKEN_ROLE",
             "ADD_PRESIGNED_HASH_ROLE", "DESIGNATE_SIGNER_ROLE"}))

FinanceChecks(acl) ==
    /\ AssertRoles(acl, Roles("finance",
            {"CREATE_PAYMENTS_ROLE", "EXECUTE_PAYMENTS_ROLE", "MANAGE_PAYMENTS_ROLE"}), "voting", {"voting"})
    /\ AssertMissingRoles(acl, Roles("finance", {"CHANGE_PERIOD_ROLE", "CHANGE_BUDGETS_ROLE"}))

TokenManagerChecks(acl) ==
    /\ AssertRoles(acl, Roles("tokenManager", {"ASSIGN_ROLE"}), "voting", {"voting"})
    /\ AssertMissingRoles(acl, Roles("tokenManager",
            {"MINT_ROLE", "BURN_ROLE", "ISSUE_ROLE", "REVOKE_VESTINGS_ROLE"}))

VotingChecks(acl) ==
    /\ AssertRoles(acl, Roles("voting", {"MODIFY_SUPPORT_ROLE", "MODIFY_QUORUM_ROLE"}), "voting", {"voting"})
    /\ AssertRoles(acl, Roles("voting", {"CREATE_VOTES_ROLE"}), "voting", {"tokenManager"})

LidoChecks(acl) ==
    AssertRoles(acl, Roles("lido",
            {"PAUSE_ROLE", "RESUME_ROLE", "MANAGE_FEE", "MANAGE_PROTOCOL_CONTRACTS_ROLE",
             "MANAGE_WITHDRAWAL_KEY", "STAKING_PAUSE_ROLE", "STAKING_CONTROL_ROLE",
             "SET_EL_REWARDS_VAULT_ROLE", "SET_EL_REWARDS_WITHDRAWAL_LIMIT_ROLE"}), "voting", {"voting"})

OracleChecks(acl) ==
    AssertRoles(acl, Roles("oracle", {"MANAGE_MEMBERS", "MANAGE_QUORUM", "SET_BEACON_SPEC"}),
                "voting", {"voting"})

NopsRegistryChecks(acl) ==
    AssertRoles(acl, Roles("nops",
            {"MANAGE_SIGNING_KEYS", "ADD_NODE_OPERATOR_ROLE", "SET_NODE_OPERATOR_ACTIVE_ROLE",
             "SET_NODE_OPERATOR_NAME_ROLE", "SET_NODE_OPERATOR_ADDRESS_ROLE",
             "SET_NODE_OPERATOR_LIMIT_ROLE", "REPORT_STOPPED_VALIDATORS_ROLE"}), "voting", {"voting"})

\* All but the permission to burn, which is asked of the burner alone.
AssertDaoPermissions(acl) ==
    /\ RootChecks(acl)
    /\ EvmScriptRegistryChecks(acl)
    /\ AgentChecks(acl)
    /\ FinanceChecks(acl)
    /\ TokenManagerChecks(acl)
    /\ VotingChecks(acl)
    /\ LidoChecks(acl)
    /\ OracleChecks(acl)
    /\ NopsRegistryChecks(acl)
=============================================================================
