------------------------ MODULE DeploymentProperties ------------------------
(***************************************************************************)
(* What a deployment must be, whatever was run again, stopped half way,    *)
(* recorded wrongly or sent late, twice or out of order.                   *)
(***************************************************************************)
EXTENDS Deployment

AddressesOf(artifact) == {i \in DOMAIN chain : HasCode(i, artifact)}

AppStateOK(app) == app.base \in 0 .. MaxChain /\ app.content \in Contents \cup {None}

\* The variables keep their types.
DeploymentTypeOK ==
    /\ Len(chain) <= MaxChain
    /\ DOMAIN templates = AddressesOf("LidoTemplate")
    /\ \A t \in DOMAIN templates :
          /\ templates[t].registry \in DOMAIN registries \cup {None}
          /\ templates[t].dao \in DOMAIN daos \cup {None}
    /\ \A d \in DOMAIN daos : daos[d].vestings \in [Holders -> Nat]
    /\ file.template \in DOMAIN templates \cup {None}
    /\ \A a \in LidoApps : AppStateOK(file.apps[a])
    /\ file.dao \in DOMAIN daos \cup {None}

\* Batches of vested tokens can be saved by several runs of 10 and sent in any
\* order and twice: no holder is vested twice, and the tokens are exactly what
\* was vested and what the Agent holds (_issueTokens, LidoTemplate.sol:547).  A
\* DAO that is finalized, after which nothing can be issued, has vested the
\* tokens of every holder, although finalizeDAO itself does not look at them
\* (11-finalize-dao.js:57).
VestedExactly ==
    \A d \in DOMAIN daos :
        /\ \A h \in Holders : daos[d].vestings[h] \in (IF daos[d].finalized THEN {1} ELSE {0, 1})
        /\ daos[d].supply = daos[d].agentTokens
                + VestedBy({h \in Holders : daos[d].vestings[h] = 1})
        /\ daos[d].finalized => daos[d].agentTokens = UnvestedAmount

\* Whatever hash a human recorded, the applications of a DAO run the code they
\* are named for (02-obtain-deployed-instances.js:40).
InstalledCodeIsVerified ==
    \A d \in DOMAIN daos : \A a \in LidoApps : HasCode(daos[d].apps[a], a)

TemplateKeepsNothing(acl) ==
    \A p \in DOMAIN acl : Manager(acl, p) # "template" /\ "template" \notin Grantees(acl, p)

\* The registry of a DAO is the one its template had: the latest before it.
RegistryOf(d) == Max({r \in DOMAIN registries : r < d /\ chain[r].of = chain[d].of})

\* Finalizing leaves no permission with the template, neither in the DAO nor in
\* its registry, and leaves exactly those that 12-check-dao.js looks for
\* (LidoTemplate.sol:580, 12-check-dao.js:438).
PermissionsAreHandedOver ==
    \A d \in DOMAIN daos : daos[d].finalized =>
        LET acl == daos[d].acl
            registryACL == registries[RegistryOf(d)].acl
        IN  /\ TemplateKeepsNothing(acl)
            /\ TemplateKeepsNothing(registryACL)
            /\ AssertDaoPermissions(acl)
            /\ AssertAPMRegistryPermissions(registryACL, "voting")
            /\ AssertReposPermissions(registryACL)
=============================================================================
