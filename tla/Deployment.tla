----------------------------- MODULE Deployment -----------------------------
(***************************************************************************)
(* The deployment of the protocol: scripts/multisig/01 to 11.  A script    *)
(* reads the network state file, checks the chain, saves transactions in   *)
(* files and persists what it learnt.  Nothing is sent by a script: the    *)
(* multisig sends a saved transaction at any time, again, or never, and a  *)
(* human writes the hashes of the creation transactions into the file,     *)
(* right or wrong.                                                         *)
(*                                                                         *)
(* A script may be run again at any time and may stop after any of its     *)
(* effects; two scripts do not run at once, and the chain stands still     *)
(* while one runs.                                                         *)
(***************************************************************************)
EXTENDS DaoChecks, SequencesExt

CONSTANTS
    AppList,                \* the order in which 02 obtains the bases
    HolderList,             \* vestingParams.holders, in the file's order
    MAX_HOLDERS_IN_ONE_TX,  \* 30
    Contents                \* bound: the contents 04 may publish of a frontend

ASSUME DeploymentAssumption ==
    /\ AppList \in Seq(LidoApps)
    /\ ToSet(AppList) = LidoApps
    /\ HolderList \in Seq(Holders) \ {<<>>}
    /\ ToSet(HolderList) = Holders
    /\ IsInjective(HolderList)
    /\ MAX_HOLDERS_IN_ONE_TX \in Nat \ {0}
    /\ Contents \subseteq Nat \ {0}

VARIABLES
    file,       \* the network state file
    saved       \* the files with transactions

deploymentVars == <<templateVars, file, saved>>

Artifacts == LidoApps \cup {"LidoTemplate"}

HoldersInOneTx == Min({MAX_HOLDERS_IN_ONE_TX, Len(HolderList)})
TotalTxes == (Len(HolderList) + HoldersInOneTx - 1) \div HoldersInOneTx
Batch(i) ==
    ToSet(SubSeq(HolderList, (i - 1) * HoldersInOneTx + 1, Min({i * HoldersInOneTx, Len(HolderList)})))
EndTotalSupply(i) == VestedBy(UNION {Batch(j) : j \in 1 .. i})

DeploymentInit ==
    /\ TemplateInit
    /\ file = [deployTx |-> [a \in Artifacts |-> None],
               template |-> None, templateBlock |-> None,
               apps |-> [a \in LidoApps |-> AnApp],
               apm |-> None, dao |-> None]
    /\ saved = [deploys |-> {}, domain |-> "nothing", apm |-> None,
                repos |-> [to |-> None, apps |-> NoRepos], dao |-> None,
                issue |-> [i \in 1 .. TotalTxes |-> None], finalize |-> None]

-----------------------------------------------------------------------------
(* The multisig and the human who runs the scripts *)

SendDeploy(a) ==
    /\ a \in saved.deploys
    /\ Deploy(a)
    /\ UNCHANGED <<file, saved>>

\* The placeholders that 01 leaves in the file are filled in by hand, with any
\* creation; a hash of another transaction is refused by getDeployed().
RecordDeployTx(a, tx) ==
    /\ file.deployTx[a] = None
    /\ file' = [file EXCEPT !.deployTx[a] = tx]
    /\ UNCHANGED <<templateVars, saved>>

\* register() with the commitment made in time, setOwner(), setSubnodeOwner().
SendDomain ==
    /\ CASE saved.domain = "register" -> domain.kind = "nobody"
         [] saved.domain = "setOwner" -> domain.kind = "multisig"
         [] saved.domain = "setSubnodeOwner" -> tldOwned
         [] OTHER -> FALSE
    /\ domain' = Owner("template", file.template)
    /\ UNCHANGED <<chain, tldOwned, templates, registries, daos, upstream, file, saved>>

SendDeployLidoAPM ==
    /\ saved.apm # None
    /\ DeployLidoAPM(saved.apm)
    /\ UNCHANGED <<file, saved>>

SendCreateRepos ==
    /\ saved.repos.to # None
    /\ CreateRepos(saved.repos.to, saved.repos.apps)
    /\ UNCHANGED <<file, saved>>

SendNewDAO ==
    /\ saved.dao # None
    /\ NewDAO(saved.dao)
    /\ UNCHANGED <<file, saved>>

SendIssueTokens(i) ==
    /\ saved.issue[i] # None
    /\ IssueTokens(saved.issue[i], Batch(i), EndTotalSupply(i))
    /\ UNCHANGED <<file, saved>>

SendFinalizeDAO ==
    /\ saved.finalize # None
    /\ FinalizeDAO(saved.finalize)
    /\ UNCHANGED <<file, saved>>

SendCancelAndTransferDomain(t) ==
    /\ CancelAndTransferDomain(t)
    /\ UNCHANGED <<file, saved>>

-----------------------------------------------------------------------------
(* 01-deploy-lido-template-and-bases, 02-obtain-deployed-instances *)

\* The first n files are saved; after the last one the network state is written.
DeployOrder == <<"LidoTemplate">> \o AppList

SaveDeployTxs(n) ==
    /\ saved' = [saved EXCEPT !.deploys = @ \cup {DeployOrder[k] : k \in 1 .. n}]
    /\ \/ UNCHANGED file
       \/ /\ n = Len(DeployOrder)
          /\ file' = [file EXCEPT !.deployTx = [a \in Artifacts |-> None]]
    /\ UNCHANGED templateVars

\* useOrGetDeployed(): the address in the file, else that of the transaction.
UseOrGetDeployed(address, tx) == IF address # None THEN address ELSE tx

ObtainedTemplate == UseOrGetDeployed(file.template, file.deployTx["LidoTemplate"])

\* A mutation: no bytecode is compared with its artifact.
ObtainDeployedInstances_Unverified(n) ==
    LET obtained == {AppList[k] : k \in 1 .. n}
    IN  /\ \A a \in Artifacts : file.deployTx[a] # None
        /\ file' = [file EXCEPT
              !.template = ObtainedTemplate,
              !.templateBlock = file.deployTx["LidoTemplate"],
              !.apps = [a \in LidoApps |-> IF a \in obtained
                                           THEN [@[a] EXCEPT !.base = file.deployTx[a]]
                                           ELSE @[a]]]
        /\ UNCHANGED <<templateVars, saved>>

\* A mutation: the template is checked, the bases are not.
ObtainDeployedInstances_AnyBase(n) ==
    LET obtained == {AppList[k] : k \in 1 .. n}
    IN  /\ \A a \in Artifacts : file.deployTx[a] # None
        /\ AssertDeployedBytecode(ObtainedTemplate, "LidoTemplate")
        /\ file' = [file EXCEPT
              !.template = ObtainedTemplate,
              !.templateBlock = file.deployTx["LidoTemplate"],
              !.apps = [a \in LidoApps |-> IF a \in obtained
                                           THEN [@[a] EXCEPT !.base = file.deployTx[a]]
                                           ELSE @[a]]]
        /\ UNCHANGED <<templateVars, saved>>

\* The template is checked and persisted, then one base after the other.
ObtainDeployedInstances(n) ==
    LET obtained == {AppList[k] : k \in 1 .. n}
    IN  /\ \A a \in Artifacts : file.deployTx[a] # None
        /\ AssertDeployedBytecode(ObtainedTemplate, "LidoTemplate")
        /\ \A a \in obtained : AssertDeployedBytecode(file.deployTx[a], a)
        /\ file' = [file EXCEPT
              !.template = ObtainedTemplate,
              !.templateBlock = file.deployTx["LidoTemplate"],
              !.apps = [a \in LidoApps |-> IF a \in obtained
                                           THEN [@[a] EXCEPT !.base = file.deployTx[a]]
                                           ELSE @[a]]]
        /\ UNCHANGED <<templateVars, saved>>

-----------------------------------------------------------------------------
(* 03-register-ens-domain, 04-publish-app-frontends *)

RegisterENSDomain ==
    /\ file.template # None
    /\ \/ domain.kind = "multisig" /\ saved' = [saved EXCEPT !.domain = "setOwner"]
       \/ /\ domain.kind # "multisig"
          /\ tldOwned
          /\ saved' = [saved EXCEPT !.domain = "setSubnodeOwner"]
       \/ /\ domain.kind = "nobody"
          /\ ~tldOwned
          /\ saved' = [saved EXCEPT !.domain = "register"]
    /\ UNCHANGED <<templateVars, file>>

\* One application of the directory; the file is written after each.
PublishAppFrontend(a, content) ==
    /\ file' = [file EXCEPT !.apps[a].content = content]
    /\ UNCHANGED <<templateVars, saved>>

-----------------------------------------------------------------------------
(* 05-deploy-apm, 06-obtain-deployed-apm, 07-create-app-repos *)

\* Saving a call estimates its gas, which fails when the call would revert.
SaveDeployAPM ==
    /\ file.template # None
    /\ AssertNoEvents(file.template, file.templateBlock)
    /\ domain = Owner("template", file.template)
    /\ templates[file.template].registry = None
    /\ saved' = [saved EXCEPT !.apm = file.template]
    /\ UNCHANGED <<templateVars, file>>

ObtainDeployedAPM ==
    /\ file.template # None
    /\ AssertLastEvent(file.template, "TmplAPMDeployed", file.templateBlock)
    /\ LET registry == LastEvent(file.template, file.templateBlock)
       IN  /\ domain = Owner("registrar", registry)
           /\ AssertAPMRegistryPermissions(registries[registry].acl, "template")
           /\ file' = [file EXCEPT !.apm = registry]
    /\ UNCHANGED <<templateVars, saved>>

SaveCreateRepos ==
    /\ file.template # None
    /\ AssertLastEvent(file.template, "TmplAPMDeployed", file.templateBlock)
    /\ \A a \in LidoApps : file.apps[a].base # None /\ file.apps[a].content # None
    /\ CanCreateRepos(file.template)
    /\ saved' = [saved EXCEPT !.repos = [to |-> file.template, apps |-> file.apps]]
    /\ UNCHANGED <<templateVars, file>>

-----------------------------------------------------------------------------
(* 08-deploy-dao, 09-obtain-deployed-dao *)

\* The repositories that the last event of the template created.
CheckAppRepos ==
    LET registry == templates[file.template].registry
    IN  /\ registries[registry].repos = file.apps
        /\ registries[registry].aragon = upstream

SaveNewDAO ==
    /\ file.template # None
    /\ \A a \in LidoApps : file.apps[a] # AnApp
    /\ AssertLastEvent(file.template, "TmplReposCreated", file.templateBlock)
    /\ CheckAppRepos
    /\ CanCreateDAO(file.template)
    /\ saved' = [saved EXCEPT !.dao = file.template]
    /\ UNCHANGED <<templateVars, file>>

ObtainDeployedDAO ==
    /\ file.template # None
    /\ \A a \in LidoApps : file.apps[a] # AnApp
    /\ AssertLastEvent(file.template, "TmplDAOAndTokenDeployed", file.templateBlock)
    /\ LET dao == LastEvent(file.template, file.templateBlock)
       IN  /\ AssertInstalledApps(file.template, dao, file.templateBlock)
           /\ file' = [file EXCEPT !.dao = dao]
    /\ UNCHANGED <<templateVars, saved>>

-----------------------------------------------------------------------------
(* 10-issue-tokens, 11-finalize-dao *)

\* The first n batches are saved; the gas of the first one only is estimated.
SaveIssueTokens(n) ==
    /\ file.dao # None
    /\ file.template # None
    /\ AssertLastEvent(file.template, "TmplDAOAndTokenDeployed", file.templateBlock)
    /\ templates[file.template].dao # None
    /\ saved' = [saved EXCEPT !.issue = [i \in 1 .. TotalTxes |-> IF i <= n THEN file.template ELSE @[i]]]
    /\ UNCHANGED <<templateVars, file>>

\* A mutation: the last event is enough.
SaveFinalizeDAO_Unchecked ==
    /\ file.dao # None
    /\ AssertLastEvent(file.template, "TmplTokensIssued", file.templateBlock)
    /\ CanFinalize(file.template)
    /\ saved' = [saved EXCEPT !.finalize = file.template]
    /\ UNCHANGED <<templateVars, file>>

\* The unvested tokens are issued by the call itself.
SaveFinalizeDAO ==
    /\ file.dao # None
    /\ AssertLastEvent(file.template, "TmplTokensIssued", file.templateBlock)
    /\ AssertVesting(file.dao, 0)
    /\ CanFinalize(file.template)
    /\ saved' = [saved EXCEPT !.finalize = file.template]
    /\ UNCHANGED <<templateVars, file>>

-----------------------------------------------------------------------------
DeploymentNext ==
    \/ \E a \in Artifacts : SendDeploy(a)
    \/ \E a \in Artifacts, tx \in Creations : RecordDeployTx(a, tx)
    \/ ReleaseUpstream /\ UNCHANGED <<file, saved>>
    \/ SendDomain
    \/ SendDeployLidoAPM
    \/ SendCreateRepos
    \/ SendNewDAO
    \/ \E i \in 1 .. TotalTxes : SendIssueTokens(i)
    \/ SendFinalizeDAO
    \/ \E t \in DOMAIN templates : SendCancelAndTransferDomain(t)
    \/ \E n \in 1 .. Len(DeployOrder) : SaveDeployTxs(n)
    \/ \E n \in 0 .. Len(AppList) : ObtainDeployedInstances(n)
    \/ RegisterENSDomain
    \/ \E a \in LidoApps, content \in Contents : PublishAppFrontend(a, content)
    \/ SaveDeployAPM
    \/ ObtainDeployedAPM
    \/ SaveCreateRepos
    \/ SaveNewDAO
    \/ ObtainDeployedDAO
    \/ \E n \in 1 .. TotalTxes : SaveIssueTokens(n)
    \/ SaveFinalizeDAO

DeploymentSpec == DeploymentInit /\ [][DeploymentNext]_deploymentVars
=============================================================================
