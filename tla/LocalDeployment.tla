-------------------------- MODULE LocalDeployment ---------------------------
(***************************************************************************)
(* The deployment to a local or a test network: deploy-aragon-env.js,      *)
(* deploy-aragon-std-apps.js, deploy-lido-apm-and-template.js,             *)
(* deploy-lido-apps.js and deploy-lido-dao.js, in this order.              *)
(*                                                                         *)
(* Unlike those of the multisig, these scripts send their transactions.  A *)
(* stage of a script uses the contracts the network state file names, or   *)
(* deploys them and writes their addresses to the file at its end.  A      *)
(* script may stop after any transaction, and is run again.                *)
(*                                                                         *)
(* A contract is the pair of its name and the number of its deployment.    *)
(***************************************************************************)
EXTENDS Integers, Sequences, FiniteSets, SequencesExt, TLC

CONSTANTS
    StdApps, LidoApps,    \* what is published, in this order
    MaxRuns, MaxCrashes   \* bounds: of the scripts that deploy anew each time; of all

ASSUME LocalAssumption ==
    /\ \A name \in ToSet(StdApps) \cup ToSet(LidoApps) : name \in STRING
    /\ {MaxRuns, MaxCrashes} \subseteq Nat

VARIABLES
    file,      \* the network state file
    made,      \* the contracts: what each was made with
    domains,   \* ENS: who owns a name below eth, in each instance
    repos,     \* ENS: the latest version in a repository, in each instance
    script, pc, got,   \* the script that runs, its step, its results
    runs, crashes

chainVars == <<made, domains, repos>>
vars == <<file, chainVars, script, pc, got, runs, crashes>>

Nothing == << >>
Nobody == <<"nobody", 0>>
Owner == <<"owner", 0>>

-----------------------------------------------------------------------------
(* What a contract is made with, and which name of the file spares it *)

ArgsOf(name) ==
    CASE name = "daoFactory" -> {"kernelBase", "aclBase", "evmScriptRegistryFactory"}
      [] name = "apmRegistryFactory" ->
            {"daoFactory", "apmRegistryBase", "apmRepoBase", "ensSubdomainRegistrarBase", "ens"}
      [] name \in {"aragonApmRegistry", "lidoApmRegistry"} -> {"apmRegistryFactory", "ens"}
      [] name = "aragonID" -> {"ens"}
      [] name = "daoTemplate" -> {"daoFactory", "ens", "miniMeTokenFactory", "aragonID"}
      [] OTHER -> {}

\* The bases of the DAO factory are not looked for on their own.  The registry
\* of Lido is looked for under another name than it is written.
Guard(name) ==
    CASE name \in {"kernelBase", "aclBase", "evmScriptRegistryFactory"} -> "daoFactory"
      [] name = "lidoApmRegistry" -> "lidoApm"
      [] OTHER -> name

Known(name) == Guard(name) \in DOMAIN file

\* Mutant: an ENS is always deployed.
Skipped_ButENS(name) == Known(name) /\ name # "ens"

\* useOrDeploy and its like
Skipped(name) == Known(name)

\* The registry that a name below eth is for.
Label == [aragonApmRegistry |-> "aragonpm", lidoApmRegistry |-> "lido", aragonID |-> "aragonid"]

-----------------------------------------------------------------------------
(* The scripts, step by step *)

Step(op, name) == [op |-> op, name |-> name]
Persist == Step("persist", "file")
Deploys(names) == [i \in DOMAIN names |-> Step("deploy", names[i])] \o <<Persist>>
Publishes(apps) ==
    FlattenSeq([i \in DOMAIN apps |-> <<Step("publish", apps[i]), Persist>>])
DeployAPM(name) == <<Step("assign", name), Step("newAPM", name), Persist>>

Script(s) ==
    CASE s = "env" ->
            Deploys(<<"ens">>)
            \o Deploys(<<"kernelBase", "aclBase", "evmScriptRegistryFactory", "daoFactory">>)
            \o Deploys(<<"apmRegistryBase", "apmRepoBase", "ensSubdomainRegistrarBase",
                         "apmRegistryFactory">>)
            \o DeployAPM("aragonApmRegistry")
            \o Deploys(<<"miniMeTokenFactory">>)
            \o <<Step("deploy", "aragonID"), Step("assign", "aragonID"), Persist>>
      [] s = "stdApps" -> Publishes(StdApps)
      [] s = "apmAndTemplate" ->
            DeployAPM("lidoApmRegistry")
            \o <<Step("template", "daoTemplate"), Step("register", "daoTemplate"), Persist>>
      [] s = "apps" -> Publishes(LidoApps)
      [] s = "dao" ->
            Deploys(<<"depositContract">>) \o <<Step("bases", "apps"), Persist>>
            \o <<Step("newDAO", "dao")>>

\* REQUIRED_NET_STATE and the checks that follow it.
Required(s) ==
    CASE s = "env" -> {}
      [] s \in {"stdApps", "apps"} -> {"ens"}
      [] s = "apmAndTemplate" -> {"ens", "apmRegistryFactory", "daoFactory", "miniMeTokenFactory"}
      [] s = "dao" -> {"ens", "aragonID", "lidoApm", "daoTemplate"} \cup ToSet(LidoApps)

-----------------------------------------------------------------------------
Init ==
    /\ file = Nothing
    /\ made = Nothing
    /\ domains = Nothing
    /\ repos = Nothing
    /\ script = "none" /\ pc = 1 /\ got = Nothing
    /\ runs = 0 /\ crashes = 0

Begin(s) ==
    /\ script = "none"
    /\ Required(s) \subseteq DOMAIN file
    /\ script' = s
    /\ pc' = 1
    /\ IF s = "env" THEN UNCHANGED runs ELSE runs < MaxRuns /\ runs' = runs + 1
    /\ UNCHANGED <<file, chainVars, got, crashes>>

At(op) == script # "none" /\ pc <= Len(Script(script)) /\ Script(script)[pc].op = op
Name == Script(script)[pc].name
Advance == pc' = pc + 1 /\ UNCHANGED <<script, runs, crashes>>

\* A contract named in this stage, or in the file.
Address(name) == (got @@ file)[name]
ENS == Address("ens")

New(name) == <<name, Cardinality({c \in DOMAIN made : c[1] = name}) + 1>>

\* c is made with args, and is a result of this stage.
Make(name, args) ==
    /\ made' = (New(name) :> args) @@ made
    /\ got' = (name :> New(name)) @@ got

\* A stage whose contract the file names has no other effect.
Use ==
    /\ At("deploy") \/ At("assign") \/ At("newAPM") \/ At("template") \/ At("register")
    /\ Skipped(Name)
    /\ Advance
    /\ UNCHANGED <<file, chainVars, got>>

\* A new ENS belongs to the owner, below which nothing has one.
DeployContract ==
    /\ At("deploy")
    /\ ~Skipped(Name)
    /\ Make(Name, [a \in ArgsOf(Name) |-> Address(a)])
    /\ IF Name = "ens"
       THEN /\ domains' = (New("ens") :> [l \in {"eth"} \cup {Label[n] : n \in DOMAIN Label} |->
                                            IF l = "eth" THEN Owner ELSE Nobody]) @@ domains
            /\ repos' = (New("ens") :> Nothing) @@ repos
       ELSE UNCHANGED <<domains, repos>>
    /\ Advance
    /\ UNCHANGED file

\* Mutant: a name that was given away is not taken back by its parent.
MayAssign_Fresh(label) == domains[ENS][label] \in {Owner, Nobody}

\* assignENSName: the owner of the name, or of the one above.
MayAssign(label) == Owner \in {domains[ENS][label], domains[ENS]["eth"]}

\* A registry gets its name through the factory.
AssignENSName ==
    /\ At("assign")
    /\ ~Skipped(Name)
    /\ MayAssign(Label[Name])
    /\ domains' = [domains EXCEPT ![ENS][Label[Name]] =
                        IF Name = "aragonID" THEN Address("aragonID") ELSE Address("apmRegistryFactory")]
    /\ Advance
    /\ UNCHANGED <<file, made, repos, got>>

\* The factory hands its name on.
NewAPM ==
    /\ At("newAPM")
    /\ ~Skipped(Name)
    /\ domains[ENS][Label[Name]] = Address("apmRegistryFactory")
    /\ Make(Name, [a \in ArgsOf(Name) |-> Address(a)])
    /\ domains' = [domains EXCEPT ![ENS][Label[Name]] = New(Name)]
    /\ Advance
    /\ UNCHANGED <<file, repos>>

\* updateNetworkState and persistNetworkState
PersistState ==
    /\ At("persist")
    /\ file' = got @@ file
    /\ got' = Nothing
    /\ Advance
    /\ UNCHANGED chainVars

-----------------------------------------------------------------------------
(* Repositories *)

Released(name) == name \in DOMAIN repos[ENS]

Release(name, c) == repos' = [repos EXCEPT ![ENS] = (name :> c) @@ @]

\* A repository is new, and its registry has the name above, or is there.
MayRelease(name, label) ==
    Released(name) \/ domains[ENS][label][1] \in {"aragonApmRegistry", "lidoApmRegistry"}

\* publishApp: a version more each time.
PublishApp ==
    /\ At("publish")
    /\ MayRelease(Name, IF script = "stdApps" THEN "aragonpm" ELSE "lido")
    /\ Make(Name, Nothing)
    /\ Release(Name, New(Name))
    /\ Advance
    /\ UNCHANGED <<file, domains>>

MayDeployTemplate == "lidoApm" \in DOMAIN file /\ domains[ENS]["aragonid"] # Nobody

\* deployDaoTemplate: the template that the repository has, or a new one.
DeployTemplate ==
    /\ At("template")
    /\ ~Skipped(Name)
    /\ IF Released(Name)
       THEN /\ got' = (Name :> repos[ENS][Name]) @@ got
            /\ UNCHANGED made
       ELSE /\ MayDeployTemplate
            /\ Make(Name, [a \in ArgsOf(Name) |->
                              IF a = "aragonID" THEN domains[ENS]["aragonid"] ELSE Address(a)])
    /\ Advance
    /\ UNCHANGED <<file, domains, repos>>

\* newRepoWithVersion by the registry the file names: it must have the name.
RegisterTemplate ==
    /\ At("register")
    /\ ~Skipped(Name)
    /\ \/ Released(Name) /\ UNCHANGED repos
       \/ /\ ~Released(Name)
          /\ domains[ENS]["lido"] = file.lidoApm
          /\ Release(Name, Address(Name))
    /\ Advance
    /\ UNCHANGED <<file, made, domains, got>>

\* deployDao: what every application's repository has.
ResolveBases ==
    /\ At("bases")
    /\ \A app \in ToSet(LidoApps) : Released(app)
    /\ got' = [app \in ToSet(LidoApps) |-> repos[ENS][app]]
    /\ Advance
    /\ UNCHANGED <<file, chainVars>>

-----------------------------------------------------------------------------
(* How a script ends *)

Ended == script' = "none" /\ pc' = 1 /\ got' = Nothing /\ UNCHANGED <<file, chainVars, runs>>

Done == script # "none" /\ pc > Len(Script(script)) /\ Ended /\ UNCHANGED crashes

\* A step that may not be taken throws; newDAO, which is called with arguments
\* that the template does not have, always does.
Throw ==
    /\ \/ At("assign") /\ ~Skipped(Name) /\ ~MayAssign(Label[Name])
       \/ At("publish") /\ ~MayRelease(Name, IF script = "stdApps" THEN "aragonpm" ELSE "lido")
       \/ At("template") /\ ~Skipped(Name) /\ ~Released(Name) /\ ~MayDeployTemplate
       \/ At("register") /\ ~Skipped(Name) /\ ~Released(Name) /\ domains[ENS]["lido"] # file.lidoApm
       \/ At("bases") /\ \E app \in ToSet(LidoApps) : ~Released(app)
       \/ At("newDAO")
    /\ Ended
    /\ UNCHANGED crashes

\* The process is killed, or the node fails.
Crash ==
    /\ script # "none"
    /\ crashes < MaxCrashes
    /\ crashes' = crashes + 1
    /\ Ended

\* Between two runs the address of Lido's registry is copied to where the
\* scripts look for it.
CopyAddress ==
    /\ script = "none"
    /\ "lidoApmRegistry" \in DOMAIN file
    /\ file' = ("lidoApm" :> file.lidoApmRegistry) @@ file
    /\ UNCHANGED <<chainVars, script, pc, got, runs, crashes>>

ScriptStep ==
    \/ Use \/ DeployContract \/ AssignENSName \/ NewAPM \/ PersistState
    \/ PublishApp \/ DeployTemplate \/ RegisterTemplate \/ ResolveBases
    \/ Done \/ Throw

Next ==
    \/ \E s \in {"env", "stdApps", "apmAndTemplate", "apps", "dao"} : Begin(s)
    \/ ScriptStep
    \/ Crash
    \/ CopyAddress

\* A script that was started goes on, and the first one is run again until it
\* has nothing left to do.
Spec == Init /\ [][Next]_vars /\ WF_vars(ScriptStep) /\ WF_vars(Begin("env"))

-----------------------------------------------------------------------------
(* Properties *)

Environment ==
    {"ens", "kernelBase", "aclBase", "evmScriptRegistryFactory", "daoFactory", "apmRegistryBase",
     "apmRepoBase", "ensSubdomainRegistrarBase", "apmRegistryFactory", "aragonApmRegistry",
     "miniMeTokenFactory", "aragonID"}

\* Whatever was interrupted and run again, the contracts that the file names
\* were made with the ones it still names, and the two names of Aragon stay with
\* the contracts that the file names (deploy-aragon-env.js:45, apm.js:12).  Only the AragonID of the template may be one the file does not know:
\* it is taken from ENS, and the first script may have stopped before it wrote
\* its own down.
EnvironmentFits ==
    /\ \A name \in DOMAIN file : \A a \in DOMAIN made[file[name]] \ {"aragonID"} :
          a \in DOMAIN file /\ made[file[name]][a] = file[a]
    /\ \A name \in {"aragonApmRegistry", "aragonID"} \cap DOMAIN file :
          domains[file.ens][Label[name]] = file[name]

\* Stopped anywhere, the first script completes the environment when it is run
\* again: neither a name that was given to a factory nor a contract that the
\* file does not know of gets into its way (ens.js:23, apm.js:32).
EnvironmentCompletes == <>(Environment \subseteq DOMAIN file)
=============================================================================
