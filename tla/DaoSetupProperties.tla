------------------------- MODULE DaoSetupProperties -------------------------
(***************************************************************************)
(* What the setup of a DAO must be, however scripts are run again, votes   *)
(* go stale, and are enacted out of order; and what 12-check-dao.js        *)
(* establishes when it passes.                                             *)
(***************************************************************************)
EXTENDS DaoSetup

\* The variables keep their types.
SetupTypeOK ==
    /\ Len(votes) <= MaxVotes
    /\ DOMAIN depositors = {i \in DOMAIN chain : HasCode(i, "depositor")}
    /\ DOMAIN org.callbacks = {i \in DOMAIN chain : HasCode(i, "composite")}
    /\ \A d \in DOMAIN depositors :
          depositors[d] \in [owner : {"deployer", "agent"}, guardians : SUBSET Guardians, quorum : Nat]
    /\ org.limit \in 0 .. keys

\* A vote saved with a base and a version may be enacted after one for a newer
\* base: a repository never goes back to an older base, and what is installed
\* was published (20-mitigating-deposit-front-running.js:128, upgrade-app.js:56).
PublishedInOrder ==
    [][\A a \in LidoApps :
            /\ org'.latest[a].base >= org.latest[a].base
            /\ org'.latest[a].base >= daos'[Dao].apps[a]]_setupVars

\* Deposits have one caller, although 20 may be run and voted again with the
\* depositor of the day (20-mitigating-deposit-front-running.js:56).
OneDepositor ==
    \A p \in DepositRole : LET grantees == Grantees(daos[Dao].acl, p)
                           IN  /\ Cardinality(grantees) <= 1
                               /\ grantees \subseteq {Entity(d) : d \in DOMAIN depositors}

BurnIsWired ==
    /\ \E i \in DOMAIN org.callbacks[org.receiver] : org.callbacks[org.receiver][i] = file.burner
    /\ \A p \in BurnRole : "voting" \notin Grantees(daos[Dao].acl, p)

\* 12 does not look into the composite receiver: all the same, when it passes,
\* the burner it found with the permission is called on reports, and Voting
\* lost the permission (12-check-dao.js:392).
LiveCheckMeansWired == CheckDAO(TRUE) => BurnIsWired

\* When it passes on a DAO that is not live, that burner is the only callback
\* and the only one with the permission (12-check-dao.js:293).
FreshCheckMeansExact ==
    CheckDAO(FALSE) =>
        /\ org.callbacks[org.receiver] = <<file.burner>>
        /\ \A p \in BurnRole : Grantees(daos[Dao].acl, p) = {Entity(file.burner)}

\* "Guardians list on the new contract are supposed to be empty", says the
\* assertion of 30-initialize-updated-depositor.js:29.
UpdatedDepositorIsEmpty ==
    [][saved'.update # saved.update => depositors[saved'.update.to].guardians = {}]_setupVars
=============================================================================
