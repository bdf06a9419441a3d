------------------------ MODULE AppStoresProperties -------------------------
(***************************************************************************)
(* What the panels of the applications may rely on.                        *)
(***************************************************************************)
EXTENDS AppStores

\* No handler runs or waits.
Quiet == task = Idle /\ events = << >>

\* The fields whose every change emits an event that has a handler.
FollowedFields ==
    CASE app = "lido" -> LidoFields \ {"bufferedEther", "totalPooledEther", "beaconStat"}
      [] app = "lidooracle" -> OracleFields \ {"currentFrame", "currentOraclesReportStatus",
                                               "lastCompletedReportDelta"}
      [] app = "registry" -> {"nodeOperatorsCount", "activeNodeOperatorsCount"}

Shows(f) == f \in DOMAIN shown

\* The parts of the operators that are followed.
FollowedParts(operators) == [i \in DOMAIN operators |-> operators[i].followed]

\* Once every event has been handled, what a store shows is what the contract
\* holds: the fields whose changes all emit an event with a handler, those
\* parts of the operators if their number is not lost, and the variants of
\* the reports unless a removed member or a lowered quorum has cleared them.
\* Calls that failed take fields away and leave none behind that is out of date.
DrainedIsFresh ==
    Quiet =>
        /\ \A f \in FollowedFields : Shows(f) => shown[f] = chain[f]
        /\ Shows("nodeOperators") /\ Shows("nodeOperatorsCount") =>
              FollowedParts(shown.nodeOperators) = FollowedParts(Operators)
        /\ Shows("currentReportVariants") =>
              shown.currentReportVariants = Variants \/ Variants = << >>

\* At any moment, while answers are awaited and the contract changes, the
\* operators of the panel are as many as the count beside them; and none is
\* shown without a count, after a handler that failed lost it.
ListMatchesCount ==
    Shows("nodeOperators") =>
        Len(shown.nodeOperators) = IF Shows("nodeOperatorsCount") THEN shown.nodeOperatorsCount ELSE 0
=============================================================================
