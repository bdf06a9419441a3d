-------------------------- MODULE LidoOracleHistory -------------------------
(***************************************************************************)
(* LidoOracle with the history of who reported what for the expected       *)
(* epoch: the contract keeps a bit per position and a count per report, and *)
(* what they are for is stated about the reports themselves.               *)
(***************************************************************************)
EXTENDS LidoOracle

VARIABLE ballots      \* what each address reported for the expected epoch

historyVars == <<oracleVars, ballots>>

NoBallots == [m \in Candidates |-> NoReport]

HistoryInit == Init /\ ballots = NoBallots

Pushes == lastCompletedEpoch' # lastCompletedEpoch

Cast(m, epoch, report) ==
    /\ ReportBeacon(m, epoch, report)
    /\ ballots' = IF Pushes THEN NoBallots
                  ELSE [(IF epoch > expectedEpoch THEN NoBallots ELSE ballots)
                            EXCEPT ![m] = report]

Dismiss(m) == RemoveOracleMember(m) /\ ballots' = NoBallots

ChangeQuorum(q) ==
    /\ SetQuorum(q)
    /\ ballots' = IF Pushes THEN NoBallots ELSE ballots

HistoryNext ==
    \/ \E m \in Candidates, epoch \in 0 .. MaxEpoch, report \in Reports : Cast(m, epoch, report)
    \/ \E m \in Candidates : Dismiss(m)
    \/ \E q \in Quorums : ChangeQuorum(q)
    \/ /\ \/ \E m \in Candidates : AddOracleMember(m)
          \/ \E spec \in BeaconSpecs : SetBeaconSpec(spec)
          \/ \E value \in Increases : SetAnnualIncrease(value)
          \/ \E value \in Decreases : SetDecrease(value)
          \/ Tick
          \/ StakersSubmit
       /\ UNCHANGED ballots

HistorySpec == HistoryInit /\ [][HistoryNext]_historyVars

-----------------------------------------------------------------------------
(* Invariants *)

OracleTypeOK ==
    /\ members \in Seq(Candidates) /\ Len(members) <= MAX_MEMBERS
    /\ quorum \in Nat \ {0}
    /\ beaconSpec \in BeaconSpecs
    /\ bounds \in Bounds
    /\ {expectedEpoch, lastCompletedEpoch} \subseteq Nat
    /\ bitmask \subseteq DOMAIN members
    /\ variants \in Seq([report: Reports, count: Nat \ {0}])
    /\ stats \in [pre: Nat, post: Nat, elapsed: Nat]
    /\ pooledEther \in Nat
    /\ lidoReport \in Reports \cup {NoReport}
    /\ time \in 1 .. MaxTime
    /\ ballots \in [Candidates -> Reports \cup {NoReport}]

\* The bits and the counts are the reports of the members, each once: no
\* report of a dismissed member, no second report, no report of another epoch,
\* although members change positions and rejoin.
TallyIsTheBallots ==
    /\ bitmask = {i \in DOMAIN members : ballots[members[i]] # NoReport}
    /\ \A m \in Candidates \ Members : ballots[m] = NoReport
    /\ {variants[k].report : k \in DOMAIN variants}
         = {ballots[m] : m \in Candidates} \ {NoReport}
    /\ \A k \in DOMAIN variants :
          variants[k].count = Cardinality({m \in Candidates : ballots[m] = variants[k].report})

\* A completed epoch is never expected again.
ExpectsLaterEpoch == expectedEpoch > lastCompletedEpoch

\* Reports that reached the quorum wait only while they tie for the most
\* frequent: only lowering the quorum can leave such a tie.
SettledOnlyIfTied ==
    \A k \in DOMAIN variants :
        variants[k].count >= quorum =>
            \E i, j \in DOMAIN variants :
                /\ i # j
                /\ variants[i].count = variants[j].count
                /\ variants[i].count >= variants[k].count

-----------------------------------------------------------------------------
(* Action properties *)

\* Epochs complete in increasing order and the expected epoch never moves back,
\* whatever the specification of frames becomes in between.
EpochsAdvance ==
    [][ /\ lastCompletedEpoch' >= lastCompletedEpoch
        /\ expectedEpoch' >= expectedEpoch
        /\ Pushes => expectedEpoch' > lastCompletedEpoch' ]_historyVars

\* Whatever is pushed was reported, for the epoch that completes, by `quorum'
\* members of the committee of the moment (the caller's vote included).
QuorumBacksPush ==
    [][ Pushes =>
          LET counted == IF lastCompletedEpoch' = expectedEpoch
                         THEN {m \in Members : ballots[m] = lidoReport'} ELSE {}
          IN  \/ Cardinality(counted) >= quorum'
              \/ /\ quorum' = quorum
                 /\ \E caller \in Members :
                       Cardinality(counted \cup {caller}) >= quorum ]_historyVars

=============================================================================
