----------------------------- MODULE LidoOracle -----------------------------
(***************************************************************************)
(* The committee that reports the beacon chain                             *)
(* (src/contracts/0.4.24/oracle/LidoOracle.sol).  Members report the       *)
(* balances at the first epoch of a frame; `quorum' equal reports complete *)
(* the frame and are pushed to Lido, and a push that fails the sanity      *)
(* checks reverts the vote, or the quorum change, that caused it.          *)
(*                                                                         *)
(* Lido is seen through totalSupply: what a report makes of it is any      *)
(* value, and stakers change it between reports.                           *)
(***************************************************************************)
EXTENDS Integers, FiniteSets, Sequences

CONSTANTS
    Candidates,      \* addresses that may be oracle members
    MAX_MEMBERS,     \* at most so many are
    Reports,         \* <<balance, validators>> as members see them
    NoReport,        \* in the place of a report where there is none
    Quorums,         \* values setQuorum may be given
    BeaconSpecs,     \* records setBeaconSpec may be given
    Increases,       \* bounds of the annual increase, in basis points
    Decreases,       \* bounds of the decrease at once, in basis points
    PooledValues,    \* values Lido's totalSupply may take
    YEAR,            \* 365 days in seconds
    BASIS_POINTS,    \* 100% of the sanity bounds
    WORD,            \* 2^256: differences of times wrap
    MaxTime,         \* bound: the last timestamp
    MaxEpoch         \* bound: the last epoch reported

BeaconSpecType ==
    [epochsPerFrame: Nat \ {0}, slotsPerEpoch: Nat \ {0},
     secondsPerSlot: Nat \ {0}, genesisTime: Nat \ {0}]

Bounds == [annualIncrease: Increases, decrease: Decreases]

ASSUME OracleAssumption ==
    /\ NoReport \notin Reports
    /\ MAX_MEMBERS \in Nat \ {0}
    /\ Quorums \subseteq Nat \ {0}
    /\ BeaconSpecs # {}
    /\ BeaconSpecs \subseteq BeaconSpecType
    /\ Increases \subseteq Nat
    /\ Decreases \subseteq Nat
    /\ PooledValues \subseteq Nat
    /\ {YEAR, BASIS_POINTS, WORD, MaxTime} \subseteq Nat \ {0}
    /\ MaxTime < WORD
    /\ \A s \in BeaconSpecs : s.genesisTime < WORD

VARIABLES
    members,             \* members: the order matters, bits are positions
    quorum,              \* QUORUM_POSITION
    beaconSpec,          \* BEACON_SPEC_POSITION
    bounds,              \* ALLOWED_BEACON_BALANCE_..._POSITION, both
    expectedEpoch,       \* EXPECTED_EPOCH_ID_POSITION
    lastCompletedEpoch,  \* LAST_COMPLETED_EPOCH_ID_POSITION
    bitmask,             \* REPORTS_BITMASK_POSITION: positions that reported
    variants,            \* currentReportVariants: [report, count]
    stats,               \* PRE_/POST_COMPLETED_TOTAL_POOLED_ETHER, TIME_ELAPSED
    pooledEther,         \* Lido: totalSupply()
    lidoReport,          \* Lido: the report it took last
    time                 \* block.timestamp

committeeVars == <<members, quorum>>
settingVars == <<beaconSpec, bounds>>
frameVars == <<expectedEpoch, lastCompletedEpoch>>
tallyVars == <<bitmask, variants>>
lidoView == <<pooledEther, lidoReport>>
pushVars == <<frameVars, tallyVars, stats, lidoView>>
oracleVars == <<committeeVars, settingVars, pushVars, time>>

-----------------------------------------------------------------------------
(* Time *)

\* _getTime() - genesisTime is not checked: before genesis it wraps.
CurrentEpochId ==
    ((time - beaconSpec.genesisTime) % WORD)
        \div (beaconSpec.slotsPerEpoch * beaconSpec.secondsPerSlot)

FrameFirstEpochId(epoch) ==
    (epoch \div beaconSpec.epochsPerFrame) * beaconSpec.epochsPerFrame

-----------------------------------------------------------------------------
(* Tally *)

Members == {members[i] : i \in DOMAIN members}

VariantOf(report, tally) == {i \in DOMAIN tally : tally[i].report = report}

\* Mutant: a report is most frequent only above the quorum.
QuorumReports_Above(q) ==
    {variants[i].report : i \in
        {j \in DOMAIN variants :
            /\ variants[j].count > q
            /\ \A k \in DOMAIN variants \ {j} : variants[k].count < variants[j].count}}

\* _getQuorumReport: the reports that are the most frequent, alone at that,
\* and frequent enough.  There is at most one.
QuorumReports(q) ==
    {variants[i].report : i \in
        {j \in DOMAIN variants :
            /\ variants[j].count >= q
            /\ \A k \in DOMAIN variants \ {j} : variants[k].count < variants[j].count}}

-----------------------------------------------------------------------------
(* Push *)

\* _reportSanityChecks
SaneChange(post, pre, elapsed) ==
    IF post >= pre
    THEN BASIS_POINTS * YEAR * (post - pre) <= bounds.annualIncrease * pre * elapsed
    ELSE BASIS_POINTS * (pre - post) <= bounds.decrease * pre

\* Mutant: the bits of the last frame survive.
ClearReportingAndAdvanceTo_KeepBits(epoch) ==
    /\ variants' = <<>>
    /\ expectedEpoch' = epoch
    /\ UNCHANGED bitmask

ClearReportingAndAdvanceTo(epoch) ==
    /\ bitmask' = {}
    /\ variants' = <<>>
    /\ expectedEpoch' = epoch

\* Mutant: the frame after the current one, whatever epoch was completed.
EpochAfter_Current(epoch) == FrameFirstEpochId(CurrentEpochId) + beaconSpec.epochsPerFrame

\* The epoch expected once `epoch' is completed.
EpochAfter(epoch) == epoch + beaconSpec.epochsPerFrame

\* _push: Lido takes the report and its total supply becomes `post'.
Push(epoch, report) ==
    LET elapsed == (epoch - lastCompletedEpoch)
                       * beaconSpec.slotsPerEpoch * beaconSpec.secondsPerSlot
    IN  \E post \in PooledValues :
          /\ SaneChange(post, pooledEther, elapsed)
          /\ ClearReportingAndAdvanceTo(EpochAfter(epoch))
          /\ pooledEther' = post
          /\ lidoReport' = report
          /\ stats' = [pre |-> pooledEther, post |-> post, elapsed |-> elapsed]
          /\ lastCompletedEpoch' = epoch

-----------------------------------------------------------------------------
(* Init *)

NoStats == [pre |-> 0, post |-> 0, elapsed |-> 0]

\* initialize: no members yet, quorum 1, the first frame is not expected.
Init ==
    /\ members = <<>>
    /\ quorum = 1
    /\ beaconSpec \in BeaconSpecs
    /\ bounds \in Bounds
    /\ expectedEpoch = FrameFirstEpochId(0) + beaconSpec.epochsPerFrame
    /\ lastCompletedEpoch = 0
    /\ bitmask = {}
    /\ variants = <<>>
    /\ stats = NoStats
    /\ pooledEther \in PooledValues
    /\ lidoReport = NoReport
    /\ time = 1

-----------------------------------------------------------------------------
(* Governance *)

AddOracleMember(m) ==
    /\ m \notin Members
    /\ Len(members) < MAX_MEMBERS
    /\ members' = Append(members, m)
    /\ UNCHANGED <<quorum, settingVars, pushVars, time>>

WithoutMember(m) ==
    LET i == CHOOSE j \in DOMAIN members : members[j] = m
    IN  SubSeq([members EXCEPT ![i] = members[Len(members)]], 1, Len(members) - 1)

\* Mutant: the reports of the dismissed member still count.
RemoveOracleMember_KeepVariants(m) ==
    /\ m \in Members
    /\ members' = WithoutMember(m)
    /\ bitmask' = {}
    /\ UNCHANGED <<quorum, settingVars, frameVars, variants, stats, lidoView, time>>

\* The last member takes the place of the removed one; all reports are dropped.
RemoveOracleMember(m) ==
    /\ m \in Members
    /\ members' = WithoutMember(m)
    /\ bitmask' = {}
    /\ variants' = <<>>
    /\ UNCHANGED <<quorum, settingVars, frameVars, stats, lidoView, time>>

\* A lowered quorum may complete the frame with the reports there are.
SetQuorum(q) ==
    /\ quorum' = q
    /\ \/ /\ q < quorum
          /\ \E report \in QuorumReports(q) : Push(expectedEpoch, report)
       \/ /\ ~(q < quorum /\ QuorumReports(q) # {})
          /\ UNCHANGED pushVars
    /\ UNCHANGED <<members, settingVars, time>>

\* Mutant: the expected epoch is brought back into the new frames.
SetBeaconSpec_Realign(spec) ==
    /\ beaconSpec' = spec
    /\ expectedEpoch' = (expectedEpoch \div spec.epochsPerFrame) * spec.epochsPerFrame
    /\ UNCHANGED <<committeeVars, bounds, lastCompletedEpoch, tallyVars, stats, lidoView, time>>

\* The expected epoch is left as it is.
SetBeaconSpec(spec) ==
    /\ beaconSpec' = spec
    /\ UNCHANGED <<committeeVars, bounds, pushVars, time>>

\* setAllowedBeaconBalanceAnnualRelativeIncrease
SetAnnualIncrease(value) ==
    /\ bounds' = [bounds EXCEPT !.annualIncrease = value]
    /\ UNCHANGED <<committeeVars, beaconSpec, pushVars, time>>

\* setAllowedBeaconBalanceRelativeDecrease
SetDecrease(value) ==
    /\ bounds' = [bounds EXCEPT !.decrease = value]
    /\ UNCHANGED <<committeeVars, beaconSpec, pushVars, time>>

-----------------------------------------------------------------------------
(* reportBeacon *)

\* The tally the vote joins: a later epoch is accepted if it opens the current
\* frame, and whatever was reported for the expected epoch is dropped.
ReportBeacon(m, epoch, report) ==
    LET advances == epoch > expectedEpoch
        reported == IF advances THEN {} ELSE bitmask
        tally == IF advances THEN <<>> ELSE variants
        same == VariantOf(report, tally)
    IN  /\ epoch >= expectedEpoch
        /\ advances => epoch = FrameFirstEpochId(CurrentEpochId)
        /\ \E index \in DOMAIN members \ reported :
              /\ members[index] = m
              /\ \/ /\ \/ \E i \in same : tally[i].count + 1 >= quorum
                       \/ same = {} /\ quorum = 1
                    /\ Push(epoch, report)
                 \/ /\ \/ \E i \in same :
                             /\ tally[i].count + 1 < quorum
                             /\ variants' = [tally EXCEPT ![i].count = @ + 1]
                       \/ /\ same = {} /\ quorum # 1
                          /\ variants' = Append(tally, [report |-> report, count |-> 1])
                    /\ bitmask' = reported \cup {index}
                    /\ expectedEpoch' = epoch
                    /\ UNCHANGED <<lastCompletedEpoch, stats, lidoView>>
        /\ UNCHANGED <<committeeVars, settingVars, time>>

-----------------------------------------------------------------------------
(* The world *)

Tick ==
    /\ time < MaxTime
    /\ time' = time + 1
    /\ UNCHANGED <<committeeVars, settingVars, pushVars>>

StakersSubmit ==
    /\ \E p \in PooledValues : p > pooledEther /\ pooledEther' = p
    /\ UNCHANGED <<committeeVars, settingVars, frameVars, tallyVars, stats, lidoReport, time>>

Govern ==
    \/ \E m \in Candidates : AddOracleMember(m) \/ RemoveOracleMember(m)
    \/ \E q \in Quorums : SetQuorum(q)
    \/ \E spec \in BeaconSpecs : SetBeaconSpec(spec)
    \/ \E value \in Increases : SetAnnualIncrease(value)
    \/ \E value \in Decreases : SetDecrease(value)

Next ==
    \/ Govern
    \/ \E m \in Candidates, epoch \in 0 .. MaxEpoch, report \in Reports :
          ReportBeacon(m, epoch, report)
    \/ Tick
    \/ StakersSubmit

Spec == Init /\ [][Next]_oracleVars

=============================================================================
