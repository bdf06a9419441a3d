---------------------------- MODULE MCLidoOracle ----------------------------
EXTENDS LidoOracleHistory, TLC

CONSTANTS a, b, c, r1, r2

\* Frames of two epochs, then of three, from the same genesis.
MCSpec(epochs) == [epochsPerFrame |-> epochs, slotsPerEpoch |-> 1,
                   secondsPerSlot |-> 1, genesisTime |-> 1]
MCSpecs == {MCSpec(2), MCSpec(3)}

-----------------------------------------------------------------------------
(* Liveness: two honest members and one who reports what it likes *)

Honest == {a, b}

\* The committee after governance has appointed it.
LiveInit ==
    /\ members = <<c, a, b>>
    /\ quorum = 2
    /\ beaconSpec \in BeaconSpecs
    /\ bounds \in Bounds
    /\ expectedEpoch = FrameFirstEpochId(0) + beaconSpec.epochsPerFrame
    /\ lastCompletedEpoch = 0
    /\ bitmask = {}
    /\ variants = <<>>
    /\ stats = NoStats
    /\ pooledEther \in PooledValues
    /\ lidoReport = NoReport
    /\ time = 1
    /\ ballots = NoBallots

\* The oracle daemon reports what it sees at the first epoch of the frame.
HonestReport(m) == Cast(m, FrameFirstEpochId(CurrentEpochId), r1)

LiveNext ==
    \/ \E m \in Honest : HonestReport(m)
    \/ \E epoch \in 0 .. MaxEpoch, report \in Reports : Cast(c, epoch, report)
    \/ Dismiss(c)
    \/ Tick /\ UNCHANGED ballots

\* Daemons retry until their report is in, and time passes.
LiveFairness ==
    /\ \A m \in Honest : WF_historyVars(HonestReport(m))
    /\ WF_historyVars(Tick /\ UNCHANGED ballots)

LiveSpec == LiveInit /\ [][LiveNext]_historyVars /\ LiveFairness

\* A frame that lasts long enough (the last one, which MaxTime never ends)
\* completes, whatever was left over from the frames before it, whatever the
\* minority reports, and even if the minority is dismissed in the middle.
LastFrame == FrameFirstEpochId((MaxTime - beaconSpec.genesisTime)
                                 \div (beaconSpec.slotsPerEpoch * beaconSpec.secondsPerSlot))

FrameCompletes == <>(lastCompletedEpoch = LastFrame)

MCSymmetry == Permutations({a, b, c}) \cup Permutations({r1, r2})
=============================================================================
