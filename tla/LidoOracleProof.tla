-------------------------- MODULE LidoOracleProof ---------------------------
(***************************************************************************)
(* Proofs about LidoOracle, for any committee, any quorums, any sequence   *)
(* of frame specifications and any time: its epochs, its tally, and what   *)
(* stands behind a report that is pushed.                                  *)
(***************************************************************************)
EXTENDS LidoOracleHistory, SharedLemmas

\* What the epochs depend on.
EpochsTypeOK ==
    /\ beaconSpec \in BeaconSpecs
    /\ expectedEpoch \in Nat
    /\ lastCompletedEpoch \in Nat

EpochsInv == EpochsTypeOK /\ ExpectsLaterEpoch

-----------------------------------------------------------------------------
\* A frame has a first epoch.
LEMMA FrameLength ==
    ASSUME EpochsTypeOK
    PROVE  beaconSpec.epochsPerFrame \in Nat /\ beaconSpec.epochsPerFrame > 0
BY OracleAssumption DEF EpochsTypeOK, BeaconSpecType

\* The oracle starts with the epoch of the deployment completed, and expects the
\* first frame after it.
LEMMA EpochsInit == HistoryInit => EpochsInv
<1>1. SUFFICES ASSUME HistoryInit PROVE EpochsInv
  OBVIOUS
<1>2. /\ beaconSpec \in BeaconSpecs
      /\ lastCompletedEpoch = 0
      /\ expectedEpoch = (0 \div beaconSpec.epochsPerFrame) * beaconSpec.epochsPerFrame
                           + beaconSpec.epochsPerFrame
  BY <1>1 DEF HistoryInit, Init, FrameFirstEpochId
<1>3. beaconSpec.epochsPerFrame \in Nat /\ beaconSpec.epochsPerFrame > 0
  BY <1>2, OracleAssumption DEF BeaconSpecType
<1>4. 0 \div beaconSpec.epochsPerFrame = 0
  BY <1>3
<1>5. expectedEpoch = beaconSpec.epochsPerFrame
  BY <1>2, <1>3, <1>4
<1> QED BY <1>2, <1>3, <1>5 DEF EpochsInv, EpochsTypeOK, ExpectsLaterEpoch

\* A push completes an epoch and expects a later one.
LEMMA PushAdvances ==
    ASSUME EpochsInv, UNCHANGED beaconSpec,
           NEW epoch \in Nat, NEW report, epoch >= expectedEpoch, Push(epoch, report)
    PROVE  /\ EpochsInv'
           /\ lastCompletedEpoch' >= lastCompletedEpoch
           /\ expectedEpoch' >= expectedEpoch
<1>1. beaconSpec.epochsPerFrame \in Nat /\ beaconSpec.epochsPerFrame > 0
  BY FrameLength DEF EpochsInv
<1>2. expectedEpoch' = epoch + beaconSpec.epochsPerFrame /\ lastCompletedEpoch' = epoch
  BY DEF Push, ClearReportingAndAdvanceTo, EpochAfter
<1> QED BY <1>1, <1>2 DEF EpochsInv, EpochsTypeOK, ExpectsLaterEpoch

-----------------------------------------------------------------------------
\* What every step does to the epochs.
EpochsStep ==
    /\ EpochsInv'
    /\ lastCompletedEpoch' >= lastCompletedEpoch
    /\ expectedEpoch' >= expectedEpoch

\* Calls that leave the epochs alone, whatever else they change.
LEMMA EpochsUnchanged ==
    ASSUME EpochsInv, beaconSpec' \in BeaconSpecs, UNCHANGED frameVars
    PROVE  EpochsStep
BY DEF EpochsInv, EpochsTypeOK, ExpectsLaterEpoch, EpochsStep, frameVars

\* A vote completes the frame, or is counted for the expected epoch or a later one.
LEMMA ReportBeaconStep ==
    ASSUME EpochsInv, NEW m, NEW epoch \in Nat, NEW report, ReportBeacon(m, epoch, report)
    PROVE  EpochsStep
<1>1. epoch >= expectedEpoch /\ UNCHANGED beaconSpec
  BY DEF ReportBeacon, settingVars
<1>2. CASE Push(epoch, report)
  BY <1>1, <1>2, PushAdvances DEF EpochsStep
<1>3. CASE expectedEpoch' = epoch /\ UNCHANGED lastCompletedEpoch
  BY <1>1, <1>3 DEF EpochsInv, EpochsTypeOK, ExpectsLaterEpoch, EpochsStep
<1> QED BY <1>2, <1>3 DEF ReportBeacon

\* A lowered quorum may complete the expected epoch.
LEMMA SetQuorumStep ==
    ASSUME EpochsInv, NEW q, SetQuorum(q)
    PROVE  EpochsStep
<1>1. UNCHANGED beaconSpec
  BY DEF SetQuorum, settingVars
<1>2. CASE \E report \in QuorumReports(q) : Push(expectedEpoch, report)
  <2>1. PICK report \in QuorumReports(q) : Push(expectedEpoch, report)
    BY <1>2
  <2>2. expectedEpoch \in Nat /\ expectedEpoch >= expectedEpoch
    BY DEF EpochsInv, EpochsTypeOK
  <2> QED BY <1>1, <2>1, <2>2, PushAdvances DEF EpochsStep
<1>3. CASE UNCHANGED pushVars
  <2>1. UNCHANGED frameVars
    BY <1>3 DEF pushVars
  <2>2. beaconSpec' \in BeaconSpecs
    BY <1>1 DEF EpochsInv, EpochsTypeOK
  <2> QED BY <2>1, <2>2, EpochsUnchanged
<1> QED BY <1>2, <1>3 DEF SetQuorum

\* Every step keeps the invariant and moves no epoch back.
LEMMA EpochsNext == EpochsInv /\ [HistoryNext]_historyVars => EpochsStep
<1> SUFFICES ASSUME EpochsInv, [HistoryNext]_historyVars PROVE EpochsStep
  OBVIOUS
<1>0. beaconSpec \in BeaconSpecs
  BY DEF EpochsInv, EpochsTypeOK
<1>1. ASSUME NEW m \in Candidates, NEW epoch \in 0 .. MaxEpoch, NEW report \in Reports,
             Cast(m, epoch, report)
      PROVE  EpochsStep
  <2>1. epoch \in Nat
    OBVIOUS
  <2> QED BY <1>1, <2>1, ReportBeaconStep DEF Cast
<1>2. ASSUME NEW m \in Candidates, Dismiss(m) PROVE EpochsStep
  <2>1. UNCHANGED <<beaconSpec, frameVars>>
    BY <1>2 DEF Dismiss, RemoveOracleMember, settingVars
  <2> QED BY <1>0, <2>1, EpochsUnchanged
<1>3. ASSUME NEW q \in Quorums, ChangeQuorum(q) PROVE EpochsStep
  BY <1>3, SetQuorumStep DEF ChangeQuorum
<1>4. ASSUME NEW m \in Candidates, AddOracleMember(m) PROVE EpochsStep
  <2>1. UNCHANGED <<beaconSpec, frameVars>>
    BY <1>4 DEF AddOracleMember, settingVars, pushVars
  <2> QED BY <1>0, <2>1, EpochsUnchanged
<1>5. ASSUME NEW spec \in BeaconSpecs, SetBeaconSpec(spec) PROVE EpochsStep
  <2>1. beaconSpec' = spec /\ UNCHANGED frameVars
    BY <1>5 DEF SetBeaconSpec, pushVars
  <2> QED BY <2>1, EpochsUnchanged
<1>6. ASSUME NEW value \in Increases, SetAnnualIncrease(value) PROVE EpochsStep
  <2>1. UNCHANGED <<beaconSpec, frameVars>>
    BY <1>6 DEF SetAnnualIncrease, pushVars
  <2> QED BY <1>0, <2>1, EpochsUnchanged
<1>7. ASSUME NEW value \in Decreases, SetDecrease(value) PROVE EpochsStep
  <2>1. UNCHANGED <<beaconSpec, frameVars>>
    BY <1>7 DEF SetDecrease, pushVars
  <2> QED BY <1>0, <2>1, EpochsUnchanged
<1>8. CASE Tick
  <2>1. UNCHANGED <<beaconSpec, frameVars>>
    BY <1>8 DEF Tick, settingVars, pushVars
  <2> QED BY <1>0, <2>1, EpochsUnchanged
<1>9. CASE StakersSubmit
  <2>1. UNCHANGED <<beaconSpec, frameVars>>
    BY <1>9 DEF StakersSubmit, settingVars
  <2> QED BY <1>0, <2>1, EpochsUnchanged
<1>10. CASE UNCHANGED historyVars
  <2>1. UNCHANGED <<beaconSpec, frameVars>>
    BY <1>10 DEF historyVars, oracleVars, settingVars, pushVars
  <2> QED BY <1>0, <2>1, EpochsUnchanged
<1> QED BY <1>1, <1>2, <1>3, <1>4, <1>5, <1>6, <1>7, <1>8, <1>9, <1>10 DEF HistoryNext

-----------------------------------------------------------------------------
\* A completed epoch is never expected again: no frame can be reported twice.
THEOREM OracleExpectsLaterEpoch == HistorySpec => []ExpectsLaterEpoch
<1>1. EpochsInv /\ [HistoryNext]_historyVars => EpochsInv'
  BY EpochsNext DEF EpochsStep
<1>2. EpochsInv => ExpectsLaterEpoch
  BY DEF EpochsInv
<1> QED BY EpochsInit, <1>1, <1>2, PTL DEF HistorySpec

\* Epochs complete in increasing order, and the expected epoch never moves back,
\* although governance may change the length of frames at any time.
THEOREM OracleEpochsAdvance == HistorySpec => EpochsAdvance
<1>1. EpochsInv /\ [HistoryNext]_historyVars => EpochsInv'
  BY EpochsNext DEF EpochsStep
<1>2. EpochsInv /\ [HistoryNext]_historyVars =>
        /\ lastCompletedEpoch' >= lastCompletedEpoch
        /\ expectedEpoch' >= expectedEpoch
        /\ Pushes => expectedEpoch' > lastCompletedEpoch'
  BY EpochsNext DEF EpochsStep, EpochsInv, ExpectsLaterEpoch
<1> QED BY EpochsInit, <1>1, <1>2, PTL DEF HistorySpec, EpochsAdvance

-----------------------------------------------------------------------------
(* A tally and the ballots it counts *)

Supporters(cast, report) == {m \in Candidates : cast[m] = report}

Ballots == [Candidates -> Reports \cup {NoReport}]

Entries == [report: Reports, count: Nat \ {0}]

Tallies == Seq(Entries)

Voted(cast, m, report) == [cast EXCEPT ![m] = report]

CountedOnceMore(tally, i) == [tally EXCEPT ![i].count = @ + 1]

FirstCount(report) == [report |-> report, count |-> 1]

\* The positions that voted, and the counts, are those of the ballots cast.
Counts(ms, bits, tally, cast) ==
    /\ bits = {i \in DOMAIN ms : cast[ms[i]] # NoReport}
    /\ \A m \in Candidates : cast[m] # NoReport =>
          /\ \E i \in DOMAIN ms : ms[i] = m
          /\ \E k \in DOMAIN tally : tally[k].report = cast[m]
    /\ \A k \in DOMAIN tally :
          /\ tally[k].count = Cardinality(Supporters(cast, tally[k].report))
          /\ \A j \in DOMAIN tally : tally[j].report = tally[k].report => j = k

Distinct(ms) == \A i, j \in DOMAIN ms : ms[i] = ms[j] => i = j

\* Whoever voted is a member, so that a report has finitely many supporters.
LEMMA SupportersFinite ==
    ASSUME NEW ms \in Seq(Candidates), NEW cast \in Ballots, NEW report \in Reports,
           \A m \in Candidates : cast[m] # NoReport => \E i \in DOMAIN ms : ms[i] = m
    PROVE  /\ IsFiniteSet(Supporters(cast, report))
           /\ Cardinality(Supporters(cast, report)) \in Nat
           /\ Cardinality(Supporters(cast, report)) <= Len(ms)
<1> DEFINE Voters == {ms[i] : i \in 1 .. Len(ms)}
           F == [i \in 1 .. Len(ms) |-> ms[i]]
<1>1. Len(ms) \in Nat /\ IsFiniteSet(1 .. Len(ms)) /\ Cardinality(1 .. Len(ms)) = Len(ms)
  <2>1. Len(ms) \in Nat /\ 1 \in Int /\ Len(ms) \in Int
    OBVIOUS
  <2>2. IsFiniteSet(1 .. Len(ms)) /\ Cardinality(1 .. Len(ms)) = IF 1 > Len(ms) THEN 0 ELSE Len(ms) - 1 + 1
    BY <2>1, FS_Interval
  <2> QED BY <2>1, <2>2
<1>2. F \in Surjection(1 .. Len(ms), Voters)
  BY Fun_IsSurj
<1>3. IsFiniteSet(Voters) /\ Cardinality(Voters) <= Len(ms)
  BY <1>1, <1>2, FS_Surjection
<1>4. Supporters(cast, report) \subseteq Voters
  <2> SUFFICES ASSUME NEW m \in Supporters(cast, report) PROVE m \in Voters
    OBVIOUS
  <2>1. m \in Candidates /\ cast[m] # NoReport
    BY OracleAssumption DEF Supporters
  <2> QED BY <2>1
<1> HIDE DEF Voters
<1>5. Cardinality(Voters) \in Nat
  BY <1>3, FS_CardinalityType
<1>6. IsFiniteSet(Supporters(cast, report))
      /\ Cardinality(Supporters(cast, report)) <= Cardinality(Voters)
  BY <1>3, <1>4, FS_Subset
<1>7. Cardinality(Supporters(cast, report)) \in Nat
  BY <1>6, FS_CardinalityType
<1> QED BY <1>1, <1>3, <1>5, <1>6, <1>7

\* Nothing is counted where nothing was cast.
LEMMA NothingCounts ==
    ASSUME NEW ms \in Seq(Candidates)
    PROVE  Counts(ms, {}, << >>, NoBallots) /\ NoBallots \in Ballots
<1>1. \A i \in DOMAIN ms : ms[i] \in Candidates
  OBVIOUS
<1> QED BY <1>1 DEF Counts, NoBallots, Ballots

\* A vote of a member that has not voted adds one supporter to one report.
LEMMA VoteAdds ==
    ASSUME NEW ms \in Seq(Candidates), Distinct(ms), NEW cast \in Ballots,
           NEW bits, NEW tally \in Tallies, Counts(ms, bits, tally, cast),
           NEW index \in DOMAIN ms \ bits, NEW report \in Reports
    PROVE  /\ Voted(cast, ms[index], report) \in Ballots
           /\ ms[index] \in Candidates
           /\ cast[ms[index]] = NoReport
           /\ Voted(cast, ms[index], report)[ms[index]] = report
           /\ \A c \in Candidates \ {ms[index]} : Voted(cast, ms[index], report)[c] = cast[c]
           /\ bits \cup {index} = {i \in DOMAIN ms : Voted(cast, ms[index], report)[ms[i]] # NoReport}
           /\ Cardinality(Supporters(Voted(cast, ms[index], report), report))
                = Cardinality(Supporters(cast, report)) + 1
           /\ \A r \in Reports \ {report} :
                 Supporters(Voted(cast, ms[index], report), r) = Supporters(cast, r)
<1> DEFINE m == ms[index]
           after == Voted(cast, m, report)
<1>1. m \in Candidates /\ NoReport \notin Reports
  BY OracleAssumption
<1>2. cast[m] = NoReport
  BY DEF Counts
<1>3. after \in Ballots /\ after[m] = report /\ \A c \in Candidates \ {m} : after[c] = cast[c]
  BY <1>1 DEF Ballots, Voted
<1>4. \A i \in DOMAIN ms : ms[i] \in Candidates /\ (ms[i] = m => i = index)
  BY DEF Distinct
<1> HIDE DEF after, m
<1>5. bits \cup {index} = {i \in DOMAIN ms : after[ms[i]] # NoReport}
  <2>1. bits = {i \in DOMAIN ms : cast[ms[i]] # NoReport}
    BY DEF Counts
  <2> QED BY <1>1, <1>3, <1>4, <2>1 DEF m
<1>6. Supporters(after, report) = Supporters(cast, report) \cup {m} /\ m \notin Supporters(cast, report)
  BY <1>1, <1>2, <1>3 DEF Supporters
<1>7. IsFiniteSet(Supporters(cast, report))
  BY SupportersFinite DEF Counts
<1>8. Cardinality(Supporters(after, report)) = Cardinality(Supporters(cast, report)) + 1
  BY <1>6, <1>7, FS_AddElement
<1>9. \A r \in Reports \ {report} : Supporters(after, r) = Supporters(cast, r)
  BY <1>1, <1>2, <1>3 DEF Supporters
<1> QED BY <1>1, <1>2, <1>3, <1>5, <1>8, <1>9 DEF after, m

\* What an entry of a tally is.
LEMMA EntriesOf ==
    ASSUME NEW tally \in Tallies, NEW k \in DOMAIN tally
    PROVE  tally[k] \in Entries /\ tally[k].report \in Reports /\ tally[k].count \in Nat \ {0}
<1>1. tally[k] \in Entries
  BY DEF Tallies
<1> QED BY <1>1 DEF Entries

\* A vote for a report that others made.
LEMMA VoteForSame ==
    ASSUME NEW ms \in Seq(Candidates), Distinct(ms), NEW cast \in Ballots,
           NEW bits, NEW tally \in Tallies, Counts(ms, bits, tally, cast),
           NEW index \in DOMAIN ms \ bits, NEW report \in Reports,
           NEW i \in DOMAIN tally, tally[i].report = report
    PROVE  /\ CountedOnceMore(tally, i) \in Tallies
           /\ Counts(ms, bits \cup {index}, CountedOnceMore(tally, i),
                     Voted(cast, ms[index], report))
<1> DEFINE after == Voted(cast, ms[index], report)
           counted == CountedOnceMore(tally, i)
<1>1. /\ after \in Ballots
      /\ bits \cup {index} = {k \in DOMAIN ms : after[ms[k]] # NoReport}
      /\ Cardinality(Supporters(after, report)) = Cardinality(Supporters(cast, report)) + 1
      /\ \A r \in Reports \ {report} : Supporters(after, r) = Supporters(cast, r)
      /\ ms[index] \in Candidates
      /\ \A c \in Candidates : c # ms[index] => after[c] = cast[c]
      /\ after[ms[index]] = report
  BY VoteAdds
<1>2. /\ counted \in Tallies
      /\ DOMAIN counted = DOMAIN tally
      /\ counted[i].report = report /\ counted[i].count = tally[i].count + 1
      /\ \A k \in DOMAIN tally \ {i} : counted[k] = tally[k]
  <2> DEFINE entry == [tally[i] EXCEPT !.count = @ + 1]
  <2>1. tally[i] \in Entries
    BY EntriesOf
  <2>2. entry \in Entries /\ entry.report = report /\ entry.count = tally[i].count + 1
    BY <2>1 DEF Entries
  <2>3. counted = [tally EXCEPT ![i] = entry]
    BY DEF CountedOnceMore
  <2> HIDE DEF entry
  <2>4. /\ counted \in Tallies
        /\ DOMAIN counted = DOMAIN tally
        /\ counted[i] = entry
        /\ \A k \in DOMAIN tally \ {i} : counted[k] = tally[k]
    BY <2>2, <2>3 DEF Tallies
  <2> QED BY <2>2, <2>4
<1>3. \A k \in DOMAIN tally : tally[k].report \in Reports
  BY EntriesOf
<1> HIDE DEF after, counted
<1>6. ASSUME NEW c \in Candidates, after[c] # NoReport
      PROVE  (\E k \in DOMAIN ms : ms[k] = c) /\ \E k \in DOMAIN counted : counted[k].report = after[c]
  <2>1. CASE c = ms[index]
    BY <1>2, <1>1, <2>1
  <2>2. CASE c # ms[index]
    <3>1. after[c] = cast[c]
      BY <1>1, <2>2
    <3>2. PICK k \in DOMAIN tally : tally[k].report = cast[c]
      BY <1>6, <3>1 DEF Counts
    <3>3. counted[k].report = after[c]
      BY <1>2, <3>1, <3>2
    <3>4. \E j \in DOMAIN ms : ms[j] = c
      BY <1>6, <3>1 DEF Counts
    <3> QED BY <1>2, <3>3, <3>4
  <2> QED BY <2>1, <2>2
<1>7. ASSUME NEW k \in DOMAIN counted
      PROVE  /\ counted[k].count = Cardinality(Supporters(after, counted[k].report))
             /\ \A j \in DOMAIN counted : counted[j].report = counted[k].report => j = k
  <2>1. \A j \in DOMAIN tally : counted[j].report = tally[j].report
    BY <1>2
  <2>2. /\ tally[k].count = Cardinality(Supporters(cast, tally[k].report))
        /\ \A j \in DOMAIN tally : tally[j].report = tally[k].report => j = k
    BY <1>2, <1>7 DEF Counts
  <2>3. CASE k = i
    BY <1>1, <1>2, <2>1, <2>2, <2>3
  <2>4. CASE k # i
    BY <1>1, <1>2, <1>3, <2>1, <2>2, <2>4
  <2> QED BY <2>3, <2>4
<1>8. Counts(ms, bits \cup {index}, counted, after)
  BY <1>1, <1>6, <1>7 DEF Counts
<1> QED BY <1>2, <1>8 DEF after, counted

\* A vote for a report that nobody made yet.
LEMMA VoteForNew ==
    ASSUME NEW ms \in Seq(Candidates), Distinct(ms), NEW cast \in Ballots,
           NEW bits, NEW tally \in Tallies, Counts(ms, bits, tally, cast),
           NEW index \in DOMAIN ms \ bits, NEW report \in Reports,
           \A i \in DOMAIN tally : tally[i].report # report
    PROVE  /\ Append(tally, FirstCount(report)) \in Tallies
           /\ Counts(ms, bits \cup {index}, Append(tally, FirstCount(report)),
                     Voted(cast, ms[index], report))
<1> DEFINE after == Voted(cast, ms[index], report)
           counted == Append(tally, FirstCount(report))
           n == Len(tally) + 1
<1>1. /\ after \in Ballots
      /\ bits \cup {index} = {k \in DOMAIN ms : after[ms[k]] # NoReport}
      /\ Cardinality(Supporters(after, report)) = Cardinality(Supporters(cast, report)) + 1
      /\ \A r \in Reports \ {report} : Supporters(after, r) = Supporters(cast, r)
      /\ ms[index] \in Candidates
      /\ \A c \in Candidates : c # ms[index] => after[c] = cast[c]
      /\ after[ms[index]] = report
  BY VoteAdds
<1>2. /\ counted \in Tallies
      /\ DOMAIN tally = 1 .. Len(tally) /\ Len(tally) \in Nat
      /\ DOMAIN counted = DOMAIN tally \cup {n}
      /\ counted[n].report = report /\ counted[n].count = 1
      /\ \A k \in DOMAIN tally : counted[k] = tally[k] /\ k # n
  <2>1. FirstCount(report) \in Entries
    BY DEF Entries, FirstCount
  <2>2. /\ counted \in Tallies
        /\ DOMAIN tally = 1 .. Len(tally) /\ Len(tally) \in Nat
        /\ DOMAIN counted = DOMAIN tally \cup {n}
        /\ counted[n] = FirstCount(report)
        /\ \A k \in DOMAIN tally : counted[k] = tally[k] /\ k # n
    BY <2>1 DEF Tallies
  <2> QED BY <2>2 DEF FirstCount
<1>3. \A k \in DOMAIN tally : tally[k].report \in Reports
  BY EntriesOf
<1>6. Supporters(cast, report) = {}
  <2> SUFFICES ASSUME NEW c \in Supporters(cast, report) PROVE FALSE
    OBVIOUS
  <2>1. c \in Candidates /\ cast[c] = report /\ cast[c] # NoReport
    BY OracleAssumption DEF Supporters
  <2> QED BY <2>1 DEF Counts
<1>7. Cardinality(Supporters(after, report)) = 1
  BY <1>1, <1>6, FS_EmptySet
<1> HIDE DEF after, counted, n
<1>8. ASSUME NEW c \in Candidates, after[c] # NoReport
      PROVE  (\E k \in DOMAIN ms : ms[k] = c) /\ \E k \in DOMAIN counted : counted[k].report = after[c]
  <2>1. CASE c = ms[index]
    BY <1>2, <1>1, <2>1
  <2>2. CASE c # ms[index]
    <3>1. after[c] = cast[c]
      BY <1>1, <2>2
    <3>2. PICK k \in DOMAIN tally : tally[k].report = cast[c]
      BY <1>8, <3>1 DEF Counts
    <3>3. counted[k].report = after[c]
      BY <1>2, <3>1, <3>2
    <3>4. \E j \in DOMAIN ms : ms[j] = c
      BY <1>8, <3>1 DEF Counts
    <3> QED BY <1>2, <3>3, <3>4
  <2> QED BY <2>1, <2>2
<1>9. ASSUME NEW k \in DOMAIN counted
      PROVE  /\ counted[k].count = Cardinality(Supporters(after, counted[k].report))
             /\ \A j \in DOMAIN counted : counted[j].report = counted[k].report => j = k
  <2>1. \A j \in DOMAIN tally : counted[j].report = tally[j].report /\ counted[j].report # report
    BY <1>2
  <2>2. CASE k = n
    BY <1>2, <1>7, <2>1, <2>2
  <2>3. CASE k \in DOMAIN tally
    <3>1. /\ tally[k].count = Cardinality(Supporters(cast, tally[k].report))
          /\ \A j \in DOMAIN tally : tally[j].report = tally[k].report => j = k
      BY <2>3 DEF Counts
    <3> QED BY <1>1, <1>2, <1>3, <2>1, <2>3, <3>1
  <2> QED BY <1>2, <2>2, <2>3
<1>10. Counts(ms, bits \cup {index}, counted, after)
  BY <1>1, <1>8, <1>9 DEF Counts
<1> QED BY <1>2, <1>10 DEF after, counted

-----------------------------------------------------------------------------
(* The committee *)

\* Nothing that reached the quorum waits, unless it ties with another report.
TieOf(q, tally) ==
    \A k \in DOMAIN tally : tally[k].count >= q =>
        \E i, j \in DOMAIN tally :
            /\ i # j
            /\ tally[i].count = tally[j].count
            /\ tally[i].count >= tally[k].count

CommitteeOK ==
    /\ members \in Seq(Candidates)
    /\ Distinct(members)
    /\ quorum \in Nat \ {0}

TallyOK ==
    /\ variants \in Tallies
    /\ ballots \in Ballots
    /\ Counts(members, bitmask, variants, ballots)
    /\ TieOf(quorum, variants)

TallyInv == CommitteeOK /\ TallyOK

\* Where nothing was reported nothing waits.
LEMMA EmptyTally ==
    ASSUME NEW ms \in Seq(Candidates), NEW q
    PROVE  /\ << >> \in Tallies /\ NoBallots \in Ballots
           /\ Counts(ms, {}, << >>, NoBallots)
           /\ TieOf(q, << >>)
<1>1. << >> \in Tallies /\ DOMAIN << >> = {}
  BY DEF Tallies
<1> QED BY <1>1, NothingCounts DEF TieOf

\* A report that was pushed leaves nothing.
LEMMA PushClears ==
    ASSUME EpochsInv, NEW epoch \in Nat, epoch >= expectedEpoch, NEW report, Push(epoch, report)
    PROVE  /\ Pushes
           /\ lastCompletedEpoch' = epoch
           /\ lidoReport' = report
           /\ bitmask' = {}
           /\ variants' = << >>
BY DEF EpochsInv, EpochsTypeOK, ExpectsLaterEpoch, Push, ClearReportingAndAdvanceTo, Pushes

\* A vote that does not complete the frame joins the tally.
LEMMA VoteTied ==
    ASSUME NEW tally \in Tallies, TieOf(quorum, tally), quorum \in Nat,
           NEW i \in DOMAIN tally, tally[i].count + 1 < quorum
    PROVE  TieOf(quorum, CountedOnceMore(tally, i))
<1> DEFINE counted == CountedOnceMore(tally, i)
<1>1. \A k \in DOMAIN tally : tally[k] \in Entries /\ tally[k].count \in Nat
  BY EntriesOf
<1>2. /\ DOMAIN counted = DOMAIN tally
      /\ counted[i].count = tally[i].count + 1
      /\ \A k \in DOMAIN tally \ {i} : counted[k] = tally[k]
  <2> DEFINE entry == [tally[i] EXCEPT !.count = @ + 1]
  <2>1. entry.count = tally[i].count + 1
    BY <1>1 DEF Entries
  <2>2. counted = [tally EXCEPT ![i] = entry]
    BY DEF CountedOnceMore
  <2> HIDE DEF entry
  <2> QED BY <2>1, <2>2 DEF Tallies
<1> HIDE DEF counted
<1>3. ASSUME NEW k \in DOMAIN counted, counted[k].count >= quorum
      PROVE  \E x, y \in DOMAIN counted :
                /\ x # y
                /\ counted[x].count = counted[y].count
                /\ counted[x].count >= counted[k].count
  <2>1. k \in DOMAIN tally /\ k # i /\ counted[k] = tally[k]
    BY <1>1, <1>2, <1>3
  <2>2. PICK x, y \in DOMAIN tally :
            x # y /\ tally[x].count = tally[y].count /\ tally[x].count >= tally[k].count
    BY <1>3, <2>1 DEF TieOf
  <2>3. x # i /\ y # i
    BY <1>1, <1>3, <2>1, <2>2
  <2> QED BY <1>2, <2>1, <2>2, <2>3
<1> QED BY <1>3 DEF TieOf, counted

\* So does the first vote for a report.
LEMMA FirstVoteTied ==
    ASSUME NEW tally \in Tallies, TieOf(quorum, tally), quorum \in Nat \ {0}, quorum # 1,
           NEW report \in Reports
    PROVE  TieOf(quorum, Append(tally, FirstCount(report)))
<1> DEFINE counted == Append(tally, FirstCount(report))
           n == Len(tally) + 1
<1>1. FirstCount(report) \in Entries /\ FirstCount(report).count = 1
  BY DEF Entries, FirstCount
<1>2. /\ DOMAIN counted = DOMAIN tally \cup {n}
      /\ counted[n] = FirstCount(report)
      /\ \A k \in DOMAIN tally : counted[k] = tally[k]
  BY <1>1 DEF Tallies
<1> HIDE DEF counted, n
<1>3. ASSUME NEW k \in DOMAIN counted, counted[k].count >= quorum
      PROVE  \E x, y \in DOMAIN counted :
                /\ x # y
                /\ counted[x].count = counted[y].count
                /\ counted[x].count >= counted[k].count
  <2>1. k \in DOMAIN tally /\ counted[k] = tally[k]
    BY <1>1, <1>2, <1>3
  <2>2. PICK x, y \in DOMAIN tally :
            x # y /\ tally[x].count = tally[y].count /\ tally[x].count >= tally[k].count
    BY <1>3, <2>1 DEF TieOf
  <2> QED BY <1>2, <2>1, <2>2
<1> QED BY <1>3 DEF TieOf, counted

\* A report that has the quorum and is not the most frequent one alone ties: the
\* most frequent ones are several.
LEMMA NoReportTies ==
    ASSUME CommitteeOK, TallyOK, NEW q \in Nat, QuorumReports(q) = {}
    PROVE  TieOf(q, variants)
<1> SUFFICES ASSUME NEW k \in DOMAIN variants, variants[k].count >= q
             PROVE  \E i, j \in DOMAIN variants :
                       /\ i # j
                       /\ variants[i].count = variants[j].count
                       /\ variants[i].count >= variants[k].count
  BY DEF TieOf
<1> DEFINE Frequencies == {variants[i].count : i \in DOMAIN variants}
<1>1. \A i \in DOMAIN variants :
          variants[i].count \in Nat /\ variants[i].count <= Len(members)
  <2> SUFFICES ASSUME NEW i \in DOMAIN variants
               PROVE  variants[i].count \in Nat /\ variants[i].count <= Len(members)
    OBVIOUS
  <2>1. variants[i].report \in Reports
    BY EntriesOf DEF TallyOK
  <2>2. variants[i].count = Cardinality(Supporters(ballots, variants[i].report))
    BY DEF TallyOK, Counts
  <2> QED BY <2>1, <2>2, SupportersFinite DEF TallyOK, CommitteeOK, Counts
<1>2. Len(members) \in Nat
  BY DEF CommitteeOK
<1>3. PICK top \in Frequencies : \A n \in Frequencies : n <= top
  <2>1. Frequencies \subseteq Nat /\ Frequencies # {} /\ \A n \in Frequencies : n <= Len(members)
    BY <1>1
  <2> HIDE DEF Frequencies
  <2> QED BY <1>2, <2>1, NatMaximum
<1>4. PICK i \in DOMAIN variants : variants[i].count = top
  BY <1>3
<1>5. \A j \in DOMAIN variants : variants[j].count <= variants[i].count
  BY <1>3, <1>4
<1>6. variants[i].count >= q
  BY <1>1, <1>5
<1>7. PICK j \in DOMAIN variants \ {i} : ~(variants[j].count < variants[i].count)
  BY <1>6 DEF QuorumReports
<1>8. variants[j].count = variants[i].count
  BY <1>1, <1>5, <1>7
<1> QED BY <1>1, <1>5, <1>7, <1>8

\* Every vote keeps the tally.
LEMMA CastKeeps ==
    ASSUME EpochsInv, TallyInv, NEW m \in Candidates, NEW epoch \in Nat, NEW report \in Reports,
           Cast(m, epoch, report)
    PROVE  TallyInv'
<1> DEFINE advances == epoch > expectedEpoch
           reported == IF advances THEN {} ELSE bitmask
           tally == IF advances THEN <<>> ELSE variants
           cast == IF advances THEN NoBallots ELSE ballots
           same == VariantOf(report, tally)
<1>1. epoch >= expectedEpoch /\ UNCHANGED <<members, quorum>>
  BY DEF Cast, ReportBeacon, committeeVars
<1>2. CommitteeOK'
  BY <1>1 DEF TallyInv, CommitteeOK
<1>3. PICK index \in DOMAIN members \ reported :
        /\ members[index] = m
        /\ \/ /\ \/ \E i \in same : tally[i].count + 1 >= quorum
                 \/ same = {} /\ quorum = 1
              /\ Push(epoch, report)
           \/ /\ \/ \E i \in same :
                       /\ tally[i].count + 1 < quorum
                       /\ variants' = [tally EXCEPT ![i].count = @ + 1]
                 \/ /\ same = {} /\ quorum # 1
                    /\ variants' = Append(tally, [report |-> report, count |-> 1])
              /\ bitmask' = reported \cup {index}
              /\ expectedEpoch' = epoch
              /\ UNCHANGED <<lastCompletedEpoch, stats, lidoView>>
  BY DEF Cast, ReportBeacon
<1>4. CASE Push(epoch, report)
  <2>1. Pushes /\ bitmask' = {} /\ variants' = << >>
    BY <1>1, <1>4, PushClears
  <2>2. ballots' = NoBallots
    BY <2>1 DEF Cast
  <2> QED BY <1>2, <2>1, <2>2, EmptyTally DEF TallyInv, TallyOK, CommitteeOK
<1>5. /\ members \in Seq(Candidates) /\ Distinct(members) /\ quorum \in Nat \ {0}
      /\ tally \in Tallies
      /\ cast \in Ballots
      /\ Counts(members, reported, tally, cast)
      /\ TieOf(quorum, tally)
  <2>1. CASE advances
    BY <2>1, EmptyTally DEF TallyInv, CommitteeOK
  <2>2. CASE ~advances
    BY <2>2 DEF TallyInv, CommitteeOK, TallyOK
  <2> QED BY <2>1, <2>2
<1>6. ASSUME UNCHANGED lastCompletedEpoch PROVE ballots' = Voted(cast, members[index], report)
  BY <1>3, <1>6 DEF Cast, Pushes, Voted
<1> HIDE DEF tally, reported, cast
<1>7. ASSUME NEW i \in same, tally[i].count + 1 < quorum,
             variants' = CountedOnceMore(tally, i),
             bitmask' = reported \cup {index}, UNCHANGED lastCompletedEpoch
      PROVE  TallyInv'
  <2>1. i \in DOMAIN tally /\ tally[i].report = report
    BY <1>7 DEF VariantOf
  <2>2. variants' \in Tallies /\ Counts(members, bitmask', variants', Voted(cast, members[index], report))
    BY <1>3, <1>5, <1>7, <2>1, VoteForSame
  <2>3. TieOf(quorum, variants')
    BY <1>5, <1>7, <2>1, VoteTied
  <2>4. Voted(cast, members[index], report) \in Ballots
    BY <1>3, <1>5, VoteAdds
  <2> QED BY <1>1, <1>2, <1>6, <1>7, <2>2, <2>3, <2>4 DEF TallyInv, TallyOK
<1>8. ASSUME same = {}, quorum # 1,
             variants' = Append(tally, FirstCount(report)),
             bitmask' = reported \cup {index}, UNCHANGED lastCompletedEpoch
      PROVE  TallyInv'
  <2>1. \A i \in DOMAIN tally : tally[i].report # report
    BY <1>8 DEF VariantOf
  <2>2. variants' \in Tallies /\ Counts(members, bitmask', variants', Voted(cast, members[index], report))
    BY <1>3, <1>5, <1>8, <2>1, VoteForNew
  <2>3. TieOf(quorum, variants')
    BY <1>5, <1>8, FirstVoteTied
  <2>4. Voted(cast, members[index], report) \in Ballots
    BY <1>3, <1>5, VoteAdds
  <2> QED BY <1>1, <1>2, <1>6, <1>8, <2>2, <2>3, <2>4 DEF TallyInv, TallyOK
<1> HIDE DEF same
<1> QED BY <1>3, <1>4, <1>7, <1>8 DEF CountedOnceMore, FirstCount

\* A dismissed member's place is taken by the last one, and every report is dropped.
LEMMA DismissKeeps ==
    ASSUME TallyInv, NEW m \in Candidates, Dismiss(m)
    PROVE  TallyInv'
<1> DEFINE n == Len(members)
           i == CHOOSE j \in DOMAIN members : members[j] = m
           moved == [members EXCEPT ![i] = members[n]]
<1>1. /\ members \in Seq(Candidates) /\ Distinct(members) /\ quorum \in Nat \ {0}
      /\ n \in Nat /\ DOMAIN members = 1 .. n
  BY DEF TallyInv, CommitteeOK
<1>2. i \in DOMAIN members /\ members[i] = m
  BY DEF Dismiss, RemoveOracleMember, Members
<1>3. /\ members' = SubSeq(moved, 1, n - 1)
      /\ bitmask' = {} /\ variants' = << >> /\ ballots' = NoBallots
      /\ UNCHANGED quorum
  BY DEF Dismiss, RemoveOracleMember, WithoutMember
<1> HIDE DEF i
<1>4. /\ moved \in Seq(Candidates) /\ Len(moved) = n
      /\ moved[i] = members[n]
      /\ \A j \in 1 .. n : j # i => moved[j] = members[j]
  BY <1>1, <1>2
<1> HIDE DEF moved, n
<1>5. /\ members' \in Seq(Candidates) /\ DOMAIN members' = 1 .. n - 1
      /\ \A j \in 1 .. n - 1 : members'[j] = moved[j]
  BY <1>1, <1>2, <1>3, <1>4
<1>6. Distinct(members')
  <2> SUFFICES ASSUME NEW j \in 1 .. n - 1, NEW k \in 1 .. n - 1, moved[j] = moved[k] PROVE j = k
    BY <1>5 DEF Distinct
  <2>1. \A x, y \in 1 .. n : members[x] = members[y] => x = y
    BY <1>1 DEF Distinct
  <2>2. j \in 1 .. n /\ k \in 1 .. n /\ n \in 1 .. n /\ j # n /\ k # n
    BY <1>1
  <2> QED BY <1>4, <2>1, <2>2
<1>7. CommitteeOK'
  BY <1>1, <1>3, <1>5, <1>6 DEF CommitteeOK
<1> QED BY <1>3, <1>5, <1>7, EmptyTally DEF TallyInv, TallyOK

\* A new member has reported nothing.
LEMMA AddMemberKeeps ==
    ASSUME TallyInv, NEW m \in Candidates, AddOracleMember(m), UNCHANGED ballots
    PROVE  TallyInv'
<1> DEFINE n == Len(members)
<1>1. /\ members \in Seq(Candidates) /\ Distinct(members) /\ quorum \in Nat \ {0}
      /\ n \in Nat /\ DOMAIN members = 1 .. n
      /\ \A i \in 1 .. n : members[i] # m
  BY DEF TallyInv, CommitteeOK, AddOracleMember, Members
<1>2. /\ members' = Append(members, m)
      /\ UNCHANGED <<quorum, bitmask, variants, ballots>>
  BY DEF AddOracleMember, pushVars, tallyVars
<1>3. /\ members' \in Seq(Candidates) /\ DOMAIN members' = 1 .. n + 1
      /\ members'[n + 1] = m
      /\ \A i \in 1 .. n : members'[i] = members[i]
  BY <1>1, <1>2
<1> HIDE DEF n
<1>4. Distinct(members')
  BY <1>1, <1>3 DEF Distinct
<1>5. ballots[m] = NoReport
  BY <1>1 DEF TallyInv, TallyOK, Counts
<1>6. bitmask = {i \in DOMAIN members' : ballots[members'[i]] # NoReport}
  <2>1. bitmask = {i \in 1 .. n : ballots[members[i]] # NoReport}
    BY <1>1 DEF TallyInv, TallyOK, Counts
  <2>2. 1 .. n + 1 = (1 .. n) \cup {n + 1}
    BY <1>1
  <2> QED BY <1>3, <1>5, <2>1, <2>2
<1>7. \A c \in Candidates : ballots[c] # NoReport => \E i \in DOMAIN members' : members'[i] = c
  <2> SUFFICES ASSUME NEW c \in Candidates, ballots[c] # NoReport
               PROVE  \E i \in DOMAIN members' : members'[i] = c
    OBVIOUS
  <2>1. PICK i \in 1 .. n : members[i] = c
    BY <1>1 DEF TallyInv, TallyOK, Counts
  <2> QED BY <1>1, <1>3, <2>1
<1>8. Counts(members', bitmask, variants, ballots)
  BY <1>6, <1>7 DEF TallyInv, TallyOK, Counts
<1> QED BY <1>1, <1>2, <1>3, <1>4, <1>8 DEF TallyInv, CommitteeOK, TallyOK

\* A quorum that is changed completes the frame, or leaves the tally.
LEMMA ChangeQuorumKeeps ==
    ASSUME EpochsInv, TallyInv, NEW q \in Quorums, ChangeQuorum(q)
    PROVE  TallyInv'
<1>1. q \in Nat \ {0} /\ quorum' = q /\ UNCHANGED members
  BY OracleAssumption DEF ChangeQuorum, SetQuorum
<1>2. CommitteeOK'
  BY <1>1 DEF TallyInv, CommitteeOK
<1>3. CASE \E report \in QuorumReports(q) : Push(expectedEpoch, report)
  <2>1. expectedEpoch \in Nat /\ expectedEpoch >= expectedEpoch
    BY DEF EpochsInv, EpochsTypeOK
  <2>2. Pushes /\ bitmask' = {} /\ variants' = << >>
    BY <1>3, <2>1, PushClears
  <2>3. ballots' = NoBallots
    BY <2>2 DEF ChangeQuorum
  <2> QED BY <1>2, <2>2, <2>3, EmptyTally DEF TallyInv, TallyOK, CommitteeOK
<1>4. CASE ~(q < quorum /\ QuorumReports(q) # {}) /\ UNCHANGED pushVars
  <2>1. UNCHANGED <<bitmask, variants, ballots>>
    BY <1>4 DEF ChangeQuorum, pushVars, frameVars, tallyVars, Pushes
  <2>2. TieOf(q, variants)
    <3>1. CASE QuorumReports(q) = {}
      BY <1>1, <3>1, NoReportTies DEF TallyInv
    <3>2. CASE q >= quorum
      <4>1. \A k \in DOMAIN variants : variants[k].count \in Nat
        BY EntriesOf DEF TallyInv, TallyOK
      <4> QED BY <1>1, <3>2, <4>1 DEF TallyInv, TallyOK, CommitteeOK, TieOf
    <3> QED BY <1>1, <1>4, <3>1, <3>2 DEF TallyInv, CommitteeOK
  <2> QED BY <1>1, <1>2, <2>1, <2>2 DEF TallyInv, TallyOK
<1> QED BY <1>3, <1>4 DEF ChangeQuorum, SetQuorum

\* Calls that leave the committee and the tally alone.
LEMMA TallySame ==
    ASSUME TallyInv, UNCHANGED <<members, quorum, bitmask, variants, ballots>>
    PROVE  TallyInv'
BY DEF TallyInv, CommitteeOK, TallyOK

\* The oracle starts without members or reports.
LEMMA TallyInit == HistoryInit => TallyInv
<1> SUFFICES ASSUME HistoryInit PROVE TallyInv
  OBVIOUS
<1>1. /\ members = << >> /\ quorum = 1
      /\ bitmask = {} /\ variants = << >> /\ ballots = NoBallots
  BY DEF HistoryInit, Init
<1>2. CommitteeOK
  BY <1>1 DEF CommitteeOK, Distinct
<1> QED BY <1>1, <1>2, EmptyTally DEF TallyInv, TallyOK, CommitteeOK

\* Every step keeps the tally.
LEMMA TallyNext == EpochsInv /\ TallyInv /\ [HistoryNext]_historyVars => TallyInv'
<1> SUFFICES ASSUME EpochsInv, TallyInv, [HistoryNext]_historyVars PROVE TallyInv'
  OBVIOUS
<1>1. ASSUME NEW m \in Candidates, NEW epoch \in 0 .. MaxEpoch, NEW report \in Reports,
             Cast(m, epoch, report)
      PROVE  TallyInv'
  <2>1. epoch \in Nat
    OBVIOUS
  <2> QED BY <1>1, <2>1, CastKeeps
<1>2. ASSUME NEW m \in Candidates, Dismiss(m) PROVE TallyInv'
  BY <1>2, DismissKeeps
<1>3. ASSUME NEW q \in Quorums, ChangeQuorum(q) PROVE TallyInv'
  BY <1>3, ChangeQuorumKeeps
<1>4. ASSUME NEW m \in Candidates, AddOracleMember(m), UNCHANGED ballots PROVE TallyInv'
  BY <1>4, AddMemberKeeps
<1>5. ASSUME UNCHANGED ballots,
             \/ \E spec \in BeaconSpecs : SetBeaconSpec(spec)
             \/ \E value \in Increases : SetAnnualIncrease(value)
             \/ \E value \in Decreases : SetDecrease(value)
             \/ Tick
             \/ StakersSubmit
      PROVE  TallyInv'
  <2>1. UNCHANGED <<committeeVars, tallyVars>>
    BY <1>5 DEF SetBeaconSpec, SetAnnualIncrease, SetDecrease, Tick, StakersSubmit, pushVars
  <2> QED BY <1>5, <2>1, TallySame DEF committeeVars, tallyVars
<1>6. CASE UNCHANGED historyVars
  BY <1>6, TallySame DEF historyVars, oracleVars, committeeVars, pushVars, tallyVars
<1> QED BY <1>1, <1>2, <1>3, <1>4, <1>5, <1>6 DEF HistoryNext

-----------------------------------------------------------------------------
\* The bits and the counts of the contract are the ballots of its members, each
\* counted once, whoever joins, leaves or comes back and whatever the frames.
THEOREM OracleTallyIsTheBallots == HistorySpec => []TallyIsTheBallots
<1>1. TallyInv => TallyIsTheBallots
  <2> SUFFICES ASSUME TallyInv PROVE TallyIsTheBallots
    OBVIOUS
  <2>1. /\ variants \in Tallies /\ ballots \in Ballots
        /\ Counts(members, bitmask, variants, ballots)
    BY DEF TallyInv, TallyOK
  <2>2. bitmask = {i \in DOMAIN members : ballots[members[i]] # NoReport}
    BY <2>1 DEF Counts
  <2>3. \A m \in Candidates \ Members : ballots[m] = NoReport
    BY <2>1 DEF Counts, Members
  <2>4. \A k \in DOMAIN variants :
            variants[k].count = Cardinality({m \in Candidates : ballots[m] = variants[k].report})
    BY <2>1 DEF Counts, Supporters
  <2>5. ASSUME NEW k \in DOMAIN variants
        PROVE  variants[k].report \in {ballots[m] : m \in Candidates} \ {NoReport}
    <3>1. variants[k].report \in Reports /\ variants[k].count \in Nat \ {0}
      BY <2>1, EntriesOf
    <3>2. Supporters(ballots, variants[k].report) # {}
      BY <2>1, <3>1, FS_EmptySet DEF Counts
    <3> QED BY <3>1, <3>2, OracleAssumption DEF Supporters
  <2>6. {variants[k].report : k \in DOMAIN variants}
          = {ballots[m] : m \in Candidates} \ {NoReport}
    <3>1. ASSUME NEW m \in Candidates, ballots[m] # NoReport
          PROVE  \E k \in DOMAIN variants : variants[k].report = ballots[m]
      BY <2>1, <3>1 DEF Counts
    <3> QED BY <2>5, <3>1
  <2> QED BY <2>2, <2>3, <2>4, <2>6 DEF TallyIsTheBallots
<1>2. EpochsInv /\ [HistoryNext]_historyVars => EpochsInv'
  BY EpochsNext DEF EpochsStep
<1> QED BY EpochsInit, TallyInit, TallyNext, <1>1, <1>2, PTL DEF HistorySpec

\* Only reports that tie wait with a quorum behind them: after any vote, and any
\* change of the quorum, what could be decided was.
THEOREM OracleSettledOnlyIfTied == HistorySpec => []SettledOnlyIfTied
<1>1. TallyInv => SettledOnlyIfTied
  BY DEF TallyInv, TallyOK, TieOf, SettledOnlyIfTied
<1>2. EpochsInv /\ [HistoryNext]_historyVars => EpochsInv'
  BY EpochsNext DEF EpochsStep
<1> QED BY EpochsInit, TallyInit, TallyNext, <1>1, <1>2, PTL DEF HistorySpec

-----------------------------------------------------------------------------
(* What stands behind a push *)

\* The supporters of a report are members.
LEMMA SupportersAreMembers ==
    ASSUME TallyInv, NEW report \in Reports
    PROVE  /\ {m \in Members : ballots[m] = report} = Supporters(ballots, report)
           /\ IsFiniteSet(Supporters(ballots, report))
<1>1. report # NoReport
  BY OracleAssumption
<1>2. /\ members \in Seq(Candidates) /\ ballots \in Ballots
      /\ \A m \in Candidates : ballots[m] # NoReport => \E i \in DOMAIN members : members[i] = m
  BY DEF TallyInv, CommitteeOK, TallyOK, Counts
<1>3. \A i \in DOMAIN members : members[i] \in Candidates
  BY <1>2
<1>4. \A m \in Candidates : ballots[m] = report => m \in Members
  BY <1>1, <1>2 DEF Members
<1>5. Members \subseteq Candidates
  BY <1>3 DEF Members
<1>6. {m \in Members : ballots[m] = report} = Supporters(ballots, report)
  BY <1>4, <1>5 DEF Supporters
<1> QED BY <1>2, <1>6, SupportersFinite

\* The members counted for a push, as QuorumBacksPush counts them.
CountedFor(epoch, report) ==
    IF epoch = expectedEpoch THEN {m \in Members : ballots[m] = report} ELSE {}

\* A vote that completes the frame is the one the quorum lacked.
LEMMA CastIsBacked ==
    ASSUME EpochsInv, TallyInv, NEW m \in Candidates, NEW epoch \in Nat, NEW report \in Reports,
           Cast(m, epoch, report), Pushes
    PROVE  /\ quorum' = quorum
           /\ \E caller \in Members :
                 Cardinality(CountedFor(lastCompletedEpoch', lidoReport') \cup {caller}) >= quorum
<1> DEFINE advances == epoch > expectedEpoch
           reported == IF advances THEN {} ELSE bitmask
           tally == IF advances THEN <<>> ELSE variants
           same == VariantOf(report, tally)
           counted == CountedFor(epoch, report)
<1>1. /\ epoch >= expectedEpoch /\ UNCHANGED quorum
      /\ epoch \in Nat /\ expectedEpoch \in Nat /\ quorum \in Nat \ {0}
  BY DEF Cast, ReportBeacon, committeeVars, EpochsInv, EpochsTypeOK, TallyInv, CommitteeOK
<1>2. PICK index \in DOMAIN members \ reported :
        /\ members[index] = m
        /\ \/ \E i \in same : tally[i].count + 1 >= quorum
           \/ same = {} /\ quorum = 1
        /\ Push(epoch, report)
  BY DEF Cast, ReportBeacon, Pushes
<1>3. lastCompletedEpoch' = epoch /\ lidoReport' = report
  BY <1>1, <1>2, PushClears
<1>4. m \in Members
  BY <1>2 DEF Members
<1>5. IsFiniteSet(counted) /\ (~advances => counted = Supporters(ballots, report))
  BY <1>1, SupportersAreMembers, FS_EmptySet DEF CountedFor
<1>6. CASE same = {} /\ quorum = 1
  <2>1. IsFiniteSet(counted \cup {m}) /\ counted \cup {m} # {}
    BY <1>5, FS_AddElement
  <2>2. Cardinality(counted \cup {m}) \in Nat /\ Cardinality(counted \cup {m}) # 0
    BY <2>1, FS_EmptySet, FS_CardinalityType
  <2>3. Cardinality(counted \cup {m}) >= quorum
    BY <1>6, <2>2
  <2> QED BY <1>1, <1>3, <1>4, <2>3
<1>7. ASSUME NEW i \in same, tally[i].count + 1 >= quorum
      PROVE  Cardinality(counted \cup {m}) >= quorum
  <2>1. ~advances /\ i \in DOMAIN variants /\ variants[i].report = report /\ variants[i].count + 1 >= quorum
    BY <1>7 DEF VariantOf
  <2>2. variants[i].count = Cardinality(Supporters(ballots, report))
    BY <2>1 DEF TallyInv, TallyOK, Counts
  <2>3. ballots[m] = NoReport
    BY <1>2, <2>1 DEF TallyInv, TallyOK, Counts
  <2>4. m \notin counted
    BY <1>5, <2>1, <2>3, OracleAssumption DEF Supporters
  <2>5. Cardinality(counted \cup {m}) = Cardinality(counted) + 1
    BY <1>5, <2>4, FS_AddElement
  <2>6. counted = Supporters(ballots, report)
    BY <1>5, <2>1
  <2> QED BY <2>1, <2>2, <2>5, <2>6
<1> QED BY <1>1, <1>2, <1>3, <1>4, <1>6, <1>7

\* A quorum that is lowered pushes what has the new quorum behind it.
LEMMA ChangeQuorumIsBacked ==
    ASSUME EpochsInv, TallyInv, NEW q \in Quorums, ChangeQuorum(q), Pushes
    PROVE  Cardinality(CountedFor(lastCompletedEpoch', lidoReport')) >= quorum'
<1>1. expectedEpoch \in Nat /\ expectedEpoch >= expectedEpoch /\ quorum' = q
  BY DEF EpochsInv, EpochsTypeOK, ChangeQuorum, SetQuorum
<1>2. PICK report \in QuorumReports(q) : Push(expectedEpoch, report)
  BY DEF ChangeQuorum, SetQuorum, pushVars, frameVars, Pushes
<1>3. PICK i \in DOMAIN variants : variants[i].report = report /\ variants[i].count >= q
  BY <1>2 DEF QuorumReports
<1>4. report \in Reports
  BY <1>3, EntriesOf DEF TallyInv, TallyOK
<1>5. variants[i].count = Cardinality(Supporters(ballots, report))
  BY <1>3 DEF TallyInv, TallyOK, Counts
<1>6. lastCompletedEpoch' = expectedEpoch /\ lidoReport' = report
  BY <1>1, <1>2, PushClears
<1>7. CountedFor(expectedEpoch, report) = Supporters(ballots, report)
  BY <1>4, SupportersAreMembers DEF CountedFor
<1> QED BY <1>1, <1>3, <1>5, <1>6, <1>7

\* Whatever is pushed to Lido was reported for the completed epoch by a quorum of
\* the members of the moment, the caller's vote included.
THEOREM OracleQuorumBacksPush == HistorySpec => QuorumBacksPush
<1>1. EpochsInv /\ [HistoryNext]_historyVars => EpochsInv'
  BY EpochsNext DEF EpochsStep
<1>2. ASSUME EpochsInv, TallyInv, [HistoryNext]_historyVars, Pushes
      PROVE  LET counted == IF lastCompletedEpoch' = expectedEpoch
                            THEN {m \in Members : ballots[m] = lidoReport'} ELSE {}
             IN  \/ Cardinality(counted) >= quorum'
                 \/ /\ quorum' = quorum
                    /\ \E caller \in Members :
                          Cardinality(counted \cup {caller}) >= quorum
  <2> DEFINE counted == CountedFor(lastCompletedEpoch', lidoReport')
  <2>1. SUFFICES \/ Cardinality(counted) >= quorum'
                 \/ /\ quorum' = quorum
                    /\ \E caller \in Members : Cardinality(counted \cup {caller}) >= quorum
    BY DEF CountedFor
  <2>2. \/ \E m \in Candidates, epoch \in 0 .. MaxEpoch, report \in Reports : Cast(m, epoch, report)
        \/ \E q \in Quorums : ChangeQuorum(q)
    BY <1>2 DEF HistoryNext, historyVars, oracleVars, Pushes, frameVars, pushVars, Dismiss,
                RemoveOracleMember, AddOracleMember, SetBeaconSpec, SetAnnualIncrease, SetDecrease,
                Tick, StakersSubmit
  <2>3. 0 .. MaxEpoch \subseteq Nat
    OBVIOUS
  <2> QED BY <1>2, <2>2, <2>3, CastIsBacked, ChangeQuorumIsBacked
<1> QED BY EpochsInit, TallyInit, TallyNext, <1>1, <1>2, PTL DEF HistorySpec, QuorumBacksPush
=============================================================================
