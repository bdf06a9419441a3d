--------------------------- MODULE AppStoresProof ---------------------------
(***************************************************************************)
(* The stores of the Aragon applications show what the contracts hold.     *)
(*                                                                         *)
(* A handler awaits one read after the other while the contract changes,   *)
(* so what it has read may be out of date when it returns.  The inductive  *)
(* invariant is that an event is then waiting which has the field read     *)
(* again: every field that the store holds, or that the handler has read   *)
(* so far, is the contract's or will be read again (FieldsInv), and so are *)
(* the entries of the list that is being read (ListInv) and the operators  *)
(* (ShownOperatorsInv, ReadOperatorsInv).                                  *)
(*                                                                         *)
(* The first part is about the contracts: whatever call changes a field    *)
(* that is followed emits an event whose handler reads it (CallOK).        *)
(***************************************************************************)
EXTENDS AppStoresProperties, SequenceTheorems, TLAPS

-----------------------------------------------------------------------------
(* The inductive invariant *)

\* The events of the three contracts, and the one of the panel's button.
Events ==
    {"Stopped", "Resumed", "StakingPaused", "StakingResumed", "FeeSet", "FeeDistributionSet",
     "WithdrawalCredentialsSet", "ELRewardsVaultSet", "ELRewardsWithdrawalLimitSet", "StakingLimitSet",
     "Unbuffered", "Submitted", "MemberAdded", "MemberRemoved", "QuorumChanged", "ExpectedEpochIdUpdated",
     "AllowedBeaconBalanceAnnualRelativeIncreaseSet", "AllowedBeaconBalanceRelativeDecreaseSet",
     "UI:UpdateFrame", "BeaconReportReceiverSet", "BeaconReported", "Completed", "ContractVersionSet",
     "NodeOperatorAdded", "NodeOperatorActiveSet", "NodeOperatorStakingLimitSet", "SigningKeyAdded",
     "SigningKeyRemoved"}

AnOperator == [followed : Nat, other : Nat]

\* The fields of the contract, as its store names them.
Fields ==
    CASE app = "lido" -> LidoFields
      [] app = "lidooracle" -> OracleFields \cup {"currentReportVariants"}
      [] app = "registry" -> {"nodeOperatorsCount", "activeNodeOperatorsCount", "nodeOperators"}

\* The types of the contract and the events; the registry's count is exact.
ContractOK ==
    /\ app \in {"lido", "lidooracle", "registry"}
    /\ calls \in Nat
    /\ DOMAIN chain = Fields
    /\ app = "lidooracle" => Variants \in Seq(Nat)
    /\ app = "registry" => Operators \in Seq(AnOperator) /\ chain.nodeOperatorsCount = Len(Operators)
    /\ events \in Seq(Events)

\* A sequence of fields has f.
In(f, fields) == \E i \in DOMAIN fields : fields[i] = f

\* What the registry's handlers read, from its beginning or a part of it.
RegistryTodos ==
    {<< >>, <<"nodeOperators">>, <<"activeNodeOperatorsCount", "nodeOperators">>,
     <<"nodeOperatorsCount", "activeNodeOperatorsCount", "nodeOperators">>}

\* The others read a field, or the variants and then the status.
LidoTodos == {<< >>} \cup {<<f>> : f \in LidoFields}
OracleTodos ==
    {<< >>, <<"currentReportVariants">>, <<"currentReportVariants", "currentOraclesReportStatus">>}
        \cup {<<f>> : f \in OracleFields}

Todos ==
    CASE app = "lido" -> LidoTodos
      [] app = "lidooracle" -> OracleTodos
      [] app = "registry" -> RegistryTodos

\* A handler runs, or initializeState.
Runs == task.kind \in {"init", "event"}

\* The shape of a task, and when it has what.
TaskOK ==
    /\ task = [kind |-> task.kind, todo |-> task.todo, pending |-> task.pending, got |-> task.got,
               list |-> task.list]
    /\ task.list = [size |-> task.list.size, entries |-> task.list.entries]
    /\ task.kind \in {"idle", "stopped", "init", "event"}
    /\ ~Runs => task.todo = << >>
    /\ task.todo \in Todos
    /\ task.pending \subseteq IF app = "registry" \/ ~Runs THEN {} ELSE Fields \ {"currentReportVariants"}
    /\ task.kind = "event" => events # << >>
    /\ task.list # NoList => task.todo # << >> /\ IsList(NextRead)

\* Reads, of an application a.
ReadBy(a, event) ==
    CASE a = "lido" -> LidoReads(event)
      [] a = "lidooracle" -> OracleReads(event)
      [] a = "registry" -> RegistryReads(event)

\* An event waits after which a handler will read f.
Coming(f) == \E k \in DOMAIN events : (task.kind = "event" => k > 1) /\ In(f, ReadBy(app, events[k]))

\* v is what f is, but for variants that were cleared.
Same(f, v) ==
    /\ f \in FollowedFields => v = chain[f]
    /\ app = "lidooracle" /\ f = "currentReportVariants" => v = Variants \/ Variants = << >>

\* v is what f is, or is going to be replaced.
Fresh(f, v) == Same(f, v) \/ Coming(f)

\* The fields of DrainedIsFresh, but for the operators.
Tracked == FollowedFields \cup {f \in {"currentReportVariants"} : app = "lidooracle"}

\* A value of f in a store that is idle, among the answers, or in the store and not
\* among what the handler still reads.
FieldInv(f) ==
    /\ task.kind = "idle" /\ Shows(f) => Fresh(f, shown[f])
    /\ Runs =>
          /\ f \in DOMAIN task.got => Fresh(f, task.got[f])
          /\ Shows(f) /\ f \notin DOMAIN task.got \cup task.pending /\ ~In(f, task.todo) => Fresh(f, shown[f])

FieldsInv == \A f \in Tracked : FieldInv(f)

\* The operators v are the registry's in the parts that are followed, or will be read.
SameOperators(v) ==
    \/ Coming("nodeOperators")
    \/ Len(v) = Len(Operators) /\ \A i \in DOMAIN v : v[i].followed = Operators[i].followed

\* The count that a handler which returns now leaves in the store.
KnowsCount == "nodeOperatorsCount" \in DOMAIN task.got \cup DOMAIN shown
KnownCount ==
    IF "nodeOperatorsCount" \in DOMAIN task.got THEN task.got.nodeOperatorsCount
    ELSE IF Shows("nodeOperatorsCount") THEN shown.nodeOperatorsCount
    ELSE 0

\* A store and a handler have fields of their own contract.
NamesInv == DOMAIN shown \cup DOMAIN task.got \subseteq Fields

\* The operators in the store.
ShownOperatorsInv ==
    app = "registry" /\ Shows("nodeOperators") =>
        /\ shown.nodeOperators \in Seq(AnOperator)
        /\ task.kind = "idle" /\ Shows("nodeOperatorsCount") => SameOperators(shown.nodeOperators)

\* The operators that a handler has read: the last of its fields, as many as the count.
ReadOperatorsInv ==
    app = "registry" /\ Runs =>
        /\ task.todo = << >> <=> "nodeOperators" \in DOMAIN task.got
        /\ "nodeOperators" \in DOMAIN task.got =>
              /\ task.got.nodeOperators \in Seq(AnOperator)
              /\ Len(task.got.nodeOperators) = KnownCount
              /\ KnowsCount => SameOperators(task.got.nodeOperators)

\* The entries that were read are the first ones.
ListInv ==
    task.list # NoList =>
        /\ app = "lidooracle" =>
              /\ task.list.entries \in Seq(Nat)
              /\ \/ Coming("currentReportVariants")
                 \/ Variants = << >>
                 \/ /\ task.list.size = Len(Variants)
                    /\ Len(task.list.entries) <= Len(Variants)
                    /\ \A i \in DOMAIN task.list.entries : task.list.entries[i] = Variants[i]
        /\ app = "registry" =>
              /\ task.list.entries \in Seq(AnOperator)
              /\ task.list.size = KnownCount
              /\ KnowsCount =>
                    \/ Coming("nodeOperators")
                    \/ /\ task.list.size = Len(Operators)
                       /\ Len(task.list.entries) <= Len(Operators)
                       /\ \A i \in DOMAIN task.list.entries : task.list.entries[i].followed = Operators[i].followed

StoresInv ==
    /\ ContractOK /\ TaskOK /\ NamesInv
    /\ FieldsInv /\ ListInv /\ ShownOperatorsInv /\ ReadOperatorsInv
    /\ ListMatchesCount

-----------------------------------------------------------------------------
(* What a call does to the contract *)

\* The shape of a call.
CallIs(c) ==
    /\ c = [chain |-> c.chain, events |-> c.events]
    /\ c.chain = [f \in Fields |-> c.chain[f]]
    /\ c.events \in Seq(Events)

\* An event of the call makes a handler read f.
Announces(c, f) == \E k \in DOMAIN c.events : In(f, Reads(c.events[k]))

\* What a call may change without an event: no field that is followed,
FollowedOK(c) == \A f \in FollowedFields : c.chain[f] # chain[f] => Announces(c, f)

\* the variants only when it clears them,
VariantsOK(c) ==
    app = "lidooracle" =>
        /\ c.chain.currentReportVariants \in Seq(Nat)
        /\ \/ c.chain.currentReportVariants \in {Variants, << >>}
           \/ Announces(c, "currentReportVariants")

\* the operators' parts that are not followed.
SameParts(operators) ==
    Len(operators) = Len(Operators) /\ \A i \in DOMAIN operators : operators[i].followed = Operators[i].followed

CallOperatorsOK(c) ==
    app = "registry" =>
        /\ c.chain.nodeOperators \in Seq(AnOperator)
        /\ c.chain.nodeOperatorsCount = Len(c.chain.nodeOperators)
        /\ SameParts(c.chain.nodeOperators) \/ Announces(c, "nodeOperators")

CallOK(c) == CallIs(c) /\ FollowedOK(c) /\ VariantsOK(c) /\ CallOperatorsOK(c)

\* What Call makes: the fields fs have a new value, the others the old one.
LEMMA CallFields ==
    ASSUME ContractOK, NEW fs, NEW es \in Seq(Events)
    PROVE  /\ CallIs(Call(fs, es))
           /\ Call(fs, es).events = es
           /\ \A f \in Fields : Call(fs, es).chain[f] = IF f \in fs THEN Stamp ELSE chain[f]
BY DEF ContractOK, Call, CallIs

\* The fields that are followed are fields of the contract.
LEMMA FollowedIn == ContractOK => FollowedFields \subseteq Fields
BY DEF ContractOK, FollowedFields, Fields

\* A call that writes fs, whose events make a handler read those that are followed.
LEMMA CallCorrect ==
    ASSUME ContractOK, NEW fs, NEW es \in Seq(Events),
           \A f \in fs \cap FollowedFields : \E k \in DOMAIN es : In(f, Reads(es[k])),
           "currentReportVariants" \notin fs, "nodeOperators" \notin fs, "nodeOperatorsCount" \notin fs
    PROVE  CallOK(Call(fs, es))
<1> DEFINE c == Call(fs, es)
<1>1. /\ CallIs(c)
      /\ c.events = es
      /\ \A f \in Fields : c.chain[f] = IF f \in fs THEN Stamp ELSE chain[f]
  BY CallFields
<1> HIDE DEF c
<1>2. FollowedOK(c)
  BY <1>1, FollowedIn DEF FollowedOK, Announces
<1>3. VariantsOK(c)
  BY <1>1 DEF VariantsOK, ContractOK, Fields, Variants
<1>4. CallOperatorsOK(c)
  BY <1>1 DEF CallOperatorsOK, SameParts, ContractOK, Fields, Operators, AnOperator
<1> QED BY <1>1, <1>2, <1>3, <1>4 DEF CallOK, c

\* A call that writes one field, whose handler reads it.
LEMMA FieldCorrect ==
    ASSUME ContractOK, NEW f \in Fields \ {"currentReportVariants", "nodeOperators", "nodeOperatorsCount"},
           NEW event \in Events, In(f, Reads(event))
    PROVE  CallOK(Field(f, event))
<1> DEFINE es == <<event>>
           fs == {f}
<1>1. es \in Seq(Events) /\ 1 \in DOMAIN es /\ es[1] = event
  OBVIOUS
<1>2. \A g \in fs : g = f
  OBVIOUS
<1>3. "currentReportVariants" \notin fs /\ "nodeOperators" \notin fs /\ "nodeOperatorsCount" \notin fs
  OBVIOUS
<1> HIDE DEF es, fs
<1>4. \A g \in fs \cap FollowedFields : \E k \in DOMAIN es : In(g, Reads(es[k]))
  BY <1>1, <1>2
<1>5. CallOK(Call(fs, es))
  BY <1>1, <1>3, <1>4, CallCorrect
<1> QED BY <1>5 DEF Field, es, fs

\* The only field of a handler that reads one.
LEMMA InOne == \A f : In(f, <<f>>)
BY DEF In

\* Lido's calls: stop and resume write two fields and emit an event for each; the
\* stakes and reports write none that is followed.
LEMMA LidoCallCorrect ==
    ASSUME ContractOK, app = "lido", NEW c \in LidoCalls
    PROVE  CallOK(c)
<1> USE DEF Fields, LidoFields, Events
<1>1. /\ In("fee", Reads("FeeSet")) /\ In("feeDistribution", Reads("FeeDistributionSet"))
      /\ In("withdrawalCredentials", Reads("WithdrawalCredentialsSet"))
      /\ In("elRewardsVault", Reads("ELRewardsVaultSet"))
      /\ In("elRewardsWithdrawalLimit", Reads("ELRewardsWithdrawalLimitSet"))
  BY InOne DEF Reads, LidoReads
<1>2. /\ In("stakingLimitInfo", Reads("StakingLimitSet")) /\ In("bufferedEther", Reads("Unbuffered"))
      /\ In("isStopped", Reads("Stopped")) /\ In("isStopped", Reads("Resumed"))
      /\ In("stakingLimitInfo", Reads("StakingPaused")) /\ In("stakingLimitInfo", Reads("StakingResumed"))
  BY InOne DEF Reads, LidoReads
<1>3. CASE c \in {Field("fee", "FeeSet"), Field("feeDistribution", "FeeDistributionSet"),
                  Field("withdrawalCredentials", "WithdrawalCredentialsSet"),
                  Field("elRewardsVault", "ELRewardsVaultSet"),
                  Field("elRewardsWithdrawalLimit", "ELRewardsWithdrawalLimitSet"),
                  Field("stakingLimitInfo", "StakingLimitSet"), Field("bufferedEther", "Unbuffered")}
  <2>1. CASE c = Field("fee", "FeeSet")
    BY <2>1, <1>1, FieldCorrect
  <2>2. CASE c = Field("feeDistribution", "FeeDistributionSet")
    BY <2>2, <1>1, FieldCorrect
  <2>3. CASE c = Field("withdrawalCredentials", "WithdrawalCredentialsSet")
    BY <2>3, <1>1, FieldCorrect
  <2>4. CASE c = Field("elRewardsVault", "ELRewardsVaultSet")
    BY <2>4, <1>1, FieldCorrect
  <2>5. CASE c = Field("elRewardsWithdrawalLimit", "ELRewardsWithdrawalLimitSet")
    BY <2>5, <1>1, FieldCorrect
  <2>6. CASE c = Field("stakingLimitInfo", "StakingLimitSet")
    BY <2>6, <1>2, FieldCorrect
  <2>7. CASE c = Field("bufferedEther", "Unbuffered")
    BY <2>7, <1>2, FieldCorrect
  <2> QED BY <1>3, <2>1, <2>2, <2>3, <2>4, <2>5, <2>6, <2>7
<1>4. CASE c = Call({"isStopped", "stakingLimitInfo"}, <<"Stopped", "StakingPaused">>)
  <2> DEFINE fs == {"isStopped", "stakingLimitInfo"}
             es == <<"Stopped", "StakingPaused">>
  <2>1. es \in Seq(Events) /\ 1 \in DOMAIN es /\ 2 \in DOMAIN es /\ es[1] = "Stopped" /\ es[2] = "StakingPaused"
    OBVIOUS
  <2>2. \A f \in fs : f = "isStopped" \/ f = "stakingLimitInfo"
    OBVIOUS
  <2> HIDE DEF fs, es
  <2>3. \A f \in fs \cap FollowedFields : \E k \in DOMAIN es : In(f, Reads(es[k]))
    BY <1>2, <2>1, <2>2
  <2>4. CallOK(Call(fs, es))
    BY ONLY <2>1, <2>2, <2>3, ContractOK, CallCorrect
  <2> QED BY <1>4, <2>4 DEF fs, es
<1>5. CASE c = Call({"isStopped", "stakingLimitInfo"}, <<"Resumed", "StakingResumed">>)
  <2> DEFINE fs == {"isStopped", "stakingLimitInfo"}
             es == <<"Resumed", "StakingResumed">>
  <2>1. es \in Seq(Events) /\ 1 \in DOMAIN es /\ 2 \in DOMAIN es /\ es[1] = "Resumed" /\ es[2] = "StakingResumed"
    OBVIOUS
  <2>2. \A f \in fs : f = "isStopped" \/ f = "stakingLimitInfo"
    OBVIOUS
  <2> HIDE DEF fs, es
  <2>3. \A f \in fs \cap FollowedFields : \E k \in DOMAIN es : In(f, Reads(es[k]))
    BY <1>2, <2>1, <2>2
  <2>4. CallOK(Call(fs, es))
    BY ONLY <2>1, <2>2, <2>3, ContractOK, CallCorrect
  <2> QED BY <1>5, <2>4 DEF fs, es
<1>6. CASE c = Call({"bufferedEther", "totalPooledEther"}, <<"Submitted">>)
  <2> DEFINE fs == {"bufferedEther", "totalPooledEther"}
             es == <<"Submitted">>
  <2>1. es \in Seq(Events)
    OBVIOUS
  <2>2. \A f \in fs : f \in {"bufferedEther", "totalPooledEther"}
    OBVIOUS
  <2>3. fs \cap FollowedFields = {}
    BY DEF FollowedFields
  <2> HIDE DEF fs, es
  <2>4. CallOK(Call(fs, es))
    BY ONLY <2>1, <2>2, <2>3, ContractOK, CallCorrect
  <2> QED BY <1>6, <2>4 DEF fs, es
<1>7. CASE c = Call({"bufferedEther", "totalPooledEther", "beaconStat"}, << >>)
  <2> DEFINE fs == {"bufferedEther", "totalPooledEther", "beaconStat"}
             es == << >>
  <2>1. es \in Seq(Events)
    OBVIOUS
  <2>2. \A f \in fs : f \in {"bufferedEther", "totalPooledEther", "beaconStat"}
    OBVIOUS
  <2>3. fs \cap FollowedFields = {}
    BY DEF FollowedFields
  <2> HIDE DEF fs, es
  <2>4. CallOK(Call(fs, es))
    BY ONLY <2>1, <2>2, <2>3, ContractOK, CallCorrect
  <2> QED BY <1>7, <2>4 DEF fs, es
<1> QED BY <1>3, <1>4, <1>5, <1>6, <1>7 DEF LidoCalls

\* What is not followed may be written: the variants with a report that is
\* announced, or cleared.
LEMMA WithVariantsCorrect ==
    ASSUME ContractOK, app = "lidooracle", NEW c, CallOK(c), NEW vs \in Seq(Nat),
           vs = << >> \/ Announces(c, "currentReportVariants")
    PROVE  /\ CallOK(WithVariants(c, vs))
           /\ WithVariants(c, vs).events = c.events
<1> DEFINE d == WithVariants(c, vs)
<1>1. /\ d = [chain |-> d.chain, events |-> d.events]
      /\ d.chain = [f \in Fields |-> d.chain[f]]
      /\ d.events = c.events
      /\ d.chain["currentReportVariants"] = vs
      /\ \A f \in Fields \ {"currentReportVariants", "currentOraclesReportStatus"} : d.chain[f] = c.chain[f]
  <2> DEFINE chain1 == [c.chain EXCEPT !["currentReportVariants"] = vs]
             chain2 == [chain1 EXCEPT !["currentOraclesReportStatus"] = Stamp]
  <2>1. /\ c = [chain |-> c.chain, events |-> c.events]
        /\ c.chain = [f \in Fields |-> c.chain[f]]
        /\ {"currentReportVariants", "currentOraclesReportStatus"} \subseteq Fields
    BY DEF CallOK, CallIs, Fields, OracleFields
  <2>2. d = [chain |-> chain2, events |-> c.events]
    <3> DEFINE c1 == [c EXCEPT !.chain.currentReportVariants = vs]
               c2 == [c1 EXCEPT !.chain.currentOraclesReportStatus = Stamp]
    <3>1. d = c2
      BY DEF WithVariants
    <3>2. c1 = [chain |-> chain1, events |-> c.events]
      BY <2>1
    <3> HIDE DEF d, c1, chain1
    <3>3. c2 = [chain |-> chain2, events |-> c.events]
      BY <3>2
    <3> QED BY <3>1, <3>3
  <2>3. /\ chain2 = [f \in Fields |-> chain2[f]]
        /\ chain2["currentReportVariants"] = vs
        /\ \A f \in Fields \ {"currentReportVariants", "currentOraclesReportStatus"} : chain2[f] = c.chain[f]
    BY <2>1
  <2> HIDE DEF d, chain2
  <2> QED BY <2>2, <2>3
<1> HIDE DEF d
<1>2. CallIs(d)
  BY <1>1 DEF CallIs, CallOK
<1>3. \A f : Announces(c, f) => Announces(d, f)
  BY <1>1 DEF Announces
<1>4. FollowedOK(d)
  BY <1>1, <1>3 DEF FollowedOK, CallOK, FollowedFields, Fields, OracleFields
<1>5. VariantsOK(d)
  BY <1>1, <1>3 DEF VariantsOK
<1>6. CallOperatorsOK(d)
  BY DEF CallOperatorsOK
<1> QED BY <1>1, <1>2, <1>4, <1>5, <1>6 DEF CallOK, d

\* A push announces the new epoch, and leaves no reports.
LEMMA PushedCorrect ==
    ASSUME ContractOK, app = "lidooracle", NEW c, CallOK(c)
    PROVE  CallOK(Pushed(c))
<1> DEFINE d == WithVariants(c, << >>)
           p == Pushed(c)
           new == <<"Completed", "ExpectedEpochIdUpdated">>
<1>1. CallOK(d) /\ d.events = c.events
  <2>1. << >> \in Seq(Nat)
    OBVIOUS
  <2> QED BY <2>1, WithVariantsCorrect
<1>2. /\ p = [chain |-> p.chain, events |-> p.events]
      /\ p.chain = [f \in Fields |-> p.chain[f]]
      /\ p.events = c.events \o new
      /\ \A f \in Fields \ {"expectedEpochId", "lastCompletedReportDelta"} : p.chain[f] = d.chain[f]
  <2> HIDE DEF d
  <2>1. p = [d EXCEPT !.chain.expectedEpochId = Stamp, !.chain.lastCompletedReportDelta = Stamp,
                      !.events = c.events \o new]
    BY DEF Pushed, d
  <2> HIDE DEF p, new
  <2> QED BY <1>1, <2>1 DEF CallOK, CallIs, Fields, OracleFields
<1>3. /\ new \in Seq(Events)
      /\ Len(new) = 2
      /\ new[2] = "ExpectedEpochIdUpdated"
  BY DEF Events
<1>7. d.chain.currentReportVariants = << >>
  BY DEF WithVariants, CallOK, CallIs, Fields
<1> HIDE DEF d, p, new
<1>4. /\ p.events \in Seq(Events)
      /\ Len(p.events) = Len(c.events) + 2
      /\ \A k \in DOMAIN c.events : k \in DOMAIN p.events /\ p.events[k] = c.events[k]
      /\ p.events[Len(c.events) + 2] = "ExpectedEpochIdUpdated"
      /\ Len(c.events) + 2 \in DOMAIN p.events
  <2>1. c.events \in Seq(Events)
    BY DEF CallOK, CallIs
  <2>2. /\ p.events \in Seq(Events)
        /\ Len(p.events) = Len(c.events) + 2
        /\ \A k \in 1..Len(p.events) :
              p.events[k] = IF k <= Len(c.events) THEN c.events[k] ELSE new[k - Len(c.events)]
    <3> DEFINE old == c.events
    <3>1. old \in Seq(Events) /\ p.events = old \o new
      BY <1>2, <2>1
    <3> HIDE DEF old
    <3>2. new \in Seq(Events) /\ Len(new) = 2
      BY <1>3
    <3>3. /\ old \o new \in Seq(Events)
          /\ Len(old \o new) = Len(old) + Len(new)
          /\ \A k \in 1..(Len(old) + Len(new)) :
                (old \o new)[k] = IF k <= Len(old) THEN old[k] ELSE new[k - Len(old)]
      BY ONLY <3>1, <3>2, ConcatProperties
    <3> QED BY <3>1, <3>2, <3>3 DEF old
  <2>3. Len(c.events) \in Nat /\ DOMAIN c.events = 1..Len(c.events) /\ DOMAIN p.events = 1..Len(p.events)
    BY <2>1, <2>2
  <2> QED BY <2>2, <2>3, <1>3
<1>5. \A f : Announces(d, f) => Announces(p, f)
  BY <1>1, <1>4 DEF Announces
<1>6. Announces(p, "expectedEpochId")
  BY <1>4, InOne DEF Announces, Reads, OracleReads
<1>8. CallIs(p)
  BY <1>2, <1>4 DEF CallIs
<1>9. FollowedOK(p)
  BY <1>1, <1>2, <1>5, <1>6 DEF FollowedOK, CallOK, FollowedFields, Fields, OracleFields
<1>10. VariantsOK(p)
  <2>1. p.chain.currentReportVariants = << >>
    BY <1>2, <1>7 DEF Fields, OracleFields
  <2>2. << >> \in Seq(Nat)
    OBVIOUS
  <2> QED BY <2>1, <2>2 DEF VariantsOK
<1>11. CallOperatorsOK(p)
  BY DEF CallOperatorsOK
<1> QED BY <1>8, <1>9, <1>10, <1>11 DEF CallOK, p

\* A report is announced, and the epoch it advances to before it.
LEMMA ReportCallCorrect ==
    ASSUME ContractOK, app = "lidooracle", NEW c \in ReportCalls
    PROVE  CallOK(c)
<1> DEFINE es == <<"BeaconReported">>
           es2 == <<"ExpectedEpochIdUpdated", "BeaconReported">>
           none == {}
           epoch == {"expectedEpochId"}
           reported == Call(none, es)
           advanced == Call(epoch, es2)
<1>1. /\ es \in Seq(Events) /\ 1 \in DOMAIN es /\ es[1] = "BeaconReported"
      /\ es2 \in Seq(Events) /\ 1 \in DOMAIN es2 /\ es2[1] = "ExpectedEpochIdUpdated"
      /\ 2 \in DOMAIN es2 /\ es2[2] = "BeaconReported"
  BY DEF Events
<1>2. /\ In("expectedEpochId", Reads("ExpectedEpochIdUpdated"))
      /\ In("currentReportVariants", Reads("BeaconReported"))
  BY DEF Reads, OracleReads, In
<1>3. \A f \in epoch : f = "expectedEpochId"
  OBVIOUS
<1> HIDE DEF es, es2, epoch, none
<1>4. /\ reported.events = es
      /\ advanced.events = es2
  BY CallFields, <1>1
<1>5. CallOK(reported) /\ Announces(reported, "currentReportVariants")
  <2>1. Announces(reported, "currentReportVariants")
    BY <1>1, <1>2, <1>4 DEF Announces
  <2>2. \A f : f \notin none
    BY DEF none
  <2> QED BY <2>1, <2>2, <1>1, CallCorrect
<1>6. CallOK(advanced) /\ Announces(advanced, "currentReportVariants")
  <2>1. Announces(advanced, "currentReportVariants")
    BY <1>1, <1>2, <1>4 DEF Announces
  <2>2. \A f \in epoch \cap FollowedFields : \E k \in DOMAIN es2 : In(f, Reads(es2[k]))
    BY <1>1, <1>2, <1>3
  <2> QED BY <2>1, <2>2, <1>1, <1>3, CallCorrect
<1>7. /\ Variants \in Seq(Nat)
      /\ Stamp \in Nat
  BY DEF ContractOK, Stamp
<1>8. CASE \E i \in DOMAIN Variants : c = WithVariants(reported, [Variants EXCEPT ![i] = Stamp])
  <2>1. PICK i \in DOMAIN Variants : c = WithVariants(reported, [Variants EXCEPT ![i] = Stamp])
    BY <1>8
  <2>2. [Variants EXCEPT ![i] = Stamp] \in Seq(Nat)
    BY <1>7
  <2> QED BY <1>5, <2>1, <2>2, WithVariantsCorrect
<1>9. CASE c = WithVariants(reported, Append(Variants, Stamp))
  <2>1. Append(Variants, Stamp) \in Seq(Nat)
    BY <1>7
  <2> QED BY <1>5, <1>9, <2>1, WithVariantsCorrect
<1>10. CASE c = WithVariants(advanced, <<Stamp>>)
  <2>1. <<Stamp>> \in Seq(Nat)
    BY <1>7
  <2> QED BY <1>6, <1>10, <2>1, WithVariantsCorrect
<1>11. CASE c \in {Pushed(reported), Pushed(advanced)}
  BY <1>5, <1>6, <1>11, PushedCorrect
<1> QED BY <1>8, <1>9, <1>10, <1>11 DEF ReportCalls, es, es2, epoch, none

\* The oracle's calls: a removed member clears the reports without an event.
LEMMA OracleCallCorrect ==
    ASSUME ContractOK, app = "lidooracle", NEW c \in OracleCalls
    PROVE  CallOK(c)
<1> USE DEF Fields, OracleFields, Events
<1>1. /\ In("oracleMembers", Reads("MemberAdded")) /\ In("oracleMembers", Reads("MemberRemoved"))
      /\ In("quorum", Reads("QuorumChanged"))
      /\ In("allowedBeaconBalanceAnnualRelativeIncrease",
            Reads("AllowedBeaconBalanceAnnualRelativeIncreaseSet"))
      /\ In("allowedBeaconBalanceRelativeDecrease", Reads("AllowedBeaconBalanceRelativeDecreaseSet"))
      /\ In("beaconReportReceiver", Reads("BeaconReportReceiverSet"))
      /\ In("version", Reads("ContractVersionSet"))
  BY InOne DEF Reads, OracleReads
<1>2. CASE c \in {Field("oracleMembers", "MemberAdded"),
                  Field("allowedBeaconBalanceAnnualRelativeIncrease",
                        "AllowedBeaconBalanceAnnualRelativeIncreaseSet"),
                  Field("allowedBeaconBalanceRelativeDecrease", "AllowedBeaconBalanceRelativeDecreaseSet"),
                  Field("beaconReportReceiver", "BeaconReportReceiverSet"),
                  Field("version", "ContractVersionSet")}
  <2>1. CASE c = Field("oracleMembers", "MemberAdded")
    BY <2>1, <1>1, FieldCorrect
  <2>2. CASE c = Field("allowedBeaconBalanceAnnualRelativeIncrease",
                       "AllowedBeaconBalanceAnnualRelativeIncreaseSet")
    BY <2>2, <1>1, FieldCorrect
  <2>3. CASE c = Field("allowedBeaconBalanceRelativeDecrease", "AllowedBeaconBalanceRelativeDecreaseSet")
    BY <2>3, <1>1, FieldCorrect
  <2>4. CASE c = Field("beaconReportReceiver", "BeaconReportReceiverSet")
    BY <2>4, <1>1, FieldCorrect
  <2>5. CASE c = Field("version", "ContractVersionSet")
    BY <2>5, <1>1, FieldCorrect
  <2> QED BY <1>2, <2>1, <2>2, <2>3, <2>4, <2>5
<1>3. << >> \in Seq(Nat)
  OBVIOUS
<1>4. CASE c = WithVariants(Field("oracleMembers", "MemberRemoved"), << >>)
  <2>1. CallOK(Field("oracleMembers", "MemberRemoved"))
    BY <1>1, FieldCorrect
  <2> QED BY ONLY <1>4, <2>1, <1>3, WithVariantsCorrect, ContractOK, app = "lidooracle"
<1>5. CASE c = Call({"currentFrame"}, << >>)
  <2> DEFINE fs == {"currentFrame"}
             es == << >>
  <2>1. es \in Seq(Events)
    OBVIOUS
  <2>2. \A f \in fs : f = "currentFrame"
    OBVIOUS
  <2>3. fs \cap FollowedFields = {}
    BY DEF FollowedFields
  <2> HIDE DEF fs, es
  <2>4. CallOK(Call(fs, es))
    BY ONLY <2>1, <2>2, <2>3, ContractOK, CallCorrect
  <2> QED BY <1>5, <2>4 DEF fs, es
<1>6. CASE c = Call({}, <<"UI:UpdateFrame">>)
  <2> DEFINE es == <<"UI:UpdateFrame">>
  <2>1. es \in Seq(Events)
    OBVIOUS
  <2> HIDE DEF es
  <2>2. CallOK(Call({}, es))
    BY ONLY <2>1, ContractOK, CallCorrect
  <2> QED BY <1>6, <2>2 DEF es
<1>7. CASE c \in SetQuorumCalls
  <2> DEFINE changed == Field("quorum", "QuorumChanged")
  <2>1. CallOK(changed)
    BY <1>1, FieldCorrect
  <2> HIDE DEF changed
  <2>2. CallOK(Pushed(changed))
    BY ONLY <2>1, PushedCorrect, ContractOK, app = "lidooracle"
  <2> QED BY <1>7, <2>1, <2>2 DEF SetQuorumCalls, changed
<1>8. CASE c \in ReportCalls
  BY ONLY <1>8, ReportCallCorrect, ContractOK, app = "lidooracle"
<1> QED BY <1>2, <1>4, <1>5, <1>6, <1>7, <1>8 DEF OracleCalls

\* The handlers of the registry: the count is read before the operators.
LEMMA RegistryReadsAre ==
    ASSUME app = "registry"
    PROVE  /\ Reads("NodeOperatorAdded") =
                  <<"nodeOperatorsCount", "activeNodeOperatorsCount", "nodeOperators">>
           /\ Reads("NodeOperatorActiveSet") = <<"activeNodeOperatorsCount", "nodeOperators">>
           /\ Reads("SigningKeyAdded") = <<"nodeOperators">>
           /\ Reads("NodeOperatorStakingLimitSet") = <<"nodeOperators">>
           /\ \A event \in Events \ {"NodeOperatorAdded", "NodeOperatorActiveSet", "SigningKeyAdded",
                                      "NodeOperatorStakingLimitSet"} : Reads(event) = << >>
BY DEF Reads, RegistryReads, Events

\* What an operator may become, and what its handler has to know.
LEMMA WithOperatorsCorrect ==
    ASSUME ContractOK, app = "registry", NEW c, CallIs(c), FollowedOK(c), VariantsOK(c),
           NEW operators \in Seq(AnOperator), Len(operators) = Len(Operators),
           c.chain.nodeOperatorsCount = chain.nodeOperatorsCount,
           SameParts(operators) \/ Announces(c, "nodeOperators")
    PROVE  CallOK(WithOperators(c, operators))
<1> DEFINE d == WithOperators(c, operators)
<1>1. /\ d = [chain |-> d.chain, events |-> d.events]
      /\ d.chain = [f \in Fields |-> d.chain[f]]
      /\ d.events = c.events
      /\ d.chain["nodeOperators"] = operators
      /\ \A f \in Fields \ {"nodeOperators"} : d.chain[f] = c.chain[f]
  <2> DEFINE chain1 == [c.chain EXCEPT !["nodeOperators"] = operators]
  <2>1. /\ c = [chain |-> c.chain, events |-> c.events]
        /\ c.chain = [f \in Fields |-> c.chain[f]]
        /\ "nodeOperators" \in Fields
    BY DEF CallIs, Fields
  <2>2. d = [chain |-> chain1, events |-> c.events]
    BY <2>1 DEF WithOperators
  <2>3. /\ chain1 = [f \in Fields |-> chain1[f]]
        /\ chain1["nodeOperators"] = operators
        /\ \A f \in Fields \ {"nodeOperators"} : chain1[f] = c.chain[f]
    BY <2>1
  <2> HIDE DEF d, chain1
  <2> QED BY <2>2, <2>3
<1> HIDE DEF d
<1>2. CallIs(d)
  BY <1>1 DEF CallIs
<1>3. \A f : Announces(c, f) <=> Announces(d, f)
  BY <1>1 DEF Announces
<1>4. FollowedOK(d)
  BY <1>1, <1>3 DEF FollowedOK, FollowedFields, Fields
<1>5. VariantsOK(d)
  BY DEF VariantsOK
<1>6. CallOperatorsOK(d)
  BY <1>1, <1>3 DEF CallOperatorsOK, ContractOK, Fields
<1> QED BY <1>2, <1>4, <1>5, <1>6 DEF CallOK, d

\* A new operator: its event has the three fields read again.
LEMMA AddOperatorCorrect == ContractOK /\ app = "registry" => CallOK(AddOperator)
<1> SUFFICES ASSUME ContractOK, app = "registry" PROVE CallOK(AddOperator)
  OBVIOUS
<1> DEFINE fs == {"activeNodeOperatorsCount"}
           es == <<"NodeOperatorAdded">>
           operators == Append(Operators, [followed |-> Stamp, other |-> Stamp])
           b == Call(fs, es)
           c == AddOperator
<1>1. es \in Seq(Events) /\ 1 \in DOMAIN es /\ es[1] = "NodeOperatorAdded"
  BY DEF Events
<1>2. operators \in Seq(AnOperator) /\ Len(operators) = Len(Operators) + 1
  <2>1. [followed |-> Stamp, other |-> Stamp] \in AnOperator
    BY DEF ContractOK, Stamp, AnOperator
  <2> QED BY <2>1 DEF ContractOK
<1> HIDE DEF es
<1>3. /\ b = [chain |-> b.chain, events |-> b.events]
      /\ b.chain = [f \in Fields |-> b.chain[f]]
      /\ b.events = es
  BY <1>1, CallFields DEF CallIs
<1> HIDE DEF b
<1>4. /\ c = [chain |-> c.chain, events |-> c.events]
      /\ c.chain = [f \in Fields |-> c.chain[f]]
      /\ c.events = es
      /\ c.chain["nodeOperators"] = operators
      /\ c.chain["nodeOperatorsCount"] = Len(Operators) + 1
  <2> DEFINE chain1 == [b.chain EXCEPT !["nodeOperators"] = operators]
             chain2 == [chain1 EXCEPT !["nodeOperatorsCount"] = Len(Operators) + 1]
             c1 == WithOperators(b, operators)
  <2> HIDE DEF operators
  <2>1. "nodeOperators" \in Fields /\ "nodeOperatorsCount" \in Fields
    BY DEF Fields
  <2>2. c1 = [chain |-> chain1, events |-> b.events]
    BY <1>3 DEF WithOperators
  <2>3. c = [c1 EXCEPT !.chain.nodeOperatorsCount = Len(Operators) + 1]
    BY DEF AddOperator, operators, b, fs, es
  <2>4. /\ chain2 = [f \in Fields |-> chain2[f]]
        /\ chain2["nodeOperators"] = operators
        /\ chain2["nodeOperatorsCount"] = Len(Operators) + 1
    BY <1>3, <2>1
  <2> HIDE DEF c1, c, chain1
  <2>5. c = [chain |-> chain2, events |-> b.events]
    BY <2>2, <2>3
  <2> HIDE DEF chain2
  <2> QED BY <1>3, <2>4, <2>5
<1> HIDE DEF c, operators
<1>5. CallIs(c)
  BY <1>1, <1>4 DEF CallIs
<1>6. /\ Announces(c, "nodeOperators") /\ Announces(c, "nodeOperatorsCount")
      /\ Announces(c, "activeNodeOperatorsCount")
  <2>1. /\ In("nodeOperators", Reads("NodeOperatorAdded"))
        /\ In("nodeOperatorsCount", Reads("NodeOperatorAdded"))
        /\ In("activeNodeOperatorsCount", Reads("NodeOperatorAdded"))
    BY RegistryReadsAre DEF In
  <2> QED BY <1>1, <1>4, <2>1 DEF Announces
<1>7. FollowedOK(c)
  BY <1>6 DEF FollowedOK, FollowedFields
<1>8. VariantsOK(c)
  BY DEF VariantsOK
<1>9. CallOperatorsOK(c)
  BY <1>2, <1>4, <1>6 DEF CallOperatorsOK
<1> QED BY <1>5, <1>7, <1>8, <1>9 DEF CallOK, c

\* A change of an operator that is followed is announced.
LEMMA OperatorCallCorrect ==
    ASSUME ContractOK, app = "registry", NEW i \in DOMAIN Operators, NEW c \in OperatorCalls(i)
    PROVE  CallOK(c)
<1>1. /\ Followed(i) \in Seq(AnOperator) /\ Len(Followed(i)) = Len(Operators)
      /\ Other(i) \in Seq(AnOperator) /\ Len(Other(i)) = Len(Operators) /\ SameParts(Other(i))
  <2> DEFINE s == Operators
             one == [s[i] EXCEPT !.followed = Stamp]
             two == [s[i] EXCEPT !.other = Stamp]
  <2>1. s \in Seq(AnOperator) /\ i \in 1..Len(s) /\ Stamp \in Nat
    BY DEF ContractOK, Stamp
  <2>2. Followed(i) = [s EXCEPT ![i] = one] /\ Other(i) = [s EXCEPT ![i] = two]
    BY DEF Followed, Other
  <2>3. s = Operators
    OBVIOUS
  <2> HIDE DEF s
  <2>4. one \in AnOperator /\ two \in AnOperator /\ two.followed = s[i].followed
    <3> DEFINE operator == s[i]
    <3>1. operator \in AnOperator
      BY <2>1
    <3> HIDE DEF operator
    <3>2. /\ [operator EXCEPT !.followed = Stamp] \in AnOperator
          /\ [operator EXCEPT !.other = Stamp] \in AnOperator
          /\ [operator EXCEPT !.other = Stamp].followed = operator.followed
      BY <2>1, <3>1 DEF AnOperator
    <3> QED BY <3>2 DEF operator
  <2> HIDE DEF one, two
  <2>5. /\ [s EXCEPT ![i] = one] \in Seq(AnOperator) /\ Len([s EXCEPT ![i] = one]) = Len(s)
        /\ [s EXCEPT ![i] = two] \in Seq(AnOperator) /\ Len([s EXCEPT ![i] = two]) = Len(s)
    BY <2>1, <2>4
  <2>6. \A k \in DOMAIN [s EXCEPT ![i] = two] : [s EXCEPT ![i] = two][k].followed = s[k].followed
    BY <2>1, <2>4
  <2> QED BY <2>2, <2>3, <2>5, <2>6 DEF SameParts
<1>2. ASSUME NEW fs, NEW es \in Seq(Events), NEW operators \in Seq(AnOperator),
             Len(operators) = Len(Operators),
             "nodeOperators" \notin fs, "nodeOperatorsCount" \notin fs,
             "activeNodeOperatorsCount" \in fs =>
                \E k \in DOMAIN es : In("activeNodeOperatorsCount", Reads(es[k])),
             SameParts(operators) \/ \E k \in DOMAIN es : In("nodeOperators", Reads(es[k]))
      PROVE  CallOK(WithOperators(Call(fs, es), operators))
  <2> DEFINE b == Call(fs, es)
  <2>1. /\ CallIs(b)
        /\ b.events = es
        /\ \A f \in Fields : b.chain[f] = IF f \in fs THEN Stamp ELSE chain[f]
    BY <1>2, CallFields
  <2> HIDE DEF b
  <2>2. FollowedOK(b)
    BY <1>2, <2>1 DEF FollowedOK, FollowedFields, Fields, Announces
  <2>3. VariantsOK(b)
    BY DEF VariantsOK
  <2>4. SameParts(operators) \/ Announces(b, "nodeOperators")
    BY <1>2, <2>1 DEF Announces
  <2>5. b.chain.nodeOperatorsCount = chain.nodeOperatorsCount
    BY <1>2, <2>1 DEF Fields
  <2>6. CallOK(WithOperators(b, operators))
    BY <1>2, <2>1, <2>2, <2>3, <2>4, <2>5, WithOperatorsCorrect
  <2> QED BY <2>6 DEF b
<1>3. /\ In("nodeOperators", Reads("NodeOperatorActiveSet"))
      /\ In("activeNodeOperatorsCount", Reads("NodeOperatorActiveSet"))
      /\ In("nodeOperators", Reads("NodeOperatorStakingLimitSet"))
      /\ In("nodeOperators", Reads("SigningKeyAdded"))
  BY RegistryReadsAre DEF In
<1>4. CASE c = WithOperators(Call({"activeNodeOperatorsCount"}, <<"NodeOperatorActiveSet">>), Followed(i))
  <2> DEFINE fs == {"activeNodeOperatorsCount"}
             es == <<"NodeOperatorActiveSet">>
  <2>1. es \in Seq(Events) /\ 1 \in DOMAIN es /\ es[1] = "NodeOperatorActiveSet"
    BY DEF Events
  <2>2. "nodeOperators" \notin fs /\ "nodeOperatorsCount" \notin fs
    OBVIOUS
  <2> HIDE DEF fs, es
  <2>3. CallOK(WithOperators(Call(fs, es), Followed(i)))
    BY <1>1, <1>2, <1>3, <2>1, <2>2
  <2> QED BY <1>4, <2>3 DEF fs, es
<1>5. CASE c = WithOperators(Call({}, <<"NodeOperatorStakingLimitSet">>), Followed(i))
  <2> DEFINE es == <<"NodeOperatorStakingLimitSet">>
  <2>1. es \in Seq(Events) /\ 1 \in DOMAIN es /\ es[1] = "NodeOperatorStakingLimitSet"
    BY DEF Events
  <2> HIDE DEF es
  <2>3. CallOK(WithOperators(Call({}, es), Followed(i)))
    BY <1>1, <1>2, <1>3, <2>1
  <2> QED BY <1>5, <2>3 DEF es
<1>6. CASE c = WithOperators(Call({}, <<"SigningKeyAdded", "SigningKeyAdded">>), Followed(i))
  <2> DEFINE es == <<"SigningKeyAdded", "SigningKeyAdded">>
  <2>1. es \in Seq(Events) /\ 1 \in DOMAIN es /\ es[1] = "SigningKeyAdded"
    BY DEF Events
  <2> HIDE DEF es
  <2>3. CallOK(WithOperators(Call({}, es), Followed(i)))
    BY <1>1, <1>2, <1>3, <2>1
  <2> QED BY <1>6, <2>3 DEF es
<1>7. CASE c = WithOperators(Call({}, <<"SigningKeyRemoved">>), Other(i))
  <2> DEFINE es == <<"SigningKeyRemoved">>
  <2>1. es \in Seq(Events)
    BY DEF Events
  <2> HIDE DEF es
  <2>3. CallOK(WithOperators(Call({}, es), Other(i)))
    BY <1>1, <1>2, <2>1
  <2> QED BY <1>7, <2>3 DEF es
<1>8. CASE c = WithOperators(Call({}, << >>), Other(i))
  <2> DEFINE es == << >>
  <2>1. es \in Seq(Events)
    OBVIOUS
  <2> HIDE DEF es
  <2>3. CallOK(WithOperators(Call({}, es), Other(i)))
    BY <1>1, <1>2, <2>1
  <2> QED BY <1>8, <2>3 DEF es
<1> QED BY <1>4, <1>5, <1>6, <1>7, <1>8 DEF OperatorCalls

\* Whatever the call, a field that is followed and changes is announced.
LEMMA ContractCallCorrect == ContractOK => \A c \in ContractCalls : CallOK(c)
<1> SUFFICES ASSUME ContractOK, NEW c \in ContractCalls PROVE CallOK(c)
  OBVIOUS
<1>1. CASE app = "lido"
  BY <1>1, LidoCallCorrect DEF ContractCalls
<1>2. CASE app = "lidooracle"
  BY <1>2, OracleCallCorrect DEF ContractCalls
<1>3. CASE app = "registry"
  <2>1. c \in RegistryCalls
    BY <1>3 DEF ContractCalls
  <2>2. CASE c = AddOperator
    BY <1>3, <2>2, AddOperatorCorrect
  <2>3. CASE \E i \in DOMAIN Operators : c \in OperatorCalls(i)
    BY <1>3, <2>3, OperatorCallCorrect
  <2> QED BY <2>1, <2>2, <2>3 DEF RegistryCalls
<1> QED BY <1>1, <1>2, <1>3 DEF ContractOK

-----------------------------------------------------------------------------
(* Steps of a handler *)

\* Reads is ReadBy of the application that runs.
LEMMA ReadsIs == \A event : Reads(event) = ReadBy(app, event)
BY DEF Reads, ReadBy

\* What {...under, ...over} holds.
LEMMA SpreadIs ==
    ASSUME NEW over, NEW under
    PROVE  /\ DOMAIN Spread(over, under) = DOMAIN over \cup DOMAIN under
           /\ \A f \in DOMAIN over : Spread(over, under)[f] = over[f]
           /\ \A f \in DOMAIN under : f \notin DOMAIN over => Spread(over, under)[f] = under[f]
BY DEF Spread

\* A part of a function.
LEMMA RestrictIs ==
    ASSUME NEW g, NEW S
    PROVE  DOMAIN Restrict(g, S) = S /\ \A f \in S : Restrict(g, S)[f] = g[f]
BY DEF Restrict

\* What handlers and initializeState set out to read.
LEMMA TodosAre ==
    ASSUME app \in {"lido", "lidooracle", "registry"}
    PROVE  /\ << >> \in Todos
           /\ \A event \in Events : Reads(event) \in Todos
           /\ \A a \in {"lido", "lidooracle", "registry"} : app = a => OpenTask(a).todo \in Todos
<1>1. << >> \in Todos
  BY DEF Todos, RegistryTodos, LidoTodos, OracleTodos
<1>2. ASSUME NEW event \in Events PROVE Reads(event) \in Todos
  <2>1. CASE app = "lido"
    BY <2>1 DEF Todos, LidoTodos, Reads, LidoReads, LidoFields
  <2>2. CASE app = "lidooracle"
    BY <2>2 DEF Todos, OracleTodos, Reads, OracleReads, OracleFields
  <2>3. CASE app = "registry"
    BY <2>3 DEF Todos, RegistryTodos, Reads, RegistryReads
  <2> QED BY <2>1, <2>2, <2>3
<1>3. \A a \in {"lido", "lidooracle", "registry"} : app = a => OpenTask(a).todo \in Todos
  BY DEF Todos, RegistryTodos, LidoTodos, OracleTodos, OpenTask, Task
<1> QED BY <1>1, <1>2, <1>3

\* What is left to read after one more field.  The registry's operators are the
\* last to be read, and always are.
LEMMA TodoSteps ==
    ASSUME app \in {"lido", "lidooracle", "registry"}, NEW todo \in Todos, todo # << >>
    PROVE  /\ Tail(todo) \in Todos /\ Head(todo) \in Fields
           /\ \A f : In(f, todo) => f = Head(todo) \/ In(f, Tail(todo))
           /\ app = "registry" => (Head(todo) = "nodeOperators" <=> Tail(todo) = << >>)
<1>1. CASE app = "lido"
  <2>1. PICK f \in LidoFields : todo = <<f>>
    BY <1>1 DEF Todos, LidoTodos
  <2>2. Tail(todo) = << >>
    BY <2>1
  <2> QED BY <1>1, <2>1, <2>2 DEF Todos, LidoTodos, In, Fields
<1>2. CASE app = "lidooracle" /\ todo = <<"currentReportVariants", "currentOraclesReportStatus">>
  <2>1. Tail(todo) = <<"currentOraclesReportStatus">> /\ "currentOraclesReportStatus" \in OracleFields
    BY <1>2 DEF OracleFields
  <2> QED BY <1>2, <2>1 DEF Todos, OracleTodos, In, Fields
<1>3. CASE app = "lidooracle" /\ \E f \in OracleFields \cup {"currentReportVariants"} : todo = <<f>>
  <2>1. Tail(todo) = << >>
    BY <1>3
  <2> QED BY <1>3, <2>1 DEF Todos, OracleTodos, In, Fields
<1>4. CASE app = "registry" /\ todo = <<"nodeOperators">>
  <2>1. Tail(todo) = << >>
    BY <1>4
  <2> QED BY <1>4, <2>1 DEF Todos, RegistryTodos, In, Fields
<1>5. CASE app = "registry" /\ todo = <<"activeNodeOperatorsCount", "nodeOperators">>
  <2>1. Tail(todo) = <<"nodeOperators">>
    BY <1>5
  <2> QED BY <1>5, <2>1 DEF Todos, RegistryTodos, In, Fields
<1>6. CASE app = "registry" /\ todo = <<"nodeOperatorsCount", "activeNodeOperatorsCount", "nodeOperators">>
  <2>1. Tail(todo) = <<"activeNodeOperatorsCount", "nodeOperators">>
    BY <1>6
  <2> QED BY <1>6, <2>1 DEF Todos, RegistryTodos, In, Fields
<1> QED BY <1>1, <1>2, <1>3, <1>4, <1>5, <1>6 DEF Todos, OracleTodos, RegistryTodos

-----------------------------------------------------------------------------
(* The contract, the events and the shape of a task *)

\* The application is never another.
LEMMA TodosStay == UNCHANGED app => Todos' = Todos /\ Fields' = Fields
BY DEF Todos, Fields

\* The events after the first one.
LEMMA TailOfEvents ==
    ASSUME NEW S, NEW es \in Seq(S), es # << >>
    PROVE  /\ Tail(es) \in Seq(S) /\ Head(es) \in S
           /\ Len(es) >= 1 /\ Head(es) = es[1]
           /\ \A k \in DOMAIN es : k > 1 => k - 1 \in DOMAIN Tail(es) /\ Tail(es)[k - 1] = es[k]
BY HeadTailProperties

\* The contract is left alone by every step but a transaction.
LEMMA ContractStays ==
    ASSUME ContractOK, UNCHANGED <<app, chain, calls>>,
           events' = events \/ (events # << >> /\ events' = Tail(events))
    PROVE  ContractOK'
<1>1. events' \in Seq(Events)
  BY TailOfEvents DEF ContractOK
<1> QED BY <1>1 DEF ContractOK, Fields, Variants, Operators

\* An event is delivered when its handler ends.
LEMMA EventsDelivered ==
    ASSUME TaskOK, events' = Delivered
    PROVE  /\ events' = events \/ (events # << >> /\ events' = Tail(events))
           /\ task.kind = "event" => events # << >> /\ events' = Tail(events)
           /\ task.kind # "event" => events' = events
BY DEF TaskOK, Delivered

\* The tasks of a store in which no handler runs.
LEMMA IdleTasks ==
    /\ Idle = [kind |-> "idle", todo |-> << >>, pending |-> {}, got |-> Nothing, list |-> NoList]
    /\ Stopped = [kind |-> "stopped", todo |-> << >>, pending |-> {}, got |-> Nothing, list |-> NoList]
BY DEF Idle, Stopped, Task

\* A transaction: a call, and some of the answers that were awaited.
LEMMA TransactShape ==
    ASSUME ContractOK, TaskOK, Transact
    PROVE  /\ ContractOK'
           /\ TaskOK'
           /\ \E c \in ContractCalls :
                 /\ CallOK(c)
                 /\ chain' = c.chain
                 /\ events' = events \o c.events
           /\ \E answered \in SUBSET {f \in task.pending : chain'[f] # chain[f]} :
                 task' = [kind |-> task.kind, todo |-> task.todo, pending |-> task.pending \ answered,
                          got |-> Spread(Restrict(chain, answered), task.got), list |-> task.list]
           /\ UNCHANGED <<app, shown>>
<1>1. PICK c \in ContractCalls :
         /\ chain' = c.chain
         /\ events' = events \o c.events
         /\ \E answered \in SUBSET {f \in task.pending : c.chain[f] # chain[f]} :
               task' = [task EXCEPT !.pending = @ \ answered,
                                    !.got = Spread(Restrict(chain, answered), @)]
  BY DEF Transact
<1>2. CallOK(c)
  BY ContractCallCorrect
<1>3. UNCHANGED <<app, shown>> /\ calls' = calls + 1
  BY DEF Transact
<1>4. ContractOK'
  <2>1. events' \in Seq(Events)
    <3>1. events \in Seq(Events) /\ c.events \in Seq(Events)
      BY <1>2 DEF ContractOK, CallOK, CallIs
    <3> QED BY <1>1, <3>1, ConcatProperties
  <2>2. DOMAIN chain' = Fields'
    BY <1>1, <1>2, <1>3 DEF CallOK, CallIs, Fields
  <2>3. app = "lidooracle" => Variants' \in Seq(Nat)
    BY <1>1, <1>2 DEF CallOK, VariantsOK, Variants
  <2>4. app = "registry" =>
            Operators' \in Seq(AnOperator) /\ chain'.nodeOperatorsCount = Len(Operators')
    BY <1>1, <1>2 DEF CallOK, CallOperatorsOK, Operators
  <2> QED BY <1>3, <2>1, <2>2, <2>3, <2>4 DEF ContractOK
<1>5. PICK answered \in SUBSET {f \in task.pending : chain'[f] # chain[f]} :
         task' = [task EXCEPT !.pending = @ \ answered,
                              !.got = Spread(Restrict(chain, answered), @)]
  BY <1>1
<1> DEFINE got == Spread(Restrict(chain, answered), task.got)
<1>6. task' = [kind |-> task.kind, todo |-> task.todo, pending |-> task.pending \ answered,
               got |-> got, list |-> task.list]
  BY <1>5 DEF TaskOK
<1> HIDE DEF got
<1>7. TaskOK'
  <2>1. events # << >> => events' # << >>
    <3>1. events \in Seq(Events) /\ c.events \in Seq(Events)
      BY <1>2 DEF ContractOK, CallOK, CallIs
    <3>2. events # << >> => Len(events) # 0
      BY <3>1
    <3>3. Len(events') = Len(events) + Len(c.events)
      BY <1>1, <3>1, ConcatProperties
    <3>4. Len(events) \in Nat /\ Len(c.events) \in Nat
      BY <3>1
    <3> QED BY <3>2, <3>3, <3>4
  <2> QED BY <1>3, <1>6, <2>1, TodosStay DEF TaskOK, Runs, NextRead
<1> QED BY <1>1, <1>2, <1>3, <1>4, <1>5, <1>6, <1>7 DEF got

\* The next event is skipped or given to its handler.
LEMMA TakeEventShape ==
    ASSUME ContractOK, TaskOK, TakeEvent
    PROVE  /\ ContractOK' /\ TaskOK'
           /\ UNCHANGED <<app, chain, shown>>
           /\ events # << >> /\ Head(events) \in Events
           /\ task = Idle
           /\ \/ events' = Tail(events) /\ UNCHANGED task /\ Reads(Head(events)) = << >>
              \/ /\ UNCHANGED events
                 /\ task' = [kind |-> "event", todo |-> Reads(Head(events)), pending |-> {},
                             got |-> Nothing, list |-> NoList]
                 /\ Reads(Head(events)) # << >>
<1>1. /\ UNCHANGED <<app, chain, shown, calls>> /\ task = Idle /\ events # << >>
      /\ \/ events' = Tail(events) /\ UNCHANGED task /\ Reads(Head(events)) = << >>
         \/ /\ UNCHANGED events
            /\ task' = [kind |-> "event", todo |-> Reads(Head(events)), pending |-> {},
                        got |-> Nothing, list |-> NoList]
            /\ Reads(Head(events)) # << >>
  BY DEF TakeEvent, Task
<1>2. ContractOK'
  BY <1>1, ContractStays
<1>3. Head(events) \in Events
  BY <1>1, TailOfEvents DEF ContractOK
<1>4. TaskOK'
  <2>1. Reads(Head(events)) \in Todos
    BY <1>3, TodosAre DEF ContractOK
  <2> QED BY <1>1, <2>1, TodosStay, IdleTasks DEF TaskOK, Runs, NoList
<1> QED BY <1>1, <1>2, <1>3, <1>4

\* A step of the handler that runs: what it leaves alone.
HandlerFrame == UNCHANGED <<app, chain, events, shown>>

\* A handler has the answer for its next field.
LEMMA GotShape ==
    ASSUME ContractOK, TaskOK, HandlerFrame, UNCHANGED calls, task.todo # << >>, NEW v, task' = Got(v)
    PROVE  /\ ContractOK' /\ TaskOK'
           /\ task' = [kind |-> task.kind, todo |-> Tail(task.todo), pending |-> task.pending,
                       got |-> Spread([f \in {NextRead} |-> v], task.got), list |-> NoList]
<1> DEFINE got == Spread([f \in {NextRead} |-> v], task.got)
<1>1. task' = [kind |-> task.kind, todo |-> Tail(task.todo), pending |-> task.pending,
               got |-> got, list |-> NoList]
  BY DEF TaskOK, Got
<1> HIDE DEF got
<1>2. ContractOK'
  BY ContractStays DEF HandlerFrame
<1>3. TaskOK'
  <2>1. Tail(task.todo) \in Todos
    BY TodoSteps DEF TaskOK, ContractOK
  <2> QED BY <1>1, <2>1, TodosStay DEF TaskOK, Runs, HandlerFrame, NoList
<1> QED BY <1>1, <1>2, <1>3 DEF got

\* A list is begun, or has one more entry.
LEMMA ListShape ==
    ASSUME ContractOK, TaskOK, StartList \/ ReadEntry
    PROVE  /\ ContractOK' /\ TaskOK' /\ HandlerFrame /\ task.todo # << >> /\ IsList(NextRead)
           /\ task' = [kind |-> task.kind, todo |-> task.todo, pending |-> task.pending,
                       got |-> task.got, list |-> task'.list]
           /\ StartList => task.list = NoList /\ task'.list = [size |-> ListSize, entries |-> << >>]
           /\ ReadEntry =>
                 /\ task.list # NoList
                 /\ Len(task.list.entries) < task.list.size
                 /\ Len(task.list.entries) < Len(chain[NextRead])
                 /\ task'.list = [size |-> task.list.size,
                                  entries |-> Append(task.list.entries,
                                                     chain[NextRead][Len(task.list.entries) + 1])]
<1>1. /\ HandlerFrame /\ UNCHANGED calls /\ task.todo # << >> /\ IsList(NextRead)
      /\ task' = [kind |-> task.kind, todo |-> task.todo, pending |-> task.pending,
                  got |-> task.got, list |-> task'.list]
  BY DEF StartList, ReadEntry, InList, HandlerFrame, TaskOK
<1>2. StartList => task.list = NoList /\ task'.list = [size |-> ListSize, entries |-> << >>]
  BY DEF StartList, TaskOK, NoList
<1>3. ReadEntry =>
         /\ task.list # NoList
         /\ Len(task.list.entries) < task.list.size
         /\ Len(task.list.entries) < Len(chain[NextRead])
         /\ task'.list = [size |-> task.list.size,
                          entries |-> Append(task.list.entries,
                                             chain[NextRead][Len(task.list.entries) + 1])]
  BY DEF ReadEntry, InList, TaskOK
<1>4. ContractOK'
  BY <1>1, ContractStays DEF HandlerFrame
<1>5. task'.list = [size |-> task'.list.size, entries |-> task'.list.entries]
  BY <1>2, <1>3
<1>6. TaskOK'
  BY <1>1, <1>5, TodosStay DEF TaskOK, Runs, HandlerFrame, NextRead
<1> QED BY <1>1, <1>2, <1>3, <1>4, <1>6

\* A handler that returns or fails leaves the store idle and its event delivered.
LEMMA HandlerEnds ==
    ASSUME ContractOK, TaskOK, HandlerReturns \/ HandlerFails
    PROVE  /\ ContractOK' /\ TaskOK' /\ Runs
           /\ UNCHANGED <<app, chain>>
           /\ events' = Delivered
           /\ task' = Idle
           /\ HandlerReturns => task.todo = << >> /\ shown' = Spread(Answers, shown)
           /\ HandlerFails => shown' = Nothing
<1>1. /\ Runs /\ UNCHANGED <<app, chain, calls>> /\ events' = Delivered /\ task' = Idle
      /\ HandlerReturns => task.todo = << >> /\ shown' = Spread(Answers, shown)
      /\ HandlerFails => shown' = Nothing
  BY DEF HandlerReturns, HandlerFails, Runs
<1>2. ContractOK'
  BY <1>1, ContractStays, EventsDelivered
<1>3. TaskOK'
  <2>1. << >> \in Todos
    BY TodosAre DEF ContractOK
  <2> QED BY <1>1, <2>1, TodosStay, IdleTasks DEF TaskOK, Runs, NoList
<1> QED BY <1>1, <1>2, <1>3

\* Opening fails: Lido's goes on without an answer, the others stop.
LEMMA OpeningFailsShape ==
    ASSUME ContractOK, TaskOK, OpeningFails
    PROVE  /\ ContractOK' /\ TaskOK' /\ task.kind = "init"
           /\ UNCHANGED <<app, chain, events>>
           /\ app = "lido" =>
                 \E f \in task.pending :
                    /\ task' = [kind |-> "init", todo |-> task.todo, pending |-> task.pending \ {f},
                                got |-> task.got, list |-> task.list]
                    /\ shown' = Restrict(shown, DOMAIN shown \ {f})
           /\ app # "lido" => task' = Stopped /\ UNCHANGED shown
<1>1. /\ task.kind = "init" /\ UNCHANGED <<app, chain, events, calls>>
      /\ app # "lido" => task' = Stopped /\ UNCHANGED shown
  BY DEF OpeningFails
<1>2. app = "lido" =>
         \E f \in task.pending :
            /\ task' = [kind |-> "init", todo |-> task.todo, pending |-> task.pending \ {f},
                        got |-> task.got, list |-> task.list]
            /\ shown' = Restrict(shown, DOMAIN shown \ {f})
  BY <1>1 DEF OpeningFails, TaskOK
<1>3. ContractOK'
  BY <1>1, ContractStays
<1>4. TaskOK'
  <2>1. << >> \in Todos
    BY TodosAre DEF ContractOK
  <2>2. CASE app = "lido"
    <3>1. PICK pending \in SUBSET task.pending :
             task' = [kind |-> "init", todo |-> task.todo, pending |-> pending,
                      got |-> task.got, list |-> task.list]
      BY <1>2, <2>2
    <3> QED BY <1>1, <3>1, <2>2, TodosStay DEF TaskOK, Runs, NextRead
  <2>3. CASE app # "lido"
    BY <1>1, <2>1, <2>3, TodosStay, IdleTasks DEF TaskOK, Runs, NoList
  <2> QED BY <2>2, <2>3
<1> QED BY <1>1, <1>2, <1>3, <1>4

\* An application that is opened reads every field.
LEMMA OpenTaskIs ==
    ASSUME app \in {"lido", "lidooracle", "registry"}
    PROVE  /\ OpenTask(app) = [kind |-> "init", todo |-> OpenTask(app).todo,
                               pending |-> OpenTask(app).pending, got |-> Nothing, list |-> NoList]
           /\ OpenTask(app).todo \in Todos
           /\ OpenTask(app).pending \subseteq IF app = "registry" THEN {} ELSE Fields \ {"currentReportVariants"}
           /\ \A f \in Fields : f \in OpenTask(app).pending \/ In(f, OpenTask(app).todo)
           /\ app = "registry" => OpenTask(app).todo # << >>
<1>1. CASE app = "lido"
  BY <1>1 DEF OpenTask, Task, Todos, LidoTodos, LidoFields, Fields, In
<1>2. CASE app = "lidooracle"
  <2>1. OpenTask(app) = [kind |-> "init", todo |-> <<"currentReportVariants">>, pending |-> OracleFields,
                         got |-> Nothing, list |-> NoList]
    BY <1>2 DEF OpenTask, Task
  <2> QED BY <1>2, <2>1, InOne DEF Todos, OracleTodos, OracleFields, Fields
<1>3. CASE app = "registry"
  <2>1. OpenTask(app) = [kind |-> "init",
                         todo |-> <<"nodeOperatorsCount", "activeNodeOperatorsCount", "nodeOperators">>,
                         pending |-> {}, got |-> Nothing, list |-> NoList]
    BY <1>3 DEF OpenTask, Task
  <2> QED BY <1>3, <2>1 DEF Todos, RegistryTodos, Fields, In
<1> QED BY <1>1, <1>2, <1>3

\* The page is opened again with the store that was kept.
LEMMA ReopenShape ==
    ASSUME ContractOK, TaskOK, Reopen
    PROVE  /\ ContractOK' /\ TaskOK'
           /\ UNCHANGED <<app, chain, events, shown>>
           /\ task' = OpenTask(app)
<1>1. UNCHANGED <<app, chain, events, shown, calls>> /\ task' = OpenTask(app)
  BY DEF Reopen
<1>2. ContractOK'
  BY <1>1, ContractStays
<1>3. TaskOK'
  <2> DEFINE todo == OpenTask(app).todo
             pending == OpenTask(app).pending
  <2>1. /\ OpenTask(app) = [kind |-> "init", todo |-> todo, pending |-> pending, got |-> Nothing,
                            list |-> NoList]
        /\ todo \in Todos
        /\ pending \subseteq IF app = "registry" THEN {} ELSE Fields \ {"currentReportVariants"}
    BY OpenTaskIs DEF ContractOK
  <2> HIDE DEF todo, pending
  <2> QED BY <1>1, <2>1, TodosStay DEF TaskOK, Runs, NoList
<1> QED BY <1>1, <1>2, <1>3

-----------------------------------------------------------------------------
(* A field that is followed is up to date, or is going to be read *)

\* What is followed depends on the application only.
LEMMA FollowedStay ==
    UNCHANGED app => FollowedFields' = FollowedFields /\ Tracked' = Tracked
BY DEF FollowedFields, Tracked

\* The fields that are tracked, and the ones that are not.
LEMMA TrackedAre ==
    ASSUME app \in {"lido", "lidooracle", "registry"}
    PROVE  /\ Tracked \subseteq Fields /\ FollowedFields \subseteq Tracked
           /\ \A f \in Tracked : f # "nodeOperators"
           /\ app = "lidooracle" => "currentReportVariants" \notin FollowedFields
BY DEF Tracked, FollowedFields, Fields, LidoFields, OracleFields

\* The events that a call adds come after the one that is handled.
LEMMA ComingGrows ==
    ASSUME ContractOK, TaskOK, UNCHANGED app, task'.kind = task.kind,
           NEW es \in Seq(Events), events' = events \o es
    PROVE  /\ \A f : Coming(f) => Coming(f)'
           /\ \A f : (\E k \in DOMAIN es : In(f, Reads(es[k]))) => Coming(f)'
<1> DEFINE old == events
           new == events'
<1>1. old \in Seq(Events) /\ new = old \o es
  BY DEF ContractOK
<1> HIDE DEF old, new
<1>2. /\ Len(new) = Len(old) + Len(es)
      /\ \A k \in 1..(Len(old) + Len(es)) : new[k] = IF k <= Len(old) THEN old[k] ELSE es[k - Len(old)]
      /\ new \in Seq(Events)
  BY <1>1, ConcatProperties
<1>3. \A k \in DOMAIN old : k \in DOMAIN new /\ new[k] = old[k]
  BY <1>1, <1>2
<1>4. \A k \in DOMAIN es : k + Len(old) \in DOMAIN new /\ new[k + Len(old)] = es[k]
  BY <1>1, <1>2
<1>5. \A f : Coming(f) => Coming(f)'
  BY <1>3 DEF Coming, old, new
<1>6. task.kind = "event" => Len(old) >= 1
  BY <1>1 DEF TaskOK, old
<1>7. ASSUME NEW f, NEW k \in DOMAIN es, In(f, Reads(es[k])) PROVE Coming(f)'
  <2>1. In(f, ReadBy(app, es[k]))
    BY <1>7, ReadsIs
  <2>2. k \in Nat /\ k >= 1 /\ Len(old) \in Nat
    BY <1>1
  <2>3. k + Len(old) \in DOMAIN new /\ In(f, ReadBy(app, new[k + Len(old)]))
    BY <1>4, <2>1
  <2>4. task.kind = "event" => k + Len(old) > 1
    BY <1>6, <2>2
  <2>5. k + Len(old) \in DOMAIN events' /\ In(f, ReadBy(app', events'[k + Len(old)]))
    BY <2>3 DEF new
  <2> QED BY <2>4, <2>5 DEF Coming
<1> QED BY <1>5, <1>7

\* What a call changes is going to be read: the fields that are followed, the
\* variants unless they were cleared, the parts of the operators that are followed.
LEMMA TransactComing ==
    ASSUME ContractOK, TaskOK, NEW c, CallOK(c), UNCHANGED app, task'.kind = task.kind,
           chain' = c.chain, events' = events \o c.events
    PROVE  /\ \A f : Coming(f) => Coming(f)'
           /\ \A f \in FollowedFields : chain'[f] # chain[f] => Coming(f)'
           /\ app = "lidooracle" => Variants' \in {Variants, << >>} \/ Coming("currentReportVariants")'
           /\ app = "registry" => SameParts(Operators') \/ Coming("nodeOperators")'
<1>1. c.events \in Seq(Events)
  BY DEF CallOK, CallIs
<1>2. /\ \A f : Coming(f) => Coming(f)'
      /\ \A f : Announces(c, f) => Coming(f)'
  BY <1>1, ComingGrows DEF Announces
<1>3. \A f \in FollowedFields : chain'[f] # chain[f] => Coming(f)'
  BY <1>2 DEF CallOK, FollowedOK
<1>4. app = "lidooracle" => Variants' \in {Variants, << >>} \/ Coming("currentReportVariants")'
  BY <1>2 DEF CallOK, VariantsOK, Variants
<1>5. app = "registry" => SameParts(Operators') \/ Coming("nodeOperators")'
  BY <1>2 DEF CallOK, CallOperatorsOK, Operators
<1> QED BY <1>2, <1>3, <1>4, <1>5

\* What was the value of a field and is asked again.
LEMMA TransactSame ==
    ASSUME app \in {"lido", "lidooracle", "registry"}, UNCHANGED app, NEW f \in Tracked, NEW v,
           Same(f, v) \/ Coming(f),
           Coming(f) => Coming(f)',
           f \in FollowedFields => chain'[f] = chain[f] \/ Coming(f)',
           app = "lidooracle" /\ f = "currentReportVariants" => Variants' \in {Variants, << >>} \/ Coming(f)'
    PROVE  Same(f, v)' \/ Coming(f)'
BY FollowedStay DEF Same

\* A transaction: the answer that came before a change has an event behind it.
LEMMA TransactFields ==
    ASSUME ContractOK, TaskOK, FieldsInv, Transact
    PROVE  FieldsInv'
<1>1. PICK c : CallOK(c) /\ chain' = c.chain /\ events' = events \o c.events
  BY TransactShape
<1>2. PICK answered \in SUBSET {f \in task.pending : chain'[f] # chain[f]} :
         task' = [kind |-> task.kind, todo |-> task.todo, pending |-> task.pending \ answered,
                  got |-> Spread(Restrict(chain, answered), task.got), list |-> task.list]
  BY TransactShape
<1>3. UNCHANGED <<app, shown>> /\ app \in {"lido", "lidooracle", "registry"}
  BY TransactShape DEF ContractOK
<1> DEFINE got == Spread(Restrict(chain, answered), task.got)
<1>4. /\ DOMAIN got = answered \cup DOMAIN task.got
      /\ \A f \in answered : got[f] = chain[f]
      /\ \A f \in DOMAIN task.got \ answered : got[f] = task.got[f]
  <2> DEFINE r == Restrict(chain, answered)
  <2>1. DOMAIN r = answered /\ \A f \in answered : r[f] = chain[f]
    BY RestrictIs
  <2> HIDE DEF r
  <2>2. DOMAIN Spread(r, task.got) = answered \cup DOMAIN task.got
    BY <2>1, SpreadIs
  <2>3. /\ \A f \in answered : Spread(r, task.got)[f] = chain[f]
        /\ \A f \in DOMAIN task.got \ answered : Spread(r, task.got)[f] = task.got[f]
    BY <2>1 DEF Spread
  <2> QED BY <2>2, <2>3 DEF r
<1>5. /\ task'.kind = task.kind /\ task'.todo = task.todo /\ task'.got = got
      /\ task'.pending = task.pending \ answered
  BY <1>2
<1> HIDE DEF got
<1>6. SUFFICES ASSUME NEW f \in Tracked PROVE FieldInv(f)'
  BY <1>3, FollowedStay DEF FieldsInv
<1>7. /\ Coming(f) => Coming(f)'
      /\ f \in FollowedFields => chain'[f] = chain[f] \/ Coming(f)'
      /\ app = "lidooracle" /\ f = "currentReportVariants" => Variants' \in {Variants, << >>} \/ Coming(f)'
  BY <1>1, <1>3, <1>5, TransactComing
<1>8. \A v : Same(f, v) \/ Coming(f) => Same(f, v)' \/ Coming(f)'
  BY <1>3, <1>7, TransactSame
<1>9. f \in answered => Coming(f)'
  <2>1. f \in answered => f # "currentReportVariants" /\ chain'[f] # chain[f]
    BY DEF TaskOK
  <2>2. f \in answered => f \in FollowedFields
    BY <1>3, <2>1, TrackedAre DEF Tracked
  <2> QED BY <1>7, <2>1, <2>2
<1>10. FieldInv(f)
  BY DEF FieldsInv
<1> QED BY <1>3, <1>4, <1>5, <1>8, <1>9, <1>10 DEF FieldInv, Fresh, Same, Shows, Runs

\* Of a step that leaves the contract alone.
LEMMA FieldStays ==
    ASSUME UNCHANGED <<app, chain>>
    PROVE  \A f, v : Same(f, v) => Same(f, v)'
BY FollowedStay DEF Same, Variants

\* The event that is taken is not lost: its fields are what the handler reads.
LEMMA TakeEventComing ==
    ASSUME ContractOK, TaskOK, TakeEvent
    PROVE  \A f : Coming(f) => Coming(f)' \/ (task'.kind = "event" /\ In(f, task'.todo))
<1>1. /\ UNCHANGED <<app, chain, shown>>
      /\ events # << >>
      /\ task = Idle
      /\ \/ events' = Tail(events) /\ UNCHANGED task /\ Reads(Head(events)) = << >>
         \/ /\ UNCHANGED events
            /\ task' = [kind |-> "event", todo |-> Reads(Head(events)), pending |-> {},
                        got |-> Nothing, list |-> NoList]
  BY TakeEventShape
<1>2. /\ Head(events) = events[1]
      /\ \A k \in DOMAIN events : k > 1 => k - 1 \in DOMAIN Tail(events) /\ Tail(events)[k - 1] = events[k]
      /\ events \in Seq(Events)
  BY <1>1, TailOfEvents DEF ContractOK
<1>3. Reads(Head(events)) = ReadBy(app, events[1])
  BY <1>2, ReadsIs
<1>4. task.kind = "idle"
  BY <1>1, IdleTasks
<1> SUFFICES ASSUME NEW f, NEW k \in DOMAIN events, In(f, ReadBy(app, events[k]))
             PROVE  Coming(f)' \/ (task'.kind = "event" /\ In(f, task'.todo))
  BY DEF Coming
<1>5. k \in Nat /\ k >= 1
  BY <1>2
<1>6. CASE events' = Tail(events) /\ UNCHANGED task /\ Reads(Head(events)) = << >>
  <2>1. k > 1
    BY <1>3, <1>5, <1>6 DEF In
  <2>2. k - 1 \in DOMAIN events' /\ In(f, ReadBy(app', events'[k - 1]))
    BY <1>1, <1>2, <1>6, <2>1
  <2> QED BY <1>4, <1>6, <2>2 DEF Coming
<1>7. CASE /\ UNCHANGED events
           /\ task' = [kind |-> "event", todo |-> Reads(Head(events)), pending |-> {},
                       got |-> Nothing, list |-> NoList]
  <2>1. k > 1 => Coming(f)'
    BY <1>1, <1>7 DEF Coming
  <2>2. k = 1 => In(f, task'.todo)
    BY <1>3, <1>7
  <2> QED BY <1>5, <1>7, <2>1, <2>2
<1> QED BY <1>1, <1>6, <1>7

\* While the handler goes on, and when it is followed by another.
LEMMA ComingStays ==
    ASSUME UNCHANGED <<app, events>>, task'.kind = task.kind \/ task'.kind # "event"
    PROVE  \A f : Coming(f) => Coming(f)'
BY DEF Coming

\* The events behind the one that was handled.
LEMMA DeliveredComing ==
    ASSUME ContractOK, TaskOK, UNCHANGED app, events' = Delivered, task'.kind = "idle"
    PROVE  \A f : Coming(f) => Coming(f)'
<1>1. CASE task.kind = "event"
  <2>1. events # << >> /\ events' = Tail(events)
    BY <1>1, EventsDelivered
  <2>2. \A k \in DOMAIN events : k > 1 => k - 1 \in DOMAIN Tail(events) /\ Tail(events)[k - 1] = events[k]
    BY <2>1, TailOfEvents DEF ContractOK
  <2> QED BY <1>1, <2>1, <2>2 DEF Coming
<1>2. CASE task.kind # "event"
  BY <1>2, EventsDelivered DEF Coming
<1> QED BY <1>1, <1>2

\* A handler starts: what it is going to read is no longer expected to be fresh.
LEMMA TakeEventFields ==
    ASSUME ContractOK, TaskOK, FieldsInv, TakeEvent
    PROVE  FieldsInv'
<1>1. /\ UNCHANGED <<app, chain, shown>>
      /\ task = Idle
      /\ \/ UNCHANGED task
         \/ task' = [kind |-> "event", todo |-> Reads(Head(events)), pending |-> {},
                     got |-> Nothing, list |-> NoList]
  BY TakeEventShape
<1> SUFFICES ASSUME NEW f \in Tracked PROVE FieldInv(f)'
  BY <1>1, FollowedStay DEF FieldsInv
<1>2. Coming(f) => Coming(f)' \/ (task'.kind = "event" /\ In(f, task'.todo))
  BY TakeEventComing
<1>3. \A v : Same(f, v) => Same(f, v)'
  BY <1>1, FieldStays
<1>4. task.kind = "idle" /\ FieldInv(f)
  BY <1>1, IdleTasks DEF FieldsInv
<1>5. Shows(f) => Same(f, shown[f]) \/ Coming(f)
  BY <1>4 DEF FieldInv, Fresh
<1>6. CASE UNCHANGED task
  BY <1>1, <1>2, <1>3, <1>4, <1>5, <1>6 DEF FieldInv, Fresh, Same, Shows, Runs
<1>7. CASE task' = [kind |-> "event", todo |-> Reads(Head(events)), pending |-> {},
                    got |-> Nothing, list |-> NoList]
  <2>1. task'.kind = "event" /\ task'.got = Nothing /\ f \notin DOMAIN task'.got
    BY <1>7 DEF Nothing
  <2> QED BY <1>1, <1>2, <1>3, <1>5, <2>1 DEF FieldInv, Fresh, Same, Shows, Runs
<1> QED BY <1>1, <1>6, <1>7

\* The next answer of a handler is up to date when it comes.
LEMMA GotFields ==
    ASSUME ContractOK, TaskOK, FieldsInv, HandlerFrame, UNCHANGED calls, task.todo # << >>,
           NEW v, task' = Got(v), NextRead \in Tracked => Fresh(NextRead, v)
    PROVE  FieldsInv'
<1>1. task' = [kind |-> task.kind, todo |-> Tail(task.todo), pending |-> task.pending,
               got |-> Spread([f \in {NextRead} |-> v], task.got), list |-> NoList]
  BY GotShape
<1> DEFINE next == NextRead
           got == Spread([f \in {next} |-> v], task.got)
<1>2. /\ DOMAIN got = {next} \cup DOMAIN task.got
      /\ got[next] = v
      /\ \A f \in DOMAIN task.got \ {next} : got[f] = task.got[f]
  BY DEF Spread
<1>3. /\ task'.kind = task.kind /\ task'.todo = Tail(task.todo) /\ task'.got = got
      /\ task'.pending = task.pending
  BY <1>1
<1>4. \A f : In(f, task.todo) => f = next \/ In(f, Tail(task.todo))
  BY TodoSteps DEF TaskOK, NextRead, ContractOK
<1>5. next \in Tracked => Same(next, v) \/ Coming(next)
  BY DEF Fresh
<1> HIDE DEF next, got
<1>6. UNCHANGED <<app, chain, shown, events>>
  BY DEF HandlerFrame
<1> SUFFICES ASSUME NEW f \in Tracked PROVE FieldInv(f)'
  BY <1>6, FollowedStay DEF FieldsInv
<1>7. Coming(f) => Coming(f)'
  BY <1>3, <1>6, ComingStays
<1>8. \A w : Same(f, w) => Same(f, w)'
  BY <1>6, FieldStays
<1>9. FieldInv(f)
  BY DEF FieldsInv
<1> QED BY <1>2, <1>3, <1>4, <1>5, <1>6, <1>7, <1>8, <1>9 DEF FieldInv, Fresh, Same, Shows, Runs

\* A list that is not complete is not in the store.
LEMMA ListFields ==
    ASSUME ContractOK, TaskOK, FieldsInv, StartList \/ ReadEntry
    PROVE  FieldsInv'
<1>1. /\ UNCHANGED <<app, chain, shown, events>>
      /\ task'.kind = task.kind /\ task'.todo = task.todo /\ task'.got = task.got
      /\ task'.pending = task.pending
  <2>1. /\ HandlerFrame
        /\ task' = [kind |-> task.kind, todo |-> task.todo, pending |-> task.pending,
                    got |-> task.got, list |-> task'.list]
    BY ListShape
  <2> QED BY <2>1 DEF HandlerFrame
<1> SUFFICES ASSUME NEW f \in Tracked PROVE FieldInv(f)'
  BY <1>1, FollowedStay DEF FieldsInv
<1>2. Coming(f) => Coming(f)'
  BY <1>1, ComingStays
<1>3. \A w : Same(f, w) => Same(f, w)'
  BY <1>1, FieldStays
<1>4. FieldInv(f)
  BY DEF FieldsInv
<1> QED BY <1>1, <1>2, <1>3, <1>4 DEF FieldInv, Fresh, Same, Shows, Runs

\* A handler returns: the answers replace what the store held; or it fails, and
\* nothing is left.
LEMMA HandlerEndsFields ==
    ASSUME ContractOK, TaskOK, FieldsInv, HandlerReturns \/ HandlerFails
    PROVE  FieldsInv'
<1>1. /\ Runs /\ UNCHANGED <<app, chain>> /\ events' = Delivered /\ task' = Idle
      /\ HandlerReturns => task.todo = << >> /\ shown' = Spread(Answers, shown)
      /\ HandlerFails => shown' = Nothing
  BY HandlerEnds
<1>2. task'.kind = "idle"
  BY <1>1, IdleTasks
<1> SUFFICES ASSUME NEW f \in Tracked PROVE FieldInv(f)'
  BY <1>1, FollowedStay DEF FieldsInv
<1>3. Coming(f) => Coming(f)'
  BY <1>1, <1>2, DeliveredComing
<1>4. \A w : Same(f, w) => Same(f, w)'
  BY <1>1, FieldStays
<1>5. FieldInv(f)
  BY DEF FieldsInv
<1>6. CASE HandlerFails
  BY <1>1, <1>2, <1>6 DEF FieldInv, Shows, Runs, Nothing
<1>7. CASE HandlerReturns
  <2> DEFINE answers == Answers
             new == Spread(answers, shown)
  <2>1. /\ DOMAIN answers = DOMAIN task.got \cup task.pending
        /\ \A g \in DOMAIN task.got : answers[g] = task.got[g]
        /\ \A g \in task.pending : g \notin DOMAIN task.got => answers[g] = chain[g]
    BY DEF Answers, Spread, Restrict
  <2> HIDE DEF answers
  <2>2. /\ DOMAIN new = DOMAIN answers \cup DOMAIN shown
        /\ \A g \in DOMAIN answers : new[g] = answers[g]
        /\ \A g \in DOMAIN shown : g \notin DOMAIN answers => new[g] = shown[g]
    BY SpreadIs
  <2>3. shown' = new
    BY <1>1, <1>7 DEF answers
  <2> HIDE DEF new
  <2>4. f \in task.pending => Same(f, chain[f])
    BY TrackedAre DEF TaskOK, ContractOK, Same
  <2>5. ~In(f, task.todo)
    BY <1>1, <1>7 DEF In
  <2> QED BY <1>1, <1>2, <1>3, <1>4, <1>5, <2>1, <2>2, <2>3, <2>4, <2>5 DEF FieldInv, Fresh, Same, Shows, Runs
<1> QED BY <1>6, <1>7

\* The answer that failed takes its field out of the store.
LEMMA OpeningFailsFields ==
    ASSUME ContractOK, TaskOK, FieldsInv, OpeningFails
    PROVE  FieldsInv'
<1>1. /\ task.kind = "init"
      /\ UNCHANGED <<app, chain, events>>
      /\ app = "lido" =>
            \E f \in task.pending :
               /\ task' = [kind |-> "init", todo |-> task.todo, pending |-> task.pending \ {f},
                           got |-> task.got, list |-> task.list]
               /\ shown' = Restrict(shown, DOMAIN shown \ {f})
      /\ app # "lido" => task' = Stopped /\ UNCHANGED shown
  BY OpeningFailsShape
<1> SUFFICES ASSUME NEW f \in Tracked PROVE FieldInv(f)'
  BY <1>1, FollowedStay DEF FieldsInv
<1>2. \A w : Same(f, w) => Same(f, w)'
  BY <1>1, FieldStays
<1>3. FieldInv(f)
  BY DEF FieldsInv
<1>4. CASE app # "lido"
  <2>1. task'.kind = "stopped"
    BY <1>1, <1>4, IdleTasks
  <2> QED BY <2>1 DEF FieldInv, Runs
<1>5. CASE app = "lido"
  <2>1. PICK lost \in task.pending :
           /\ task' = [kind |-> "init", todo |-> task.todo, pending |-> task.pending \ {lost},
                       got |-> task.got, list |-> task.list]
           /\ shown' = Restrict(shown, DOMAIN shown \ {lost})
    BY <1>1, <1>5
  <2>2. /\ task'.kind = "init" /\ task'.todo = task.todo /\ task'.got = task.got
        /\ task'.pending = task.pending \ {lost}
    BY <2>1
  <2>3. DOMAIN shown' = DOMAIN shown \ {lost} /\ \A g \in DOMAIN shown \ {lost} : shown'[g] = shown[g]
    BY <2>1, RestrictIs
  <2>4. Coming(f) => Coming(f)'
    BY <1>1, <2>2, ComingStays
  <2> QED BY <1>1, <1>2, <1>3, <2>2, <2>3, <2>4 DEF FieldInv, Fresh, Same, Shows, Runs
<1> QED BY <1>4, <1>5

\* All fields are read again.
LEMMA ReopenFields ==
    ASSUME ContractOK, TaskOK, FieldsInv, Reopen
    PROVE  FieldsInv'
<1>1. UNCHANGED <<app, chain, events, shown>> /\ task' = OpenTask(app) /\ app \in {"lido", "lidooracle", "registry"}
  BY ReopenShape DEF ContractOK
<1> SUFFICES ASSUME NEW f \in Tracked PROVE FieldInv(f)'
  BY <1>1, FollowedStay DEF FieldsInv
<1>2. f \in Fields
  BY <1>1, TrackedAre
<1>3. /\ task'.kind = "init" /\ task'.got = Nothing
      /\ f \in task'.pending \/ In(f, task'.todo)
  <2> DEFINE open == OpenTask(app)
  <2>1. /\ open = [kind |-> "init", todo |-> open.todo, pending |-> open.pending, got |-> Nothing,
                   list |-> NoList]
        /\ f \in open.pending \/ In(f, open.todo)
    BY <1>1, <1>2, OpenTaskIs
  <2>2. task' = open
    BY <1>1
  <2> HIDE DEF open
  <2> QED BY <2>1, <2>2
<1> QED BY <1>3 DEF FieldInv, Nothing, Runs

-----------------------------------------------------------------------------
(* The lists *)

\* Which application has the fields that are lists.
LEMMA FieldsAre ==
    ASSUME app \in {"lido", "lidooracle", "registry"}
    PROVE  /\ "nodeOperators" \in Fields <=> app = "registry"
           /\ "nodeOperatorsCount" \in Fields <=> app = "registry"
           /\ "currentReportVariants" \in Fields <=> app = "lidooracle"
BY DEF Fields, LidoFields, OracleFields

\* A handler reads fields of its own contract, and each contract has one list.
LEMMA NextReadIs ==
    ASSUME ContractOK, TaskOK, task.todo # << >>
    PROVE  /\ Runs /\ NextRead \in Fields
           /\ IsList(NextRead) => \/ app = "registry" /\ NextRead = "nodeOperators"
                                  \/ app = "lidooracle" /\ NextRead = "currentReportVariants"
<1>1. Runs /\ NextRead \in Fields
  BY TodoSteps DEF TaskOK, ContractOK, NextRead
<1> QED BY <1>1, FieldsAre DEF ContractOK, IsList

\* A store holds fields of its own contract only.
LEMMA NamesSteps ==
    ASSUME StoresInv, [Next]_vars
    PROVE  NamesInv'
<1>0. ContractOK /\ TaskOK /\ NamesInv
  BY DEF StoresInv
<1>1. CASE Transact
  <2>1. UNCHANGED <<app, shown>>
    BY <1>0, <1>1, TransactShape
  <2>2. PICK answered \in SUBSET task.pending :
           task' = [kind |-> task.kind, todo |-> task.todo, pending |-> task.pending \ answered,
                    got |-> Spread(Restrict(chain, answered), task.got), list |-> task.list]
    BY <1>0, <1>1, TransactShape
  <2>3. DOMAIN task'.got = answered \cup DOMAIN task.got
    BY <1>0, <2>2 DEF Spread, Restrict
  <2>4. task.pending \subseteq Fields
    BY <1>0 DEF TaskOK
  <2> QED BY <1>0, <2>1, <2>3, <2>4, TodosStay DEF NamesInv
<1>2. CASE TakeEvent
  <2>1. /\ UNCHANGED <<app, shown>>
        /\ UNCHANGED task \/ task'.got = Nothing
    BY <1>0, <1>2, TakeEventShape
  <2> QED BY <1>0, <2>1, TodosStay DEF NamesInv, Nothing
<1>3. ASSUME HandlerFrame, UNCHANGED calls, task.todo # << >>, NEW v, task' = Got(v) PROVE NamesInv'
  <2>1. task'.got = Spread([f \in {NextRead} |-> v], task.got)
    <3>1. task' = [kind |-> task.kind, todo |-> Tail(task.todo), pending |-> task.pending,
                   got |-> Spread([f \in {NextRead} |-> v], task.got), list |-> NoList]
      BY ONLY <1>0, <1>3, GotShape
    <3> QED BY <3>1
  <2>2. DOMAIN task'.got = {NextRead} \cup DOMAIN task.got
    BY <1>0, <2>1 DEF Spread
  <2> QED BY <1>0, <1>3, <2>2, NextReadIs, TodosStay DEF NamesInv, HandlerFrame
<1>4. CASE ReadField
  BY <1>0, <1>3, <1>4 DEF ReadField, HandlerFrame
<1>5. CASE EndList
  BY <1>0, <1>3, <1>5 DEF EndList, InList, HandlerFrame
<1>6. CASE StartList \/ ReadEntry
  <2>1. HandlerFrame /\ task'.got = task.got
    BY <1>0, <1>6, ListShape
  <2> QED BY <1>0, <2>1, TodosStay DEF NamesInv, HandlerFrame
<1>7. CASE HandlerReturns \/ HandlerFails
  <2>1. /\ UNCHANGED app /\ task'.got = Nothing
        /\ HandlerReturns => shown' = Spread(Answers, shown)
        /\ HandlerFails => shown' = Nothing
    BY <1>0, <1>7, HandlerEnds, IdleTasks
  <2>2. DOMAIN Spread(Answers, shown) \subseteq Fields
    BY <1>0 DEF Spread, Answers, Restrict, NamesInv, TaskOK
  <2> QED BY <1>0, <1>7, <2>1, <2>2, TodosStay DEF NamesInv, Nothing
<1>8. CASE OpeningFails
  <2>1. /\ UNCHANGED app
        /\ DOMAIN shown' \subseteq DOMAIN shown
        /\ task'.got = task.got \/ task'.got = Nothing
    <3>1. /\ UNCHANGED app
          /\ app = "lido" =>
                \E f \in task.pending :
                   /\ task' = [kind |-> "init", todo |-> task.todo, pending |-> task.pending \ {f},
                               got |-> task.got, list |-> task.list]
                   /\ shown' = Restrict(shown, DOMAIN shown \ {f})
          /\ app # "lido" => task' = Stopped /\ UNCHANGED shown
      BY <1>0, <1>8, OpeningFailsShape
    <3>2. CASE app = "lido"
      <4>1. PICK f \in task.pending :
               /\ task' = [kind |-> "init", todo |-> task.todo, pending |-> task.pending \ {f},
                           got |-> task.got, list |-> task.list]
               /\ shown' = Restrict(shown, DOMAIN shown \ {f})
        BY <3>1, <3>2
      <4>2. DOMAIN shown' = DOMAIN shown \ {f} /\ task'.got = task.got
        BY <4>1, RestrictIs
      <4> QED BY <3>1, <4>2
    <3>3. CASE app # "lido"
      BY <3>1, <3>3, IdleTasks
    <3> QED BY <3>1, <3>2, <3>3
  <2> QED BY <1>0, <2>1, TodosStay DEF NamesInv, Nothing
<1>9. CASE Reopen
  <2>1. UNCHANGED <<app, shown>> /\ task' = OpenTask(app)
    BY <1>0, <1>9, ReopenShape
  <2>2. task'.got = Nothing
    BY <1>0, <2>1, OpenTaskIs DEF ContractOK
  <2> QED BY <1>0, <2>1, <2>2, TodosStay DEF NamesInv, Nothing
<1>10. CASE UNCHANGED vars
  BY <1>0, <1>10, TodosStay DEF NamesInv, vars
<1> QED BY <1>1, <1>2, <1>4, <1>5, <1>6, <1>7, <1>8, <1>9, <1>10 DEF Next

\* What the handler that runs knows of the number of operators is up to date
\* when it begins to read them, unless an event waits that makes it read again.
LEMMA CountIsKnown ==
    ASSUME ContractOK, TaskOK, FieldsInv, app = "registry", task.todo # << >>, NextRead = "nodeOperators",
           KnowsCount
    PROVE  KnownCount = Len(Operators) \/ Coming("nodeOperators")
<1> DEFINE count == "nodeOperatorsCount"
<1>1. count \in FollowedFields /\ count \in Tracked /\ count # "nodeOperators"
  BY DEF FollowedFields, Tracked
<1>2. Coming(count) => Coming("nodeOperators")
  <2>1. \A event \in Events : In(count, ReadBy(app, event)) => In("nodeOperators", ReadBy(app, event))
    <3>1. \A event \in Events : In(count, Reads(event)) => In("nodeOperators", Reads(event))
      BY RegistryReadsAre DEF In
    <3> QED BY <3>1, ReadsIs
  <2>2. \A k \in DOMAIN events : events[k] \in Events
    BY DEF ContractOK
  <2> HIDE DEF count
  <2> QED BY <2>1, <2>2 DEF Coming
<1>3. Runs
  BY NextReadIs
<1>4. ~In(count, task.todo)
  <2>1. Tail(task.todo) = << >>
    BY TodoSteps DEF TaskOK, NextRead
  <2>2. In(count, task.todo) => count = NextRead \/ In(count, << >>)
    BY <2>1, TodoSteps DEF TaskOK, NextRead
  <2> QED BY <2>2 DEF In
<1>5. task.pending = {}
  BY DEF TaskOK
<1>6. FieldInv(count)
  BY <1>1 DEF FieldsInv
<1>7. chain[count] = Len(Operators)
  BY DEF ContractOK
<1> QED BY <1>1, <1>2, <1>3, <1>4, <1>5, <1>6, <1>7 DEF FieldInv, Fresh, Same, KnowsCount, KnownCount, Shows

\* How many entries a list is going to have.
LEMMA ListSizeIs ==
    /\ NextRead = "currentReportVariants" => ListSize = Len(Variants)
    /\ NextRead = "nodeOperators" => ListSize = KnownCount
BY DEF ListSize, KnownCount, Spread, Shows

\* A step that leaves alone what is known of the number.
LEMMA CountStays ==
    ASSUME UNCHANGED shown, "nodeOperatorsCount" \in DOMAIN task.got <=> "nodeOperatorsCount" \in DOMAIN task'.got,
           "nodeOperatorsCount" \in DOMAIN task.got =>
                task'.got["nodeOperatorsCount"] = task.got["nodeOperatorsCount"]
    PROVE  (KnowsCount' <=> KnowsCount) /\ KnownCount' = KnownCount
BY DEF KnowsCount, KnownCount, Shows

\* Nothing is claimed when no list is being read.
LEMMA NoListInv == task'.list = NoList => ListInv'
BY DEF ListInv

\* A transaction while a list is read: its entries are still the first ones, or the
\* list is going to be read again.
LEMMA TransactLists ==
    ASSUME ContractOK, TaskOK, ListInv, Transact
    PROVE  ListInv'
<1>1. PICK c : CallOK(c) /\ chain' = c.chain /\ events' = events \o c.events
  BY TransactShape
<1>2. PICK answered \in SUBSET task.pending :
         task' = [kind |-> task.kind, todo |-> task.todo, pending |-> task.pending \ answered,
                  got |-> Spread(Restrict(chain, answered), task.got), list |-> task.list]
  BY TransactShape
<1>3. UNCHANGED <<app, shown>>
  BY TransactShape
<1>4. /\ task'.kind = task.kind /\ task'.list = task.list
      /\ task'.got = Spread(Restrict(chain, answered), task.got)
  BY <1>2
<1>5. /\ \A f : Coming(f) => Coming(f)'
      /\ app = "lidooracle" => Variants' \in {Variants, << >>} \/ Coming("currentReportVariants")'
      /\ app = "registry" => SameParts(Operators') \/ Coming("nodeOperators")'
  BY <1>1, <1>3, <1>4, TransactComing
<1> SUFFICES ASSUME task'.list # NoList PROVE ListInv'
  BY NoListInv
<1>6. CASE app = "lido"
  BY <1>3, <1>6 DEF ListInv
<1>7. CASE app = "lidooracle"
  BY <1>3, <1>4, <1>5, <1>7 DEF ListInv
<1>8. CASE app = "registry"
  <2>1. task.pending = {}
    BY <1>8 DEF TaskOK
  <2>2. DOMAIN task'.got = DOMAIN task.got /\ \A f \in DOMAIN task.got : task'.got[f] = task.got[f]
    BY <1>4, <2>1 DEF Spread, Restrict
  <2>3. (KnowsCount' <=> KnowsCount) /\ KnownCount' = KnownCount
    BY <1>3, <2>2, CountStays
  <2>4. /\ task.list.entries \in Seq(AnOperator)
        /\ task.list.size = KnownCount
        /\ KnowsCount =>
              \/ Coming("nodeOperators")
              \/ /\ task.list.size = Len(Operators)
                 /\ Len(task.list.entries) <= Len(Operators)
                 /\ \A i \in DOMAIN task.list.entries : task.list.entries[i].followed = Operators[i].followed
    BY <1>4, <1>8 DEF ListInv
  <2>5. DOMAIN task.list.entries = 1..Len(task.list.entries) /\ Len(task.list.entries) \in Nat
    BY <2>4
  <2>6. SameParts(Operators') =>
          /\ Len(Operators') = Len(Operators)
          /\ \A i \in 1..Len(Operators) : Operators'[i].followed = Operators[i].followed
    <3>1. ContractOK'
      BY TransactShape
    <3>2. Operators' \in Seq(AnOperator)
      BY <3>1, <1>3, <1>8 DEF ContractOK
    <3> QED BY <3>2 DEF SameParts
  <2>7. Len(Operators) \in Nat
    BY <1>8 DEF ContractOK
  <2>8. KnowsCount =>
              \/ Coming("nodeOperators")'
              \/ /\ task.list.size = Len(Operators')
                 /\ Len(task.list.entries) <= Len(Operators')
                 /\ \A i \in DOMAIN task.list.entries : task.list.entries[i].followed = Operators'[i].followed
    BY <1>5, <1>8, <2>4, <2>5, <2>6, <2>7
  <2> QED BY <1>3, <1>4, <1>8, <2>3, <2>4, <2>8 DEF ListInv, Operators
<1> QED BY <1>6, <1>7, <1>8 DEF ContractOK

\* A list begins with a size that is right, or is going to be read again.
LEMMA StartListLists ==
    ASSUME ContractOK, TaskOK, FieldsInv, ListInv, StartList
    PROVE  ListInv'
<1>1. /\ HandlerFrame /\ task.todo # << >> /\ IsList(NextRead)
      /\ task' = [kind |-> task.kind, todo |-> task.todo, pending |-> task.pending,
                  got |-> task.got, list |-> task'.list]
      /\ task'.list = [size |-> ListSize, entries |-> << >>]
  BY ListShape
<1>2. UNCHANGED <<app, chain, events, shown>> /\ task'.got = task.got /\ task'.kind = task.kind
  BY <1>1 DEF HandlerFrame
<1>3. \A f : Coming(f) => Coming(f)'
  BY <1>2, ComingStays
<1>4. task'.list.size = ListSize /\ task'.list.entries = << >>
  BY <1>1
<1>5. CASE app = "registry" /\ NextRead = "nodeOperators"
  <2>1. KnowsCount => KnownCount = Len(Operators) \/ Coming("nodeOperators")
    BY <1>1, <1>5, CountIsKnown
  <2>2. (KnowsCount' <=> KnowsCount) /\ KnownCount' = KnownCount
    BY <1>2, CountStays
  <2>3. task'.list.size = KnownCount
    BY <1>4, <1>5, ListSizeIs
  <2>4. << >> \in Seq(AnOperator) /\ Len(<< >>) = 0 /\ DOMAIN << >> = {}
    OBVIOUS
  <2>5. 0 <= Len(Operators)
    BY <1>5 DEF ContractOK
  <2>6. Operators' = Operators
    BY <1>2 DEF Operators
  <2> QED BY <1>2, <1>3, <1>4, <1>5, <2>1, <2>2, <2>3, <2>4, <2>5, <2>6 DEF ListInv
<1>6. CASE app = "lidooracle" /\ NextRead = "currentReportVariants"
  <2>1. task'.list.size = Len(Variants)
    BY <1>4, <1>6, ListSizeIs
  <2>2. << >> \in Seq(Nat) /\ Len(<< >>) = 0 /\ DOMAIN << >> = {}
    OBVIOUS
  <2>3. 0 <= Len(Variants)
    BY <1>6 DEF ContractOK
  <2>4. Variants' = Variants
    BY <1>2 DEF Variants
  <2> QED BY <1>2, <1>4, <1>6, <2>1, <2>2, <2>3, <2>4 DEF ListInv
<1> QED BY <1>1, <1>5, <1>6, NextReadIs

\* A sequence with one more entry.
LEMMA AppendedEntry ==
    ASSUME NEW S, NEW s \in Seq(S), NEW v \in S
    PROVE  /\ Append(s, v) \in Seq(S) /\ Len(Append(s, v)) = Len(s) + 1
           /\ \A i \in DOMAIN Append(s, v) : Append(s, v)[i] = IF i = Len(s) + 1 THEN v ELSE s[i]
           /\ \A i \in DOMAIN Append(s, v) : i # Len(s) + 1 => i \in DOMAIN s
OBVIOUS

\* One more entry is the next of the contract's.
LEMMA ReadEntryLists ==
    ASSUME ContractOK, TaskOK, ListInv, ReadEntry
    PROVE  ListInv'
<1> DEFINE entries == task.list.entries
           read == chain[NextRead][Len(task.list.entries) + 1]
           next == Append(entries, read)
<1>1. /\ HandlerFrame /\ task.todo # << >> /\ IsList(NextRead)
      /\ task' = [kind |-> task.kind, todo |-> task.todo, pending |-> task.pending,
                  got |-> task.got, list |-> task'.list]
      /\ task.list # NoList
      /\ Len(entries) < task.list.size
      /\ Len(entries) < Len(chain[NextRead])
      /\ task'.list = [size |-> task.list.size, entries |-> next]
  BY ListShape
<1>2. UNCHANGED <<app, chain, events, shown>> /\ task'.got = task.got /\ task'.kind = task.kind
  BY <1>1 DEF HandlerFrame
<1>3. \A f : Coming(f) => Coming(f)'
  BY <1>2, ComingStays
<1>4. task'.list.size = task.list.size /\ task'.list.entries = next
  BY <1>1
<1>5. CASE app = "registry" /\ NextRead = "nodeOperators"
  <2>1. /\ entries \in Seq(AnOperator)
        /\ task.list.size = KnownCount
        /\ KnowsCount =>
              \/ Coming("nodeOperators")
              \/ /\ task.list.size = Len(Operators)
                 /\ Len(entries) <= Len(Operators)
                 /\ \A i \in DOMAIN entries : entries[i].followed = Operators[i].followed
    BY <1>1, <1>5 DEF ListInv
  <2>2. Operators \in Seq(AnOperator) /\ read = Operators[Len(entries) + 1] /\ Len(entries) < Len(Operators)
    BY <1>1, <1>5 DEF ContractOK, Operators
  <2> HIDE DEF entries, read
  <2>3. read \in AnOperator
    BY <2>1, <2>2
  <2>4. (KnowsCount' <=> KnowsCount) /\ KnownCount' = KnownCount
    BY <1>2, CountStays
  <2>5. /\ next \in Seq(AnOperator) /\ Len(next) = Len(entries) + 1
        /\ \A i \in DOMAIN next : next[i] = IF i = Len(entries) + 1 THEN read ELSE entries[i]
        /\ \A i \in DOMAIN next : i # Len(entries) + 1 => i \in DOMAIN entries
    BY <2>1, <2>3, AppendedEntry
  <2> HIDE DEF next
  <2>6. Operators' = Operators
    BY <1>2 DEF Operators
  <2>7. Len(entries) + 1 <= Len(Operators)
    BY <2>1, <2>2
  <2>8. KnowsCount =>
              \/ Coming("nodeOperators")
              \/ /\ task.list.size = Len(Operators)
                 /\ Len(next) <= Len(Operators)
                 /\ \A i \in DOMAIN next : next[i].followed = Operators[i].followed
    BY <2>1, <2>2, <2>5, <2>7
  <2> QED BY <1>2, <1>3, <1>4, <1>5, <2>1, <2>4, <2>5, <2>6, <2>8 DEF ListInv
<1>6. CASE app = "lidooracle" /\ NextRead = "currentReportVariants"
  <2>1. /\ entries \in Seq(Nat)
        /\ \/ Coming("currentReportVariants")
           \/ Variants = << >>
           \/ /\ task.list.size = Len(Variants)
              /\ Len(entries) <= Len(Variants)
              /\ \A i \in DOMAIN entries : entries[i] = Variants[i]
    BY <1>1, <1>6 DEF ListInv
  <2>2. Variants \in Seq(Nat) /\ read = Variants[Len(entries) + 1] /\ Len(entries) < Len(Variants)
    BY <1>1, <1>6 DEF ContractOK, Variants
  <2> HIDE DEF entries, read
  <2>3. read \in Nat
    BY <2>1, <2>2
  <2>5. /\ next \in Seq(Nat) /\ Len(next) = Len(entries) + 1
        /\ \A i \in DOMAIN next : next[i] = IF i = Len(entries) + 1 THEN read ELSE entries[i]
        /\ \A i \in DOMAIN next : i # Len(entries) + 1 => i \in DOMAIN entries
    BY <2>1, <2>3, AppendedEntry
  <2> HIDE DEF next
  <2>6. Variants' = Variants
    BY <1>2 DEF Variants
  <2>7. Len(entries) + 1 <= Len(Variants)
    BY <2>1, <2>2
  <2>8. \/ Coming("currentReportVariants")
        \/ Variants = << >>
        \/ /\ task.list.size = Len(Variants)
           /\ Len(next) <= Len(Variants)
           /\ \A i \in DOMAIN next : next[i] = Variants[i]
    BY <2>1, <2>2, <2>5, <2>7
  <2> QED BY <1>2, <1>3, <1>4, <1>6, <2>5, <2>6, <2>8 DEF ListInv
<1> QED BY <1>1, <1>5, <1>6, NextReadIs

\* The list that is read, after any step.
LEMMA ListSteps ==
    ASSUME StoresInv, [Next]_vars
    PROVE  ListInv'
<1>0. ContractOK /\ TaskOK /\ FieldsInv /\ ListInv
  BY DEF StoresInv
<1>1. CASE Transact
  BY <1>0, <1>1, TransactLists
<1>2. CASE TakeEvent
  <2>1. task = Idle /\ (UNCHANGED task \/ task'.list = NoList)
    BY <1>0, <1>2, TakeEventShape
  <2>2. task.list = NoList
    BY <2>1, IdleTasks
  <2> QED BY <2>1, <2>2, NoListInv
<1>3. CASE ReadField \/ EndList
  <2>1. task'.list = NoList
    BY <1>0, <1>3 DEF ReadField, EndList, Got, TaskOK
  <2> QED BY <2>1, NoListInv
<1>4. CASE StartList
  BY <1>0, <1>4, StartListLists
<1>5. CASE ReadEntry
  BY <1>0, <1>5, ReadEntryLists
<1>6. CASE HandlerReturns \/ HandlerFails
  <2>1. task' = Idle
    BY <1>0, <1>6, HandlerEnds
  <2>2. task'.list = NoList
    BY <2>1, IdleTasks
  <2> QED BY <2>2, NoListInv
<1>7. CASE OpeningFails
  <2>1. UNCHANGED app /\ (app # "lido" => task' = Stopped)
    BY <1>0, <1>7, OpeningFailsShape
  <2>2. app # "lido" => task'.list = NoList
    BY <2>1, IdleTasks
  <2>3. app = "lido" => ListInv'
    BY <2>1 DEF ListInv
  <2> QED BY <2>2, <2>3, NoListInv
<1>8. CASE Reopen
  <2>1. task' = OpenTask(app)
    BY <1>0, <1>8, ReopenShape
  <2>2. task'.list = NoList
    BY <1>0, <2>1, OpenTaskIs DEF ContractOK
  <2> QED BY <2>2, NoListInv
<1>9. CASE UNCHANGED vars
  BY <1>0, <1>9 DEF ListInv, vars, Variants, Operators, Coming, KnowsCount, KnownCount, Shows
<1> QED BY <1>1, <1>2, <1>3, <1>4, <1>5, <1>6, <1>7, <1>8, <1>9 DEF Next

-----------------------------------------------------------------------------
(* The operators of the registry *)

\* A transaction: the operators that were up to date are, or are going to be read.
LEMMA TransactSameOperators ==
    ASSUME ContractOK, TaskOK, app = "registry", Transact
    PROVE  \A v \in Seq(AnOperator) : SameOperators(v) => SameOperators(v)'
<1>1. PICK c : CallOK(c) /\ chain' = c.chain /\ events' = events \o c.events
  BY TransactShape
<1>2. UNCHANGED app /\ task'.kind = task.kind /\ ContractOK'
  BY TransactShape
<1>3. /\ \A f : Coming(f) => Coming(f)'
      /\ SameParts(Operators') \/ Coming("nodeOperators")'
  BY <1>1, <1>2, TransactComing
<1>4. Operators' \in Seq(AnOperator)
  BY <1>2 DEF ContractOK
<1>5. SameParts(Operators') =>
        /\ Len(Operators') = Len(Operators)
        /\ \A i \in 1..Len(Operators) : Operators'[i].followed = Operators[i].followed
  BY <1>4 DEF SameParts
<1> SUFFICES ASSUME NEW v \in Seq(AnOperator), SameOperators(v) PROVE SameOperators(v)'
  OBVIOUS
<1>6. DOMAIN v = 1..Len(v)
  OBVIOUS
<1> QED BY <1>3, <1>5, <1>6 DEF SameOperators

\* A transaction changes neither the store nor what the handler has read.
LEMMA TransactOperators ==
    ASSUME StoresInv, Transact
    PROVE  ShownOperatorsInv' /\ ReadOperatorsInv'
<1>0. ContractOK /\ TaskOK /\ ShownOperatorsInv /\ ReadOperatorsInv
  BY DEF StoresInv
<1>1. UNCHANGED <<app, shown>>
  BY <1>0, TransactShape
<1> SUFFICES ASSUME app = "registry" PROVE ShownOperatorsInv' /\ ReadOperatorsInv'
  BY <1>1 DEF ShownOperatorsInv, ReadOperatorsInv
<1>2. PICK answered \in SUBSET task.pending :
         task' = [kind |-> task.kind, todo |-> task.todo, pending |-> task.pending \ answered,
                  got |-> Spread(Restrict(chain, answered), task.got), list |-> task.list]
  BY <1>0, TransactShape
<1>3. task.pending = {}
  BY <1>0 DEF TaskOK
<1>4. /\ task'.kind = task.kind /\ task'.todo = task.todo
      /\ DOMAIN task'.got = DOMAIN task.got /\ \A f \in DOMAIN task.got : task'.got[f] = task.got[f]
  BY <1>2, <1>3 DEF Spread, Restrict
<1>5. (KnowsCount' <=> KnowsCount) /\ KnownCount' = KnownCount
  BY <1>1, <1>4, CountStays
<1>6. \A v \in Seq(AnOperator) : SameOperators(v) => SameOperators(v)'
  BY <1>0, TransactSameOperators
<1>7. ShownOperatorsInv'
  <2>1. Shows("nodeOperators") =>
          /\ shown.nodeOperators \in Seq(AnOperator)
          /\ task.kind = "idle" /\ Shows("nodeOperatorsCount") => SameOperators(shown.nodeOperators)
    BY <1>0 DEF ShownOperatorsInv
  <2> DEFINE v == shown.nodeOperators
  <2>2. v' = v
    BY <1>1
  <2>3. Shows("nodeOperators") /\ SameOperators(v) => SameOperators(v)'
    BY <1>6, <2>1, <2>2 DEF SameOperators
  <2> QED BY <1>1, <1>4, <2>1, <2>3 DEF ShownOperatorsInv, Shows
<1>8. ReadOperatorsInv'
  <2>1. Runs =>
        /\ task.todo = << >> <=> "nodeOperators" \in DOMAIN task.got
        /\ "nodeOperators" \in DOMAIN task.got =>
              /\ task.got.nodeOperators \in Seq(AnOperator)
              /\ Len(task.got.nodeOperators) = KnownCount
              /\ KnowsCount => SameOperators(task.got.nodeOperators)
    BY <1>0 DEF ReadOperatorsInv
  <2>2. "nodeOperators" \in DOMAIN task.got => task'.got.nodeOperators = task.got.nodeOperators
    BY <1>4
  <2>3. Runs /\ "nodeOperators" \in DOMAIN task.got /\ SameOperators(task.got.nodeOperators) =>
            SameOperators(task.got.nodeOperators)'
    BY <1>6, <2>1, <2>2 DEF SameOperators
  <2> QED BY <1>1, <1>4, <1>5, <2>1, <2>2, <2>3 DEF ReadOperatorsInv, Runs
<1> QED BY <1>7, <1>8

\* A handler starts with nothing read.
LEMMA TakeEventOperators ==
    ASSUME StoresInv, TakeEvent
    PROVE  ShownOperatorsInv' /\ ReadOperatorsInv'
<1>0. ContractOK /\ TaskOK /\ ShownOperatorsInv /\ ReadOperatorsInv
  BY DEF StoresInv
<1>1. /\ UNCHANGED <<app, chain, shown>>
      /\ task = Idle
      /\ \/ UNCHANGED task
         \/ /\ task' = [kind |-> "event", todo |-> Reads(Head(events)), pending |-> {},
                        got |-> Nothing, list |-> NoList]
            /\ Reads(Head(events)) # << >>
  BY <1>0, TakeEventShape
<1>2. task.kind = "idle"
  BY <1>1, IdleTasks
<1>3. CASE UNCHANGED task
  <2>1. Coming("nodeOperators") => Coming("nodeOperators")'
    BY <1>0, <1>2, <1>3, TakeEventComing
  <2>2. ReadOperatorsInv'
    BY <1>2, <1>3 DEF ReadOperatorsInv, Runs
  <2> QED BY <1>0, <1>1, <1>2, <1>3, <2>1, <2>2 DEF ShownOperatorsInv, Shows, SameOperators, Operators
<1>4. CASE /\ task' = [kind |-> "event", todo |-> Reads(Head(events)), pending |-> {},
                        got |-> Nothing, list |-> NoList]
           /\ Reads(Head(events)) # << >>
  <2>1. task'.kind = "event" /\ task'.todo # << >> /\ "nodeOperators" \notin DOMAIN task'.got
    BY <1>4 DEF Nothing
  <2> QED BY <1>0, <1>1, <2>1 DEF ShownOperatorsInv, ReadOperatorsInv, Shows
<1> QED BY <1>1, <1>3, <1>4

\* The handler goes on, and reads no operators or a part of them.
LEMMA OtherOperators ==
    ASSUME StoresInv, UNCHANGED <<app, chain, events, shown>>, task'.kind = task.kind, task.todo # << >>,
           app = "registry" => task'.todo # << >> /\ "nodeOperators" \notin DOMAIN task'.got
    PROVE  ShownOperatorsInv' /\ ReadOperatorsInv'
<1>0. ContractOK /\ TaskOK /\ ShownOperatorsInv
  BY DEF StoresInv
<1>1. Runs
  BY <1>0 DEF TaskOK
<1>2. ShownOperatorsInv'
  BY <1>0, <1>1 DEF ShownOperatorsInv, Shows, Runs
<1>3. ReadOperatorsInv'
  BY DEF ReadOperatorsInv
<1> QED BY <1>2, <1>3

\* A field that is no list is read: the operators are still to come.
LEMMA ReadFieldOperators ==
    ASSUME StoresInv, ReadField
    PROVE  ShownOperatorsInv' /\ ReadOperatorsInv'
<1>0. ContractOK /\ TaskOK /\ ReadOperatorsInv
  BY DEF StoresInv
<1>1. /\ UNCHANGED <<app, chain, events, shown, calls>> /\ task.todo # << >> /\ task' = Got(chain[NextRead])
      /\ ~IsList(NextRead)
  BY DEF ReadField
<1>2. task' = [kind |-> task.kind, todo |-> Tail(task.todo), pending |-> task.pending,
               got |-> Spread([f \in {NextRead} |-> chain[NextRead]], task.got), list |-> NoList]
  BY <1>0, <1>1, GotShape DEF HandlerFrame
<1>3. /\ task'.kind = task.kind /\ task'.todo = Tail(task.todo)
      /\ DOMAIN task'.got = {NextRead} \cup DOMAIN task.got
  BY <1>2 DEF Spread
<1>4. app = "registry" => Tail(task.todo) # << >> /\ NextRead # "nodeOperators"
  BY <1>0, <1>1, TodoSteps DEF TaskOK, ContractOK, NextRead, IsList
<1>5. app = "registry" => "nodeOperators" \notin DOMAIN task.got
  BY <1>0, <1>1, NextReadIs DEF ReadOperatorsInv
<1> QED BY <1>1, <1>3, <1>4, <1>5, OtherOperators

\* A part of the operators is not what the handler has read.
LEMMA ListOperators ==
    ASSUME StoresInv, StartList \/ ReadEntry
    PROVE  ShownOperatorsInv' /\ ReadOperatorsInv'
<1>0. ContractOK /\ TaskOK /\ ReadOperatorsInv
  BY DEF StoresInv
<1>1. /\ HandlerFrame /\ task.todo # << >>
      /\ task' = [kind |-> task.kind, todo |-> task.todo, pending |-> task.pending,
                  got |-> task.got, list |-> task'.list]
  BY <1>0, ListShape
<1>2. app = "registry" => "nodeOperators" \notin DOMAIN task.got
  BY <1>0, <1>1, NextReadIs DEF ReadOperatorsInv
<1>3. task'.kind = task.kind /\ task'.todo = task.todo /\ task'.got = task.got
  BY <1>1
<1> QED BY <1>1, <1>2, <1>3, OtherOperators DEF HandlerFrame

\* The list is complete: as many as the count that goes with it.
LEMMA EndListOperators ==
    ASSUME StoresInv, EndList
    PROVE  ShownOperatorsInv' /\ ReadOperatorsInv'
<1> DEFINE entries == task.list.entries
<1>0. ContractOK /\ TaskOK /\ ListInv /\ ShownOperatorsInv
  BY DEF StoresInv
<1>1. /\ UNCHANGED <<app, chain, events, shown, calls>> /\ task.todo # << >> /\ task' = Got(entries)
      /\ IsList(NextRead) /\ task.list # NoList /\ Len(entries) = task.list.size
  BY DEF EndList, InList
<1>2. task' = [kind |-> task.kind, todo |-> Tail(task.todo), pending |-> task.pending,
               got |-> Spread([f \in {NextRead} |-> entries], task.got), list |-> NoList]
  BY <1>0, <1>1, GotShape DEF HandlerFrame
<1>3. /\ task'.kind = task.kind /\ task'.todo = Tail(task.todo)
      /\ task'.got = Spread([f \in {NextRead} |-> entries], task.got)
  BY <1>2
<1> SUFFICES ASSUME app = "registry" PROVE ShownOperatorsInv' /\ ReadOperatorsInv'
  BY <1>1 DEF ShownOperatorsInv, ReadOperatorsInv
<1>4. Runs /\ NextRead = "nodeOperators"
  BY <1>0, <1>1, NextReadIs
<1>5. task'.todo = << >>
  BY <1>0, <1>1, <1>3, <1>4, TodoSteps DEF TaskOK, ContractOK, NextRead
<1>6. /\ DOMAIN task'.got = {"nodeOperators"} \cup DOMAIN task.got
      /\ task'.got["nodeOperators"] = entries
      /\ \A f \in DOMAIN task.got \ {"nodeOperators"} : task'.got[f] = task.got[f]
  BY <1>3, <1>4 DEF Spread
<1>7. (KnowsCount' <=> KnowsCount) /\ KnownCount' = KnownCount
  BY <1>1, <1>6, CountStays
<1>8. /\ entries \in Seq(AnOperator)
      /\ task.list.size = KnownCount
      /\ KnowsCount =>
            \/ Coming("nodeOperators")
            \/ /\ task.list.size = Len(Operators)
               /\ \A i \in DOMAIN entries : entries[i].followed = Operators[i].followed
  BY <1>0, <1>1 DEF ListInv
<1>9. Coming("nodeOperators") => Coming("nodeOperators")'
  BY <1>1, <1>3, ComingStays
<1>10. ShownOperatorsInv'
  BY <1>0, <1>1, <1>3, <1>4 DEF ShownOperatorsInv, Shows, Runs
<1>11. ReadOperatorsInv'
  <2>1. "nodeOperators" \in DOMAIN task'.got /\ task'.got.nodeOperators = entries
    BY <1>6
  <2>2. Len(entries) = KnownCount'
    BY <1>1, <1>7, <1>8
  <2>3. KnowsCount' =>
            \/ Coming("nodeOperators")'
            \/ /\ Len(entries) = Len(Operators')
               /\ \A i \in DOMAIN entries : entries[i].followed = Operators'[i].followed
    BY <1>1, <1>7, <1>8, <1>9 DEF Operators
  <2> HIDE DEF entries
  <2> QED BY <1>5, <1>8, <2>1, <2>2, <2>3 DEF ReadOperatorsInv, SameOperators
<1> QED BY <1>10, <1>11

\* A handler returns with the operators and as many as the count it leaves beside
\* them; or fails, and leaves neither.
LEMMA HandlerEndsOperators ==
    ASSUME StoresInv, HandlerReturns \/ HandlerFails
    PROVE  ShownOperatorsInv' /\ ReadOperatorsInv' /\ ListMatchesCount'
<1>0. ContractOK /\ TaskOK /\ NamesInv /\ ReadOperatorsInv
  BY DEF StoresInv
<1>1. /\ Runs /\ UNCHANGED <<app, chain>> /\ events' = Delivered /\ task' = Idle
      /\ HandlerReturns => task.todo = << >> /\ shown' = Spread(Answers, shown)
      /\ HandlerFails => shown' = Nothing
  BY <1>0, HandlerEnds
<1>2. task'.kind = "idle"
  BY <1>1, IdleTasks
<1>3. ReadOperatorsInv'
  BY <1>2 DEF ReadOperatorsInv, Runs
<1>4. CASE HandlerFails
  BY <1>1, <1>3, <1>4 DEF ShownOperatorsInv, ListMatchesCount, Shows, Nothing
<1>5. CASE HandlerReturns /\ app # "registry"
  <2>1. "nodeOperators" \notin Fields
    BY <1>0, <1>5, FieldsAre DEF ContractOK
  <2>2. "nodeOperators" \notin DOMAIN shown'
    BY <1>0, <1>1, <1>5, <2>1 DEF Spread, Answers, Restrict, NamesInv, TaskOK
  <2> QED BY <1>1, <1>3, <1>5, <2>2 DEF ShownOperatorsInv, ListMatchesCount, Shows
<1>6. CASE HandlerReturns /\ app = "registry"
  <2> DEFINE v == task.got.nodeOperators
  <2>1. task.pending = {}
    BY <1>0, <1>6 DEF TaskOK
  <2>2. /\ DOMAIN shown' = DOMAIN task.got \cup DOMAIN shown
        /\ \A f \in DOMAIN task.got : shown'[f] = task.got[f]
        /\ \A f \in DOMAIN shown : f \notin DOMAIN task.got => shown'[f] = shown[f]
    BY <1>1, <1>6, <2>1 DEF Spread, Answers, Restrict
  <2>3. /\ "nodeOperators" \in DOMAIN task.got
        /\ v \in Seq(AnOperator)
        /\ Len(v) = KnownCount
        /\ KnowsCount => SameOperators(v)
    BY <1>0, <1>1, <1>6 DEF ReadOperatorsInv
  <2>4. shown'.nodeOperators = v
    BY <2>2, <2>3
  <2>5. /\ Shows("nodeOperatorsCount")' <=> KnowsCount
        /\ KnownCount = IF Shows("nodeOperatorsCount")' THEN shown'.nodeOperatorsCount ELSE 0
    BY <2>2 DEF Shows, KnowsCount, KnownCount
  <2>6. Coming("nodeOperators") => Coming("nodeOperators")'
    BY <1>0, <1>1, <1>2, DeliveredComing
  <2>7. SameOperators(v) => Coming("nodeOperators")' \/
              (Len(v) = Len(Operators') /\ \A i \in DOMAIN v : v[i].followed = Operators'[i].followed)
    BY <1>1, <2>6 DEF SameOperators, Operators
  <2> HIDE DEF v
  <2>8. ShownOperatorsInv'
    BY <2>3, <2>4, <2>5, <2>7 DEF ShownOperatorsInv, SameOperators
  <2>9. ListMatchesCount'
    BY <2>3, <2>4, <2>5 DEF ListMatchesCount
  <2> QED BY <1>3, <2>8, <2>9
<1> QED BY <1>4, <1>5, <1>6

\* An opening that fails leaves the registry's store as it was.
LEMMA OpeningOperators ==
    ASSUME StoresInv, OpeningFails
    PROVE  ShownOperatorsInv' /\ ReadOperatorsInv' /\ ListMatchesCount'
<1>0. ContractOK /\ TaskOK /\ NamesInv /\ ShownOperatorsInv /\ ListMatchesCount
  BY DEF StoresInv
<1>1. /\ UNCHANGED <<app, chain, events>>
      /\ app = "lido" =>
            \E f \in task.pending : shown' = Restrict(shown, DOMAIN shown \ {f})
      /\ app # "lido" => task' = Stopped /\ UNCHANGED shown
  BY <1>0, OpeningFailsShape
<1>2. CASE app # "lido"
  <2>1. task'.kind = "stopped"
    BY <1>1, <1>2, IdleTasks
  <2> QED BY <1>0, <1>1, <1>2, <2>1 DEF ShownOperatorsInv, ReadOperatorsInv, ListMatchesCount, Shows, Runs
<1>3. CASE app = "lido"
  <2>1. "nodeOperators" \notin DOMAIN shown
    BY <1>0, <1>3, FieldsAre DEF NamesInv
  <2>2. "nodeOperators" \notin DOMAIN shown'
    BY <1>1, <1>3, <2>1 DEF Restrict
  <2> QED BY <1>1, <1>3, <2>2 DEF ShownOperatorsInv, ReadOperatorsInv, ListMatchesCount, Shows
<1> QED BY <1>2, <1>3

\* The page is opened again: the store is what was kept.
LEMMA ReopenOperators ==
    ASSUME StoresInv, Reopen
    PROVE  ShownOperatorsInv' /\ ReadOperatorsInv'
<1>0. ContractOK /\ TaskOK /\ ShownOperatorsInv
  BY DEF StoresInv
<1>1. UNCHANGED <<app, chain, events, shown>> /\ task' = OpenTask(app)
  BY <1>0, ReopenShape
<1>2. /\ task'.kind = "init" /\ task'.got = Nothing
      /\ app = "registry" => task'.todo # << >>
  <2> DEFINE open == OpenTask(app)
  <2>1. /\ open = [kind |-> "init", todo |-> open.todo, pending |-> open.pending, got |-> Nothing,
                   list |-> NoList]
        /\ app = "registry" => open.todo # << >>
    BY <1>0, OpenTaskIs DEF ContractOK
  <2>2. task' = open
    BY <1>1
  <2> HIDE DEF open
  <2> QED BY <2>1, <2>2
<1> QED BY <1>0, <1>1, <1>2 DEF ShownOperatorsInv, ReadOperatorsInv, Shows, Nothing

\* The operators of the store, after any step.
LEMMA OperatorsSteps ==
    ASSUME StoresInv, [Next]_vars
    PROVE  ShownOperatorsInv' /\ ReadOperatorsInv' /\ ListMatchesCount'
<1>0. ContractOK /\ TaskOK /\ ListMatchesCount /\ ShownOperatorsInv /\ ReadOperatorsInv
  BY DEF StoresInv
<1>1. UNCHANGED shown => ListMatchesCount'
  BY <1>0 DEF ListMatchesCount, Shows
<1>2. CASE Transact
  BY <1>0, <1>1, <1>2, TransactOperators, TransactShape
<1>3. CASE TakeEvent
  BY <1>0, <1>1, <1>3, TakeEventOperators, TakeEventShape
<1>4. CASE ReadField
  BY <1>1, <1>4, ReadFieldOperators DEF ReadField
<1>5. CASE StartList \/ ReadEntry
  BY <1>1, <1>5, ListOperators DEF StartList, ReadEntry
<1>6. CASE EndList
  BY <1>1, <1>6, EndListOperators DEF EndList
<1>7. CASE HandlerReturns \/ HandlerFails
  BY <1>7, HandlerEndsOperators
<1>8. CASE OpeningFails
  BY <1>8, OpeningOperators
<1>9. CASE Reopen
  BY <1>1, <1>9, ReopenOperators DEF Reopen
<1>10. CASE UNCHANGED vars
  BY <1>0, <1>1, <1>10 DEF ShownOperatorsInv, ReadOperatorsInv, vars, Shows, Runs, SameOperators, Operators,
                           Coming, KnowsCount, KnownCount
<1> QED BY <1>2, <1>3, <1>4, <1>5, <1>6, <1>7, <1>8, <1>9, <1>10 DEF Next

-----------------------------------------------------------------------------
(* The theorems *)

\* The fields of the store, after any step.
LEMMA FieldsSteps ==
    ASSUME StoresInv, [Next]_vars
    PROVE  FieldsInv'
<1>0. ContractOK /\ TaskOK /\ FieldsInv /\ ListInv
  BY DEF StoresInv
<1>1. CASE Transact
  BY <1>0, <1>1, TransactFields
<1>2. CASE TakeEvent
  BY <1>0, <1>2, TakeEventFields
<1>3. CASE ReadField
  <2>1. HandlerFrame /\ UNCHANGED calls /\ task.todo # << >> /\ task' = Got(chain[NextRead])
    BY <1>3 DEF ReadField, HandlerFrame
  <2>2. Fresh(NextRead, chain[NextRead])
    BY DEF Fresh, Same, Variants
  <2> QED BY <1>0, <2>1, <2>2, GotFields
<1>4. CASE StartList \/ ReadEntry
  BY <1>0, <1>4, ListFields
<1>5. CASE EndList
  <2> DEFINE entries == task.list.entries
  <2>1. /\ HandlerFrame /\ UNCHANGED calls /\ task.todo # << >> /\ task' = Got(entries)
        /\ IsList(NextRead) /\ task.list # NoList /\ Len(entries) = task.list.size
    BY <1>5 DEF EndList, InList, HandlerFrame
  <2>2. NextRead \in Tracked => Fresh(NextRead, entries)
    <3> SUFFICES ASSUME NextRead \in Tracked PROVE Fresh(NextRead, entries)
      OBVIOUS
    <3>1. app = "lidooracle" /\ NextRead = "currentReportVariants"
      BY <1>0, <2>1, NextReadIs, TrackedAre DEF ContractOK
    <3>2. /\ entries \in Seq(Nat)
          /\ \/ Coming("currentReportVariants")
             \/ Variants = << >>
             \/ /\ task.list.size = Len(Variants)
                /\ \A i \in DOMAIN entries : entries[i] = Variants[i]
      BY <1>0, <2>1, <3>1 DEF ListInv
    <3>3. Variants \in Seq(Nat)
      BY <1>0, <3>1 DEF ContractOK
    <3> HIDE DEF entries
    <3>4. Coming("currentReportVariants") \/ Variants = << >> \/ entries = Variants
      BY <2>1, <3>2, <3>3, SeqEqual
    <3>5. "currentReportVariants" \notin FollowedFields
      BY <1>0, <3>1, TrackedAre DEF ContractOK
    <3> QED BY <3>1, <3>4, <3>5 DEF Fresh, Same
  <2> HIDE DEF entries
  <2> QED BY <1>0, <2>1, <2>2, GotFields
<1>6. CASE HandlerReturns \/ HandlerFails
  BY <1>0, <1>6, HandlerEndsFields
<1>7. CASE OpeningFails
  BY <1>0, <1>7, OpeningFailsFields
<1>8. CASE Reopen
  BY <1>0, <1>8, ReopenFields
<1>9. CASE UNCHANGED vars
  BY <1>0, <1>9, FollowedStay DEF FieldsInv, FieldInv, Fresh, Same, Coming, Shows, Runs, vars, Variants
<1> QED BY <1>1, <1>2, <1>3, <1>4, <1>5, <1>6, <1>7, <1>8, <1>9 DEF Next

\* The contract and the task, after any step.
LEMMA ShapeSteps ==
    ASSUME StoresInv, [Next]_vars
    PROVE  ContractOK' /\ TaskOK'
<1>0. ContractOK /\ TaskOK
  BY DEF StoresInv
<1>1. CASE Transact
  BY <1>0, <1>1, TransactShape
<1>2. CASE TakeEvent
  BY <1>0, <1>2, TakeEventShape
<1>3. CASE ReadField
  BY <1>0, <1>3, GotShape DEF ReadField, HandlerFrame
<1>4. CASE StartList \/ ReadEntry
  BY <1>0, <1>4, ListShape
<1>5. CASE EndList
  BY <1>0, <1>5, GotShape DEF EndList, InList, HandlerFrame
<1>6. CASE HandlerReturns \/ HandlerFails
  BY <1>0, <1>6, HandlerEnds
<1>7. CASE OpeningFails
  BY <1>0, <1>7, OpeningFailsShape
<1>8. CASE Reopen
  BY <1>0, <1>8, ReopenShape
<1>9. CASE UNCHANGED vars
  BY <1>0, <1>9, TodosStay DEF ContractOK, TaskOK, vars, Variants, Operators, Runs, NextRead
<1> QED BY <1>1, <1>2, <1>3, <1>4, <1>5, <1>6, <1>7, <1>8, <1>9 DEF Next

\* An application that is opened for the first time shows nothing.
LEMMA InitStores == Init => StoresInv
<1> SUFFICES ASSUME Init PROVE StoresInv
  OBVIOUS
<1>1. /\ app \in {"lido", "lidooracle", "registry"}
      /\ chain = OldContract(app) /\ events = << >> /\ shown = Nothing /\ task = OpenTask(app) /\ calls = 0
  BY BoundsAssumption DEF Init
<1>2. ContractOK
  <2>1. CASE app = "lido"
    BY <1>1, <2>1 DEF ContractOK, OldContract, Zeroes, Fields
  <2>2. CASE app = "lidooracle"
    <3>1. chain = Spread([currentReportVariants |-> <<0>>], Zeroes(OracleFields))
      BY <1>1, <2>2 DEF OldContract
    <3>2. DOMAIN chain = Fields /\ Variants = <<0>>
      BY <2>2, <3>1 DEF Spread, Zeroes, Fields, Variants
    <3> QED BY <1>1, <2>2, <3>2 DEF ContractOK
  <2>3. CASE app = "registry"
    <3> DEFINE operator == [followed |-> 0, other |-> 0]
    <3>1. chain = [nodeOperatorsCount |-> 1, activeNodeOperatorsCount |-> 1, nodeOperators |-> <<operator>>]
      BY <1>1, <2>3 DEF OldContract
    <3>2. operator \in AnOperator
      BY DEF AnOperator
    <3> HIDE DEF operator
    <3>3. <<operator>> \in Seq(AnOperator) /\ Len(<<operator>>) = 1
      BY <3>2
    <3>4. Operators = <<operator>> /\ chain.nodeOperatorsCount = 1 /\ DOMAIN chain = Fields
      BY <2>3, <3>1 DEF Operators, Fields
    <3> QED BY <1>1, <2>3, <3>3, <3>4 DEF ContractOK
  <2> QED BY <1>1, <2>1, <2>2, <2>3
<1> DEFINE open == OpenTask(app)
<1>3. /\ open = [kind |-> "init", todo |-> open.todo, pending |-> open.pending, got |-> Nothing, list |-> NoList]
      /\ open.todo \in Todos
      /\ open.pending \subseteq IF app = "registry" THEN {} ELSE Fields \ {"currentReportVariants"}
      /\ \A f \in Fields : f \in open.pending \/ In(f, open.todo)
      /\ app = "registry" => open.todo # << >>
  BY <1>1, OpenTaskIs
<1>4. task = open
  BY <1>1
<1> HIDE DEF open
<1>5. TaskOK
  BY <1>1, <1>3, <1>4 DEF TaskOK, Runs, NoList
<1>6. NamesInv /\ ListMatchesCount /\ ShownOperatorsInv
  BY <1>1, <1>3, <1>4 DEF NamesInv, ListMatchesCount, ShownOperatorsInv, Shows, Nothing
<1>7. FieldsInv
  BY <1>1, <1>3, <1>4 DEF FieldsInv, FieldInv, Shows, Nothing
<1>8. ListInv /\ ReadOperatorsInv
  BY <1>3, <1>4 DEF ListInv, ReadOperatorsInv, Nothing
<1> QED BY <1>2, <1>5, <1>6, <1>7, <1>8 DEF StoresInv

\* The inductive invariant: what a store shows, and what its handler has read, is what
\* the contract holds or is read again by an event that waits.
THEOREM StoresAreTracked == Spec => []StoresInv
<1>1. StoresInv /\ [Next]_vars => StoresInv'
  BY ShapeSteps, NamesSteps, FieldsSteps, ListSteps, OperatorsSteps DEF StoresInv
<1> QED BY InitStores, <1>1, PTL DEF Spec

\* Once every event has been handled the stores of script.js show what the contracts
\* hold, whatever changed between the awaited reads, however many reads failed and
\* however often the page was reopened.
THEOREM StoresDrainedIsFresh == Spec => []DrainedIsFresh
<1>1. StoresInv => DrainedIsFresh
  <2> SUFFICES ASSUME StoresInv, Quiet PROVE DrainedIsFresh
    BY DEF DrainedIsFresh
  <2>1. /\ ContractOK /\ FieldsInv /\ ShownOperatorsInv /\ NamesInv
        /\ task.kind = "idle" /\ events = << >>
    BY IdleTasks DEF StoresInv, Quiet
  <2>2. \A f : ~Coming(f)
    BY <2>1 DEF Coming
  <2>3. ASSUME NEW f \in Tracked, Shows(f) PROVE Same(f, shown[f])
    BY <2>1, <2>2, <2>3 DEF FieldsInv, FieldInv, Fresh
  <2>4. \A f \in FollowedFields : Shows(f) => shown[f] = chain[f]
    BY <2>3 DEF Tracked, Same
  <2>5. Shows("nodeOperators") /\ Shows("nodeOperatorsCount") =>
            FollowedParts(shown.nodeOperators) = FollowedParts(Operators)
    <3> SUFFICES ASSUME Shows("nodeOperators"), Shows("nodeOperatorsCount")
                 PROVE  FollowedParts(shown.nodeOperators) = FollowedParts(Operators)
      OBVIOUS
    <3> DEFINE v == shown.nodeOperators
    <3>1. app = "registry"
      BY <2>1, FieldsAre DEF NamesInv, Shows, ContractOK
    <3>2. v \in Seq(AnOperator) /\ Operators \in Seq(AnOperator)
      BY <2>1, <3>1 DEF ShownOperatorsInv, ContractOK
    <3>3. Len(v) = Len(Operators) /\ \A i \in DOMAIN v : v[i].followed = Operators[i].followed
      BY <2>1, <2>2, <3>1 DEF ShownOperatorsInv, SameOperators
    <3> HIDE DEF v
    <3>4. DOMAIN v = DOMAIN Operators
      BY <3>2, <3>3
    <3>5. FollowedParts(v) = FollowedParts(Operators)
      BY <3>3, <3>4 DEF FollowedParts
    <3> QED BY <3>5 DEF v
  <2>6. Shows("currentReportVariants") =>
            shown.currentReportVariants = Variants \/ Variants = << >>
    <3>1. Shows("currentReportVariants") => app = "lidooracle"
      BY <2>1, FieldsAre DEF NamesInv, Shows, ContractOK
    <3> QED BY <2>3, <3>1 DEF Tracked, Same
  <2> QED BY <2>4, <2>5, <2>6 DEF DrainedIsFresh
<1> QED BY StoresAreTracked, <1>1, PTL

\* The operators of the registry's panel are at any moment as many as the count beside
\* them, since the handlers read the count before the operators.
THEOREM StoresListMatchesCount == Spec => []ListMatchesCount
<1>1. StoresInv => ListMatchesCount
  BY DEF StoresInv
<1> QED BY StoresAreTracked, <1>1, PTL
=============================================================================
