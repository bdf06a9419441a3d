----------------------------- MODULE AppStores ------------------------------
(***************************************************************************)
(* The stores of the three Aragon applications (script.js of apps/lido,    *)
(* apps/lidooracle and apps/node-operators-registry): a copy of a          *)
(* contract, kept by handlers that re-read some fields on some events.     *)
(*                                                                         *)
(* A handler awaits one call after the other, and the contract changes in  *)
(* between.  A handler that fails returns nothing, so that the whole copy  *)
(* is lost.  The library hands the events over one at a time, each after   *)
(* the previous handler has returned, and keeps the copy and the events    *)
(* that were not handled when the application is opened again.             *)
(*                                                                         *)
(* A value of the contract is the number of the call that wrote it.        *)
(***************************************************************************)
EXTENDS Integers, Sequences, Functions

CONSTANTS
    \* The applications whose stores are looked at.
    Apps,
    \* Bounds: contract calls, calls to the node that fail, reopenings.
    MaxCalls, MaxFailures, MaxReopened

ASSUME BoundsAssumption ==
    /\ Apps \subseteq {"lido", "lidooracle", "registry"}
    /\ {MaxCalls, MaxFailures, MaxReopened} \subseteq Nat

VARIABLES
    app,      \* the application
    chain,    \* its contract: what the store may read
    events,   \* the events that no handler has seen yet
    shown,    \* the store's state: the fields it holds and their values
    task,     \* the handler that runs
    calls, failures, reopened

vars == <<app, chain, events, shown, task, calls, failures, reopened>>

Nothing == << >>
Stamp == calls + 1

\* {...under, ...over}
Spread(over, under) ==
    [f \in DOMAIN over \cup DOMAIN under |-> IF f \in DOMAIN over THEN over[f] ELSE under[f]]

-----------------------------------------------------------------------------
(* The handlers: what an event makes the store read, in this order *)

LidoReads(event) ==
    CASE event \in {"Stopped", "Resumed"} -> <<"isStopped">>
      [] event = "FeeSet" -> <<"fee">>
      [] event = "FeeDistributionSet" -> <<"feeDistribution">>
      [] event = "WithdrawalCredentialsSet" -> <<"withdrawalCredentials">>
      [] event = "ELRewardsWithdrawalLimitSet" -> <<"elRewardsWithdrawalLimit">>
      [] event = "ELRewardsVaultSet" -> <<"elRewardsVault">>
      [] event = "Unbuffered" -> <<"bufferedEther">>
      [] event \in {"StakingPaused", "StakingResumed", "StakingLimitSet", "StakingLimitRemoved"} ->
            <<"stakingLimitInfo">>
      [] OTHER -> << >>

OracleReads(event) ==
    CASE event \in {"MemberAdded", "MemberRemoved"} -> <<"oracleMembers">>
      [] event = "QuorumChanged" -> <<"quorum">>
      [] event = "ExpectedEpochIdUpdated" -> <<"expectedEpochId">>
      [] event = "AllowedBeaconBalanceAnnualRelativeIncreaseSet" ->
            <<"allowedBeaconBalanceAnnualRelativeIncrease">>
      [] event = "AllowedBeaconBalanceRelativeDecreaseSet" -> <<"allowedBeaconBalanceRelativeDecrease">>
      [] event = "UI:UpdateFrame" -> <<"currentFrame">>
      [] event = "BeaconReportReceiverSet" -> <<"beaconReportReceiver">>
      [] event = "BeaconReported" -> <<"currentReportVariants", "currentOraclesReportStatus">>
      [] event = "ContractVersionSet" -> <<"version">>
      [] OTHER -> << >>

\* Mutant: the operators are read before their new number is.
RegistryReads_ListFirst(event) ==
    CASE event = "NodeOperatorAdded" ->
            <<"nodeOperators", "nodeOperatorsCount", "activeNodeOperatorsCount">>
      [] event = "NodeOperatorActiveSet" -> <<"activeNodeOperatorsCount", "nodeOperators">>
      [] event \in {"SigningKeyAdded", "NodeOperatorStakingLimitSet"} -> <<"nodeOperators">>
      [] OTHER -> << >>

RegistryReads(event) ==
    CASE event = "NodeOperatorAdded" ->
            <<"nodeOperatorsCount", "activeNodeOperatorsCount", "nodeOperators">>
      [] event = "NodeOperatorActiveSet" -> <<"activeNodeOperatorsCount", "nodeOperators">>
      [] event \in {"SigningKeyAdded", "NodeOperatorStakingLimitSet"} -> <<"nodeOperators">>
      [] OTHER -> << >>

Reads(event) ==
    CASE app = "lido" -> LidoReads(event)
      [] app = "lidooracle" -> OracleReads(event)
      [] app = "registry" -> RegistryReads(event)

-----------------------------------------------------------------------------
(* The contracts: the fields a call writes and the events it emits *)

\* A call writes the fields fs and emits es.
Call(fs, es) ==
    [chain |-> [f \in DOMAIN chain |-> IF f \in fs THEN Stamp ELSE chain[f]], events |-> es]

Field(f, event) == Call({f}, <<event>>)

\* Those of Lido; a stake only adds to the buffer and has no event with a
\* handler, nor has a report.  The remaining limit, which ages with every
\* block, is not followed: stakingLimitInfo is the setting.
LidoCalls ==
    { Call({"isStopped", "stakingLimitInfo"}, <<"Stopped", "StakingPaused">>),
      Call({"isStopped", "stakingLimitInfo"}, <<"Resumed", "StakingResumed">>),
      Field("fee", "FeeSet"),
      Field("feeDistribution", "FeeDistributionSet"),
      Field("withdrawalCredentials", "WithdrawalCredentialsSet"),
      Field("elRewardsVault", "ELRewardsVaultSet"),
      Field("elRewardsWithdrawalLimit", "ELRewardsWithdrawalLimitSet"),
      Field("stakingLimitInfo", "StakingLimitSet"),
      Field("bufferedEther", "Unbuffered"),
      Call({"bufferedEther", "totalPooledEther"}, <<"Submitted">>),
      Call({"bufferedEther", "totalPooledEther", "beaconStat"}, << >>) }

Variants == chain.currentReportVariants

\* c with the variants vs, and with no reports when there are none.
WithVariants(c, vs) ==
    [c EXCEPT !.chain.currentReportVariants = vs,
              !.chain.currentOraclesReportStatus = Stamp]

\* A push clears the reports and goes on to the next frame.
Pushed(c) ==
    [WithVariants(c, << >>) EXCEPT
        !.chain.expectedEpochId = Stamp,
        !.chain.lastCompletedReportDelta = Stamp,
        !.events = c.events \o <<"Completed", "ExpectedEpochIdUpdated">>]

SetQuorumCalls ==
    LET changed == Field("quorum", "QuorumChanged")
    IN  {changed} \cup {c \in {Pushed(changed)} : Variants # << >>}

\* A report is one more for a variant, or a new variant, of the expected
\* epoch or of a later one; any may decide.
ReportCalls ==
    LET reported == Call({}, <<"BeaconReported">>)
        advanced == Call({"expectedEpochId"}, <<"ExpectedEpochIdUpdated", "BeaconReported">>)
    IN  { WithVariants(reported, [Variants EXCEPT ![i] = Stamp]) : i \in DOMAIN Variants }
        \cup { WithVariants(reported, Append(Variants, Stamp)),
               WithVariants(advanced, <<Stamp>>),
               Pushed(reported), Pushed(advanced) }

\* The frame follows the time; the button of the panel asks for it.
OracleCalls ==
    { Field("oracleMembers", "MemberAdded"),
      WithVariants(Field("oracleMembers", "MemberRemoved"), << >>),
      Field("allowedBeaconBalanceAnnualRelativeIncrease", "AllowedBeaconBalanceAnnualRelativeIncreaseSet"),
      Field("allowedBeaconBalanceRelativeDecrease", "AllowedBeaconBalanceRelativeDecreaseSet"),
      Field("beaconReportReceiver", "BeaconReportReceiverSet"),
      Field("version", "ContractVersionSet"),
      Call({"currentFrame"}, << >>),
      Call({}, <<"UI:UpdateFrame">>) }
    \cup SetQuorumCalls \cup ReportCalls

Operators == chain.nodeOperators

\* A call leaves these operators, and emits es.
WithOperators(c, operators) == [c EXCEPT !.chain.nodeOperators = operators]

\* An operator in the parts whose changes have a handler (activity, limit,
\* keys added) and the other ones (name, address, stopped validators, keys
\* removed, trimmed or used).
Followed(i) == [Operators EXCEPT ![i].followed = Stamp]
Other(i) == [Operators EXCEPT ![i].other = Stamp]

AddOperator ==
    LET c == WithOperators(Call({"activeNodeOperatorsCount"}, <<"NodeOperatorAdded">>),
                           Append(Operators, [followed |-> Stamp, other |-> Stamp]))
    IN  [c EXCEPT !.chain.nodeOperatorsCount = Len(Operators) + 1]

OperatorCalls(i) ==
    { WithOperators(Call({"activeNodeOperatorsCount"}, <<"NodeOperatorActiveSet">>), Followed(i)),
      WithOperators(Call({}, <<"NodeOperatorStakingLimitSet">>), Followed(i)),
      WithOperators(Call({}, <<"SigningKeyAdded", "SigningKeyAdded">>), Followed(i)),
      WithOperators(Call({}, <<"SigningKeyRemoved">>), Other(i)),
      WithOperators(Call({}, << >>), Other(i)) }

RegistryCalls == {AddOperator} \cup UNION {OperatorCalls(i) : i \in DOMAIN Operators}

ContractCalls ==
    CASE app = "lido" -> LidoCalls
      [] app = "lidooracle" -> OracleCalls
      [] app = "registry" -> RegistryCalls

-----------------------------------------------------------------------------
(* What an application reads when it is opened *)

LidoFields ==
    {"isStopped", "fee", "feeDistribution", "withdrawalCredentials", "elRewardsWithdrawalLimit",
     "elRewardsVault", "bufferedEther", "totalPooledEther", "nodeOperatorsRegistry",
     "depositContract", "oracle", "operators", "treasury", "insuranceFund", "beaconStat",
     "stakingLimitInfo"}

OracleFields ==
    {"oracleMembers", "quorum", "currentFrame", "expectedEpochId", "currentOraclesReportStatus",
     "allowedBeaconBalanceAnnualRelativeIncrease", "allowedBeaconBalanceRelativeDecrease",
     "beaconReportReceiver", "lastCompletedReportDelta", "version"}

Zeroes(fs) == [f \in fs |-> 0]

\* The contract when the application is first opened: the oracle has a report
\* and the registry an operator.
OldContract(a) ==
    CASE a = "lido" -> Zeroes(LidoFields)
      [] a = "lidooracle" -> Spread([currentReportVariants |-> <<0>>], Zeroes(OracleFields))
      [] a = "registry" -> [nodeOperatorsCount |-> 1, activeNodeOperatorsCount |-> 1,
                            nodeOperators |-> <<[followed |-> 0, other |-> 0]>>]

NoList == [size |-> -1, entries |-> << >>]

\* A handler: what is left to read one after the other, what was asked for all
\* at once and has not been answered, and what has been read.
Task(kind, todo, pending) ==
    [kind |-> kind, todo |-> todo, pending |-> pending, got |-> Nothing, list |-> NoList]

Idle == Task("idle", << >>, {})
Stopped == Task("stopped", << >>, {})

\* initializeState
\* Promise.allSettled and Promise.all: only the variants take several calls, one
\* after the other; the registry's reads wait for each other.
OpenTask(a) ==
    CASE a = "lido" -> Task("init", << >>, LidoFields)
      [] a = "lidooracle" -> Task("init", <<"currentReportVariants">>, OracleFields)
      [] a = "registry" ->
            Task("init", <<"nodeOperatorsCount", "activeNodeOperatorsCount", "nodeOperators">>, {})

-----------------------------------------------------------------------------
Init ==
    /\ app \in Apps
    /\ chain = OldContract(app)
    /\ events = << >>
    /\ shown = Nothing
    /\ task = OpenTask(app)
    /\ calls = 0
    /\ failures = 0
    /\ reopened = 0

\* A transaction.  What was asked for and changes now has been answered
\* before, with the old value, or is answered later.
Transact ==
    /\ calls < MaxCalls
    /\ \E c \in ContractCalls :
          /\ chain' = c.chain
          /\ events' = events \o c.events
          /\ \E answered \in SUBSET {f \in task.pending : c.chain[f] # chain[f]} :
                task' = [task EXCEPT !.pending = @ \ answered,
                                     !.got = Spread(Restrict(chain, answered), @)]
    /\ calls' = calls + 1
    /\ UNCHANGED <<app, shown, failures, reopened>>

\* A handler starts with the next event, which counts as delivered when the
\* handler ends; an event without a handler leaves the store as it is.
TakeEvent ==
    /\ task = Idle
    /\ events # << >>
    /\ LET todo == Reads(Head(events))
       IN  IF todo = << >>
           THEN events' = Tail(events) /\ UNCHANGED task
           ELSE task' = Task("event", todo, {}) /\ UNCHANGED events
    /\ UNCHANGED <<app, chain, shown, calls, failures, reopened>>

Delivered == IF task.kind = "event" THEN Tail(events) ELSE events

NextRead == Head(task.todo)

IsList(f) == f \in {"currentReportVariants", "nodeOperators"}

\* task after the value v of its next field.
Got(v) == [task EXCEPT !.todo = Tail(task.todo), !.got = Spread([f \in {NextRead} |-> v], @), !.list = NoList]

\* getQuorum, getFee, ...: one call, one answer.
ReadField ==
    /\ task.todo # << >>
    /\ ~IsList(NextRead)
    /\ task' = Got(chain[NextRead])
    /\ UNCHANGED <<app, chain, events, shown, calls, failures, reopened>>

\* The number of entries: getCurrentReportVariants asks for it;
\* getNodeOperators is told, by this handler's answer or by the store, and
\* reads no entry if neither has one.
ListSize ==
    LET known == Spread(task.got, shown)
    IN  IF NextRead = "currentReportVariants" THEN Len(Variants)
        ELSE IF "nodeOperatorsCount" \in DOMAIN known THEN known.nodeOperatorsCount
        ELSE 0

StartList ==
    /\ task.todo # << >>
    /\ IsList(NextRead)
    /\ task.list = NoList
    /\ task' = [task EXCEPT !.list.size = ListSize]
    /\ UNCHANGED <<app, chain, events, shown, calls, failures, reopened>>

InList == task.todo # << >> /\ IsList(NextRead) /\ task.list # NoList

\* An entry after the last one makes the call revert (HandlerFails).
ReadEntry ==
    /\ InList
    /\ Len(task.list.entries) < task.list.size
    /\ Len(task.list.entries) < Len(chain[NextRead])
    /\ task' = [task EXCEPT !.list.entries = Append(@, chain[NextRead][Len(@) + 1])]
    /\ UNCHANGED <<app, chain, events, shown, calls, failures, reopened>>

EndList ==
    /\ InList
    /\ Len(task.list.entries) = task.list.size
    /\ task' = Got(task.list.entries)
    /\ UNCHANGED <<app, chain, events, shown, calls, failures, reopened>>

\* What a handler has read when every answer has come.
Answers == Spread(task.got, Restrict(chain, task.pending))

\* Mutant: {field: answer, ..., ...nextState}.
HandlerReturns_KeepsOld ==
    /\ task.kind \in {"init", "event"}
    /\ task.todo = << >>
    /\ shown' = Spread(shown, Answers)
    /\ events' = Delivered
    /\ task' = Idle
    /\ UNCHANGED <<app, chain, calls, failures, reopened>>

\* {...nextState, field: answer, ...}
HandlerReturns ==
    /\ task.kind \in {"init", "event"}
    /\ task.todo = << >>
    /\ shown' = Spread(Answers, shown)
    /\ events' = Delivered
    /\ task' = Idle
    /\ UNCHANGED <<app, chain, calls, failures, reopened>>

EntryIsGone ==
    /\ InList
    /\ Len(chain[NextRead]) <= Len(task.list.entries)
    /\ Len(task.list.entries) < task.list.size

\* A call reverts, or the node does not answer it.
CallFails ==
    \/ EntryIsGone /\ UNCHANGED failures
    \/ failures < MaxFailures /\ failures' = failures + 1

\* What was caught is logged, and nothing is returned.
HandlerFails ==
    /\ task.kind = "event"
    /\ CallFails
    /\ shown' = Nothing
    /\ events' = Delivered
    /\ task' = Idle
    /\ UNCHANGED <<app, chain, calls, reopened>>

\* Lido's initializeState goes on without the answer that failed; the other
\* two are rejected, and the store does not start.
OpeningFails ==
    /\ task.kind = "init"
    /\ CallFails
    /\ IF app = "lido"
       THEN \E f \in task.pending :
               /\ task' = [task EXCEPT !.pending = @ \ {f}]
               /\ shown' = Restrict(shown, DOMAIN shown \ {f})
       ELSE task' = Stopped /\ UNCHANGED shown
    /\ UNCHANGED <<app, chain, events, calls, reopened>>

\* The page is closed and opened again, with the copy that was kept and the
\* events that were not delivered.
Reopen ==
    /\ reopened < MaxReopened
    /\ reopened' = reopened + 1
    /\ task' = OpenTask(app)
    /\ UNCHANGED <<app, chain, events, shown, calls, failures>>

Next ==
    \/ Transact
    \/ TakeEvent \/ ReadField \/ StartList \/ ReadEntry \/ EndList \/ HandlerReturns
    \/ HandlerFails \/ OpeningFails
    \/ Reopen

Spec == Init /\ [][Next]_vars
=============================================================================
