-------------------------- MODULE ReportReceivers ---------------------------
(***************************************************************************)
(* Who is called after a report: the burner, alone or in the list of the   *)
(* composite receiver (src/contracts/0.8.9/CompositePostRebaseBeacon-      *)
(* Receiver.sol), with the holders and the wrapper of the token beside it. *)
(*                                                                         *)
(* The report of LidoOracle._push is one transaction.  It is followed here *)
(* call by call, and nothing else happens meanwhile; a call that reverts   *)
(* takes the whole report back.                                            *)
(***************************************************************************)
EXTENDS SelfOwnedStETHBurner, WstETH, OrderedCallbacksArray

CONSTANTS
    OtherCallback,         \* a callback of which nothing is known
    Composite, NoReceiver, \* values of the oracle's receiver, with the burner
    PooledValues, FeeShares, Amounts,  \* inputs
    MaxShares              \* bound: shares ever minted

ASSUME ReceiversAssumption ==
    /\ Wrapper \notin {Burner, Voting}
    /\ Burner \notin Wrappers
    /\ PooledValues \cup FeeShares \cup Amounts \cup AllowanceValues \subseteq Nat
    /\ MaxShares \in Nat

VARIABLES
    pooledEther,   \* what the shares stand for, after the last report
    receiver,      \* BEACON_REPORT_RECEIVER_POSITION
    callbacks,     \* the list of the composite receiver
    report         \* the report in progress: the calls left, and the state before

vars == <<tokenVars, active, burnerVars, wstETH, pooledEther, receiver, callbacks, report>>

Holders == {Voting} \cup Wrappers
Callbacks == {Burner, OtherCallback}

NoReport == [calls |-> << >>]
InReport == report # NoReport

\* Everything a report may change.
ReportState ==
    [shares |-> shares, totalShares |-> totalShares, pooledEther |-> pooledEther,
     requested |-> requestVars, burnt |-> burntVars]

-----------------------------------------------------------------------------
Init ==
    /\ shares \in [Accounts -> Amounts \cup {0}]
    /\ \A a \in Accounts : shares[a] > 0 <=> a \in Holders
    /\ totalShares = SupplyOf(shares)
    /\ allowances = [o \in Accounts |-> [s \in Accounts |-> 0]]
    /\ active = TRUE
    /\ pooledEther = totalShares
    /\ BurnerInit
    /\ WstETHInit
    /\ receiver = NoReceiver
    /\ callbacks = << >>
    /\ report = NoReport

TypeOK ==
    /\ StETHTypeOK
    /\ BurnerTypeOK
    /\ wstETH \in [Wrappers -> Nat]
    /\ pooledEther \in Nat
    /\ receiver \in {NoReceiver, Burner, Composite}
    /\ callbacks \in Seq(Callbacks) /\ Len(callbacks) <= MAX_CALLBACKS_COUNT
    /\ report.calls \in Seq(Callbacks)

-----------------------------------------------------------------------------
(* Holders and the wrapper *)

HolderStep ==
    /\ \/ \E from \in Holders, to \in Accounts, amount \in Amounts :
             Transfer(from, to, amount, pooledEther) /\ UNCHANGED wstETH
       \/ \E owner \in Holders, amount \in AllowanceValues :
             /\ Approve(owner, IF owner = Voting THEN Burner ELSE Wrapper, amount)
             /\ UNCHANGED wstETH
       \/ \E u \in Wrappers, amount \in Amounts : Wrap(u, amount, pooledEther)
       \/ \E u \in Wrappers, n \in 1 .. MaxShares : Unwrap(u, n, pooledEther)
       \/ \E u, v \in Wrappers, n \in 1 .. MaxShares : TransferWstETH(u, v, n)
    /\ UNCHANGED <<burnerVars, pooledEther, receiver, callbacks, report>>

StakeAndWrap ==
    /\ \E u \in Wrappers, value \in Amounts :
          /\ totalShares + Burnt + SubmittedShares(value, pooledEther) <= MaxShares
          /\ Receive(u, value, pooledEther)
          /\ pooledEther' = pooledEther + value
    /\ UNCHANGED <<burnerVars, receiver, callbacks, report>>

-----------------------------------------------------------------------------
(* The burner *)

BurnerStep ==
    /\ \/ \E quota \in Quotas : SetBurnAmountPerRunQuota(quota)
       \/ \E amount \in Amounts, isCover \in BOOLEAN : RequestBurn(amount, isCover, pooledEther)
       \/ RecoverExcessStETH(pooledEther)
    /\ UNCHANGED <<wstETH, pooledEther, receiver, callbacks, report>>

-----------------------------------------------------------------------------
(* Votes on the receiver and on the list of the composite *)

SetBeaconReportReceiver(r) ==
    /\ receiver' = r
    /\ UNCHANGED callbacks

\* addCallback inserts after the last one.
InsertCallback(c, atIndex) ==
    /\ MayInsert(callbacks, atIndex)
    /\ callbacks' = Inserted(callbacks, c, atIndex)
    /\ UNCHANGED receiver

RemoveCallback(atIndex) ==
    /\ MayRemove(callbacks, atIndex)
    /\ callbacks' = Removed(callbacks, atIndex)
    /\ UNCHANGED receiver

ReceiverStep ==
    /\ \/ \E r \in {NoReceiver, Burner, Composite} : SetBeaconReportReceiver(r)
       \/ \E c \in Callbacks, i \in 0 .. MAX_CALLBACKS_COUNT : InsertCallback(c, i)
       \/ \E i \in 0 .. MAX_CALLBACKS_COUNT : RemoveCallback(i)
    /\ UNCHANGED <<tokenVars, active, burnerVars, wstETH, pooledEther, report>>

-----------------------------------------------------------------------------
(* A report *)

\* Lido counts the ether and mints its fee, if there are rewards; what is left
\* are the calls of the receiver, in the order of its list.
Report ==
    LET calls == CASE receiver = NoReceiver -> << >>
                   [] receiver = Burner -> <<Burner>>
                   [] receiver = Composite -> callbacks
    IN  /\ \E pooled \in PooledValues, fee \in FeeShares :
              /\ fee > 0 => pooled > pooledEther
              /\ totalShares + Burnt + fee <= MaxShares
              /\ pooledEther' = pooled
              /\ MintShares(Treasury, fee)
        /\ report' = IF calls = << >> THEN NoReport
                     ELSE [calls |-> calls, before |-> ReportState]
        /\ UNCHANGED <<allowances, active, burnerVars, wstETH, receiver, callbacks>>

CalledNext(c) == InReport /\ Head(report.calls) = c

Called ==
    report' = IF Tail(report.calls) = << >> THEN NoReport
              ELSE [report EXCEPT !.calls = Tail(@)]

\* The burner's caller is the oracle, or the receiver that it has set.
CallBurner ==
    /\ CalledNext(Burner)
    /\ ProcessLidoOracleReport(TRUE)
    /\ Called
    /\ UNCHANGED <<wstETH, pooledEther, receiver, callbacks>>

CallOther ==
    /\ CalledNext(OtherCallback)
    /\ Called
    /\ UNCHANGED <<tokenVars, active, burnerVars, wstETH, pooledEther, receiver, callbacks>>

\* A callback that reverts takes the report with it.
ReportReverts ==
    /\ CalledNext(OtherCallback) \/ (CalledNext(Burner) /\ ProcessReverts(TRUE))
    /\ LET before == report.before
       IN  /\ shares' = before.shares
           /\ totalShares' = before.totalShares
           /\ pooledEther' = before.pooledEther
           /\ coverSharesBurnRequested' = before.requested[1]
           /\ nonCoverSharesBurnRequested' = before.requested[2]
           /\ totalCoverSharesBurnt' = before.burnt[1]
           /\ totalNonCoverSharesBurnt' = before.burnt[2]
    /\ report' = NoReport
    /\ UNCHANGED <<allowances, active, maxBurnAmountPerRunBasisPoints, wstETH, receiver, callbacks>>

-----------------------------------------------------------------------------
Next ==
    \/ ~InReport /\ (HolderStep \/ StakeAndWrap \/ BurnerStep \/ ReceiverStep \/ Report)
    \/ CallBurner
    \/ CallOther
    \/ ReportReverts

Spec == Init /\ [][Next]_vars

-----------------------------------------------------------------------------
(* Properties *)

\* The burner holds every share that was asked to be burnt, however the amounts
\* were rounded, whatever excess anybody recovers, between the calls of a
\* report and after one that was taken back: burnShares never reverts for the
\* burner, and the burner is never what keeps a report from coming in.
RequestsAreHeld ==
    /\ Requested <= shares[Burner]
    /\ CalledNext(Burner) => ~ProcessReverts(TRUE)

\* Each run burns what it says, within its part of the shares there are at that
\* moment (also when the list has the burner twice), no other request before
\* every cover, and leaves requests only when it has used its part up.
BurnsFollowQuota ==
    [][CallBurner =>
        LET burnt == Burnt' - Burnt
        IN  /\ totalShares - totalShares' = burnt
            /\ Requested - Requested' = burnt
            /\ burnt * MAX_BASIS_POINTS <= totalShares * maxBurnAmountPerRunBasisPoints
            /\ totalNonCoverSharesBurnt' > totalNonCoverSharesBurnt => coverSharesBurnRequested' = 0
            /\ Requested' > 0 =>
                  (burnt + 1) * MAX_BASIS_POINTS > totalShares * maxBurnAmountPerRunBasisPoints]_vars

\* The wrapper holds a share for each unit of the wrapped token, though wrap and
\* unwrap convert an amount twice, rounding down.
WrapperIsCovered == SupplyOf(wstETH) <= shares[Wrapper]

\* The list after a change is the one before, in its order, with one callback
\* more or one less: the shifts in place neither lose nor repeat an entry.
CallbacksKeepOrder ==
    [][/\ Len(callbacks') > Len(callbacks) =>
            \E i \in DOMAIN callbacks', c \in Callbacks : callbacks' = InsertAt(callbacks, i, c)
       /\ Len(callbacks') < Len(callbacks) =>
            \E i \in DOMAIN callbacks : callbacks' = RemoveAt(callbacks, i)
       /\ Len(callbacks') = Len(callbacks) => callbacks' = callbacks]_vars
=============================================================================
