---------------------- MODULE DepositSecurityProperties ---------------------
(***************************************************************************)
(* What the committee of guardians must guarantee of the deposits.         *)
(***************************************************************************)
EXTENDS DepositSecurityModule, RegistryProperties

DSMTypeOK ==
    /\ RegistryTypeOK
    /\ guardians \in Seq(Addresses)
    /\ guardianIndicesOneBased \in [Addresses -> 0 .. Cardinality(Addresses)]
    /\ quorum \in Quorums \cup {0}
    /\ paused \in BOOLEAN
    /\ lastDepositBlock \in 0 .. MaxBlock
    /\ blockNumber \in 1 .. MaxBlock
    /\ depositRoot \in Nat

\* Whatever guardians come and go, the index of each is its place in the list:
\* the removed one never signs again and nobody else loses the right to.
GuardiansAreIndexed ==
    /\ \A i \in DOMAIN guardians : guardianIndicesOneBased[guardians[i]] = i
    /\ \A a \in Addresses : IsGuardian(a) => guardians[guardianIndicesOneBased[a]] = a

\* The keys of a deposit.
Deposited ==
    {k \in Ids \X Slots :
        k[2] \in operators[k[1]].used .. operators'[k[1]].used - 1}

\* Key by key, a deposit takes what a quorum of the guardians of the moment have
\* seen in that very slot, of a deposit contract that has not changed since.
DepositsAreVetted ==
    [][ Deposited # {} =>
          \E signers \in SUBSET {m \in attestations : m.depositRoot = depositRoot} :
            /\ Cardinality({m.signer : m \in signers}) >= quorum
            /\ \A m \in signers :
                 /\ \E i \in DOMAIN guardians : guardians[i] = m.signer
                 /\ \A k \in Deposited :
                      /\ k[1] \in DOMAIN m.keys
                      /\ k[2] \in DOMAIN m.keys[k[1]]
                      /\ m.keys[k[1]][k[2]] = operators[k[1]].keys[k[2]] ]_allVars

\* Deposits are stopped only by what a guardian of the moment decided, and not
\* before the validity period: an old decision that comes late, or comes again
\* after the owner resumed, is void, and so is that of a removed guardian.
PauseIsIntended ==
    [][ ~paused /\ paused' =>
          \E m \in pauseIntents :
            /\ \E i \in DOMAIN guardians : guardians[i] = m.signer
            /\ m.blockNumber + pauseIntentValidityPeriodBlocks >= blockNumber ]_allVars

=============================================================================
