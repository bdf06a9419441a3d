----------------------- MODULE DepositSecurityModule ------------------------
(***************************************************************************)
(* The committee of guardians that lets Lido deposit                       *)
(* (src/contracts/0.8.9/DepositSecurityModule.sol), composed with the      *)
(* registry it reads and whose keys the deposits take.                     *)
(*                                                                         *)
(* Guardians sign off the chain; a signed message may be sent by anybody,  *)
(* late, again or never.  The deposit contract is external: its root is    *)
(* the number of deposits in it.  The owner is not identified, and the     *)
(* registry that is read is the one Lido takes the keys from.              *)
(***************************************************************************)
EXTENDS NodeOperatorsRegistry

CONSTANTS
    Addresses,          \* ordered as numbers, like the addresses of Ethereum
    BLOCKHASH_WINDOW,   \* blocks whose hash blockhash() still knows, 256
    Quorums,            \* values the owner may choose from
    Distances,
    Validities,
    MaxDepositsChoices,
    LastDepositBlocks,
    MaxBlock,           \* bound: block number
    MaxRoot,            \* bound: deposits in the deposit contract
    MaxIndex,           \* bound: keysOpIndex, before it wraps around
    MaxMessages         \* bound: signed messages

ASSUME DSMAssumption ==
    /\ Addresses \subseteq Nat \ {0}
    /\ Distances \cup Validities \cup {BLOCKHASH_WINDOW} \subseteq Nat \ {0}
    /\ Quorums \cup MaxDepositsChoices \cup LastDepositBlocks \subseteq Nat
    /\ {MaxBlock, MaxRoot, MaxMessages} \subseteq Nat
    /\ MaxKeys < WORD              \* no call adds a whole turn to the index
    /\ MaxIndex \in 0 .. WORD - 2   \* nor does a deposit end one

VARIABLES
    guardians,                          \* the list
    guardianIndicesOneBased,            \* position in the list, 0 for none
    quorum,
    paused,
    lastDepositBlock,
    maxDepositsPerBlock,
    minDepositBlockDistance,
    pauseIntentValidityPeriodBlocks,
    blockNumber,                        \* block.number
    depositRoot,                        \* get_deposit_root() of the deposit contract
    attestations,                       \* attest messages the guardians signed
    pauseIntents                        \* pause messages the guardians signed

committeeVars == <<guardians, guardianIndicesOneBased, quorum>>
limitVars == <<maxDepositsPerBlock, minDepositBlockDistance, pauseIntentValidityPeriodBlocks>>
chainVars == <<blockNumber, depositRoot>>
messageVars == <<attestations, pauseIntents>>
dsmVars == <<committeeVars, limitVars, chainVars, messageVars, paused, lastDepositBlock>>
allVars == <<registryVars, dsmVars>>

IsGuardian(a) == guardianIndicesOneBased[a] > 0

\* The keys a deposit may take, in their slots.
UnusedKeys ==
    [id \in Ids |-> [s \in operators[id].used .. operators[id].total - 1 |->
                        operators[id].keys[s]]]

InitDSM ==
    /\ Init
    /\ guardians = <<>>
    /\ guardianIndicesOneBased = [a \in Addresses |-> 0]
    /\ quorum = 0
    /\ paused = FALSE
    /\ lastDepositBlock = 0
    /\ maxDepositsPerBlock \in MaxDepositsChoices
    /\ minDepositBlockDistance \in Distances
    /\ pauseIntentValidityPeriodBlocks \in Validities
    /\ blockNumber = 1
    /\ depositRoot = 0
    /\ attestations = {}
    /\ pauseIntents = {}

-----------------------------------------------------------------------------
(* The owner *)

\* Each address is pushed behind the last; one guardian twice reverts them all.
AddGuardians(new, newQuorum) ==
    /\ \A i \in DOMAIN new : ~IsGuardian(new[i])
    /\ \A i, j \in DOMAIN new : new[i] = new[j] => i = j
    /\ guardians' = guardians \o new
    /\ guardianIndicesOneBased' =
         [a \in Addresses |-> IF \E i \in DOMAIN new : new[i] = a
                              THEN Len(guardians) + CHOOSE i \in DOMAIN new : new[i] = a
                              ELSE guardianIndicesOneBased[a]]
    /\ quorum' = newQuorum
    /\ UNCHANGED <<registryVars, limitVars, chainVars, messageVars, paused, lastDepositBlock>>

\* Mutant: the index of the guardian that is moved is not updated.
RemoveGuardian_Forgetful(addr, newQuorum) ==
    LET index == guardianIndicesOneBased[addr]
        last == Len(guardians)
    IN  /\ index # 0
        /\ guardians' = SubSeq([guardians EXCEPT ![index] = guardians[last]], 1, last - 1)
        /\ guardianIndicesOneBased' = [guardianIndicesOneBased EXCEPT ![addr] = 0]
        /\ quorum' = newQuorum
        /\ UNCHANGED <<registryVars, limitVars, chainVars, messageVars, paused, lastDepositBlock>>

\* The last guardian of the list takes the place of the removed one.
RemoveGuardian(addr, newQuorum) ==
    LET index == guardianIndicesOneBased[addr]
        last == Len(guardians)
    IN  /\ index # 0
        /\ guardians' = SubSeq([guardians EXCEPT ![index] = guardians[last]], 1, last - 1)
        /\ guardianIndicesOneBased' =
             [guardianIndicesOneBased EXCEPT ![guardians[last]] = index, ![addr] = 0]
        /\ quorum' = newQuorum
        /\ UNCHANGED <<registryVars, limitVars, chainVars, messageVars, paused, lastDepositBlock>>

SetGuardianQuorum(newQuorum) ==
    /\ quorum' = newQuorum
    /\ UNCHANGED <<registryVars, guardians, guardianIndicesOneBased, limitVars, chainVars,
                   messageVars, paused, lastDepositBlock>>

SetLimits ==
    /\ \/ /\ maxDepositsPerBlock' \in MaxDepositsChoices
          /\ UNCHANGED <<minDepositBlockDistance, pauseIntentValidityPeriodBlocks>>
       \/ /\ minDepositBlockDistance' \in Distances
          /\ UNCHANGED <<maxDepositsPerBlock, pauseIntentValidityPeriodBlocks>>
       \/ /\ pauseIntentValidityPeriodBlocks' \in Validities
          /\ UNCHANGED <<maxDepositsPerBlock, minDepositBlockDistance>>
    /\ UNCHANGED <<registryVars, committeeVars, chainVars, messageVars, paused, lastDepositBlock>>

UnpauseDeposits ==
    /\ paused' = FALSE
    /\ UNCHANGED <<registryVars, committeeVars, limitVars, chainVars, messageVars, lastDepositBlock>>

SetLastDepositBlock(b) ==
    /\ lastDepositBlock' = b
    /\ UNCHANGED <<registryVars, committeeVars, limitVars, chainVars, messageVars, paused>>

-----------------------------------------------------------------------------
(* The guardians, off the chain *)

MayBeSigned == Cardinality(attestations) + Cardinality(pauseIntents) < MaxMessages

\* A guardian that finds no fault with the unused keys signs what it saw; `keys'
\* is not in the message, it is what the signature vouches for.
Attest(g) ==
    /\ IsGuardian(g)
    /\ MayBeSigned
    /\ attestations' = attestations \cup
         {[signer |-> g, depositRoot |-> depositRoot, keysOpIndex |-> keysOpIndex,
           blockNumber |-> blockNumber, keys |-> UnusedKeys]}
    /\ UNCHANGED <<registryVars, committeeVars, limitVars, chainVars, pauseIntents, paused,
                   lastDepositBlock>>

\* A guardian wants the deposits stopped: it sends the call itself or signs a
\* message for somebody to send; either may reach the chain much later.
SignPauseIntent(g) ==
    /\ IsGuardian(g)
    /\ MayBeSigned
    /\ pauseIntents' = pauseIntents \cup {[signer |-> g, blockNumber |-> blockNumber]}
    /\ UNCHANGED <<registryVars, committeeVars, limitVars, chainVars, attestations, paused,
                   lastDepositBlock>>

-----------------------------------------------------------------------------
(* Pausing *)

\* Mutant: only messages about the future are refused.
NotExpired_Ever(b) == b <= blockNumber + pauseIntentValidityPeriodBlocks

\* The subtraction reverts for a block of the future.
NotExpired(b) ==
    /\ b <= blockNumber
    /\ blockNumber - b <= pauseIntentValidityPeriodBlocks

\* pauseDeposits returns at once when deposits are paused.
PauseDeposits(intent) ==
    /\ ~paused
    /\ IsGuardian(intent.signer)
    /\ NotExpired(intent.blockNumber)
    /\ paused' = TRUE
    /\ UNCHANGED <<registryVars, committeeVars, limitVars, chainVars, messageVars, lastDepositBlock>>

-----------------------------------------------------------------------------
(* Depositing *)

\* blockhash() knows the last blocks only, and not the one being made.
HashKnown(b) == b < blockNumber /\ blockNumber - b <= BLOCKHASH_WINDOW

\* canDeposit and the guards of depositBufferedEther; the subtraction reverts.
CanDeposit ==
    /\ ~paused
    /\ quorum > 0
    /\ lastDepositBlock <= blockNumber
    /\ blockNumber - lastDepositBlock >= minDepositBlockDistance

Signed(a, root, index, b) ==
    \E m \in attestations : /\ m.signer = a
                            /\ m.depositRoot = root
                            /\ m.keysOpIndex = index
                            /\ m.blockNumber = b

\* Mutant: the signer need not be a guardian any more.
VerifySignatures_Anybody(root, index, b, signers) ==
    \A i \in DOMAIN signers :
        /\ Signed(signers[i], root, index, b)
        /\ i > 1 => signers[i] > signers[i - 1]

\* The signatures are those of guardians, in ascending order.
VerifySignatures(root, index, b, signers) ==
    \A i \in DOMAIN signers :
        /\ Signed(signers[i], root, index, b)
        /\ IsGuardian(signers[i])
        /\ i > 1 => signers[i] > signers[i - 1]

\* Lido deposits what its buffer is enough for, up to the maximum: `n' keys are
\* asked for, as many deposits as keys are found follow.
LidoDepositBufferedEther(n) ==
    /\ n <= maxDepositsPerBlock
    /\ IF n = 0
       THEN UNCHANGED <<registryVars, depositRoot>>
       ELSE /\ AssignNextSigningKeys(n)
            /\ depositRoot' = depositRoot + SupplyOf([id \in Ids |-> operators'[id].used])
                                          - SupplyOf([id \in Ids |-> operators[id].used])

\* The message is about the root and the index of the moment.
DepositBufferedEther(index, b, signers, n) ==
    /\ CanDeposit
    /\ Len(signers) >= quorum
    /\ HashKnown(b)
    /\ index = keysOpIndex
    /\ VerifySignatures(depositRoot, index, b, signers)
    /\ LidoDepositBufferedEther(n)
    /\ lastDepositBlock' = blockNumber
    /\ UNCHANGED <<committeeVars, limitVars, blockNumber, messageVars, paused>>

-----------------------------------------------------------------------------
(* The environment *)

\* Anybody may deposit directly.
DirectDeposit ==
    /\ depositRoot < MaxRoot
    /\ depositRoot' = depositRoot + 1
    /\ UNCHANGED <<registryVars, committeeVars, limitVars, blockNumber, messageVars, paused,
                   lastDepositBlock>>

NextBlock ==
    /\ blockNumber < MaxBlock
    /\ blockNumber' = blockNumber + 1
    /\ UNCHANGED <<registryVars, committeeVars, limitVars, depositRoot, messageVars, paused,
                   lastDepositBlock>>

SignerLists == UNION {[1 .. n -> Addresses] : n \in 0 .. Cardinality(Addresses)}

NextDSM ==
    \/ Operation /\ keysOpIndex' \in keysOpIndex .. MaxIndex /\ UNCHANGED dsmVars
    \/ \E q \in Quorums :
          \/ \E a, b \in Addresses : AddGuardians(<<a>>, q) \/ AddGuardians(<<a, b>>, q)
          \/ \E a \in Addresses : RemoveGuardian(a, q)
          \/ SetGuardianQuorum(q)
    \/ SetLimits
    \/ UnpauseDeposits
    \/ \E b \in LastDepositBlocks : SetLastDepositBlock(b)
    \/ \E g \in Addresses : Attest(g) \/ SignPauseIntent(g)
    \/ \E intent \in pauseIntents : PauseDeposits(intent)
    \/ \E index \in 0 .. MaxIndex, b \in 0 .. MaxBlock, signers \in SignerLists, n \in 0 .. MaxAssigned :
          DepositBufferedEther(index, b, signers, n)
    \/ DirectDeposit
    \/ NextBlock

SpecDSM == InitDSM /\ [][NextDSM]_allVars

=============================================================================
