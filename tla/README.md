# Lido on TLA+

A verification development for the Lido protocol contracts (`src/contracts/`):
modules that model the contracts, TLC runs that check small instances of them,
and proofs, checked by TLAPS, of what holds for every instance.

Paths below are relative to the repository (`src/`); modules are in this
directory. `PROJECT.json` maps every definition to the lines it models.

## 1. The system

Stakers give ether to **Lido** and get stETH, a token whose balances are shares
of all the pooled ether. Lido deposits the ether in portions of 32 with signing
keys it takes from the **NodeOperatorsRegistry**; the **LidoOracle** committee
reports what became of it on the beacon chain, which changes every balance at
once and mints a fee out of a profit. Rewards of the execution layer collect in
a **vault** that each report empties in part. The **DepositSecurityModule** lets
a committee of guardians gate deposits; the **SelfOwnedStETHBurner** burns shares
at a report; **WstETH** wraps the rebasing token in one of constant balances.

On the chain a transaction is atomic and calls are synchronous, so the concurrency of
the contracts is the *interleaving of transactions* of many callers: stakers, holders,
spenders, governance, members of committees, operators. Failure is the *revert*, which
undoes a whole transaction. Time is `block.number` (the rate limit, the security
module) and `block.timestamp` (the oracle's frames). What may be late, repeated or out
of order are the reports and attestations of committees.

Off the chain it is different. The scripts keep a file between runs, stop half way, and
write transactions and votes that others send later, twice or never; between two scripts
a human copies a hash or an address. The stores of the applications await one call after
another while the contract goes on, and a call may fail.

| Component | State | Operations | Talks to |
|---|---|---|---|
| StETH, Pausable (`0.4.24/StETH.sol`) | shares, their total, allowances, a stop flag | transfers of tokens and shares, approvals, mint, burn | inherited by Lido |
| Stake limit (`0.4.24/lib/StakeLimitUtils.sol`) | one packed slot: block and value of the last limit, maximum, blocks of a full restoration | set, remove, pause, resume, consume | inherited state of Lido |
| Lido (`0.4.24/Lido.sol`) | buffered ether, deposited and seen validators, beacon balance, total of rewards, settings | submit, depositBufferedEther, handleOracleReport, receiveELRewards, transferToVault, burnShares, every setting | registry (keys, division of rewards), vault, deposit contract; called by the oracle |
| ELRewardsVault (`0.8.9/LidoExecutionLayerRewardsVault.sol`) | its ether | receive, withdrawRewards, recoveries | Lido |
| LidoOracle (`0.4.24/oracle/`) | members, quorum, frames, expected and last epoch, bits and counts of reports, bounds | reportBeacon, add and remove members, setQuorum, setBeaconSpec, setAllowed... | pushes to Lido, then calls the receiver |
| NodeOperatorsRegistry (`0.4.24/nos/`) | operators with counters, limits and keys; number of active ones; index of operations | add, switch, limit, stop, add keys, remove keys, trim, assign | called by Lido; its index is read by the security module |
| DepositSecurityModule (`0.8.9/`) | guardians, quorum, pause, last deposit block | depositBufferedEther, pause, unpause, settings | Lido, registry, deposit contract |
| SelfOwnedStETHBurner (`0.8.9/`) | requested and burnt shares, quota of a run | requests, processLidoOracleReport, recoveries | Lido; called by the oracle |
| Composite receiver (`0.8.9/CompositePostRebaseBeaconReceiver.sol`, `OrderedCallbacksArray.sol`) | list of callbacks | add, insert, remove, process | oracle, burner |
| WstETH (`0.6.12/WstETH.sol`) | balances | wrap, unwrap, receive | Lido |
| LidoTemplate (`0.4.24/template/LidoTemplate.sol`) | the registry, the DAO and its permissions while they are made | deployLidoAPM, createStdAragonRepos, createRepos, newDAO, issueTokens, finalizeDAO | Aragon's ACL, kernel, registry, token manager |
| Deployment scripts (`scripts/multisig/01` to `11`) | the network state file, files with transactions | a script each | the template, through a multisig that sends what was saved |
| Setup scripts (`scripts/multisig/12` to `31`, `upgrade-app`, `vote-and-enact`, `checks/`) | the same file, saved calls and votes | a script each | the DAO, through Voting |
| Local deployment (`scripts/deploy-*.js`, `components/`) | the network state file | a script each | the chain, whose transactions they send |
| Application stores (`apps/*/app/src/script.js`) | a copy of a contract | handlers of events | the contract, by calls they await |
| deposit_contract, byte and signature helpers, panels of the applications, gas tools | - | - | not modelled (section 8) |

What makes each of them correct, and is hard to test:

* **Token**: the books agree whatever moves, to oneself too, and however the fee
  is divided; a spender costs the owner no more than the allowance, though the
  allowance is in tokens and what moves is rounded shares.
* **Rate limit**: settings, pauses and stakes in any order never grant more than
  configured.
* **Lido**: the ether is always in exactly one place (buffered, in flight, on the
  beacon chain, unaccounted); the fee is paid out of profit alone; newcomers
  dilute nobody; operations of governance never reach a claim.
* **Oracle**: only what a quorum of the members of the moment reported, for one
  epoch, is pushed; epochs only advance, also when frames change; a frame with
  enough honest members completes.
* **Registry**: used keys are final, no empty key is ever deposited, assignment is
  fair and complete, counters keep their order, and the index of operations tells
  a guardian whatever matters for its attestation.
* **Security module**: a deposit takes keys that a quorum of the guardians of the
  moment have seen in their slots; only a recent decision pauses.
* **Receivers of a report**: what is requested to be burnt is held, is burnt once,
  cover first, and within the quota; a list of callbacks keeps its order; the wrapper
  always has the shares it owes.
* **Deployment**: whatever is run again, sent late or twice, or copied by a human with
  a mistake, a finalized DAO runs the code that was verified, vests every token once
  and leaves no permission behind; a setup has one depositor and one burner; the check
  of the DAO means what it says. A local deployment that stopped is completed.
* **Stores**: once every event was handled, what is shown is what the contract holds.

## 2. Modules

| Module | Models | Correspondence |
|---|---|---|
| `Supply` | - | the sum of a function over a finite set |
| `StETH` | StETH.sol | `shares`, `totalShares`, `allowances`, `active` (the stop flag of Pausable). `SharesByPooledEth` and `PooledEthByShares` round as the code divides. The total of pooled ether is virtual in the code; here it is a parameter. |
| `StakeLimitUtils` | the library | functions from the packed struct to the struct; integers keep their width (`UINT32_MAX`, `UINT96_MAX`) |
| `StakingRateLimit` | the use Lido makes of it | `staking` (the slot) and `blockNumber` |
| `StakingRateLimitHistory` | - | adds what was accepted and granted since the limit was chosen |
| `Lido` | Lido.sol with the vault | EXTENDS the two above: `contract Lido is StETH, Pausable`. A transaction is an action: `HandleOracleReport` is the call with the withdrawal of rewards, the mint and the three transfers of the fee |
| `RebasingPool` | - | the abstract pool of claims that `Lido` implements |
| `LidoProperties` | - | properties and the refinement mapping |
| `LidoOracle` | LidoOracle.sol, ReportUtils.sol | `members` is the sequence, a report's bit is a position in it, `variants` are the packed reports with their counts |
| `LidoOracleHistory` | - | adds `ballots`: who reported what for the expected epoch |
| `NodeOperatorsRegistry` | NodeOperatorsRegistry.sol | operators by position; the keys of an operator are slots of which the first `total` count, as in the code's mapping by offset |
| `RegistryProperties` | - | its properties |
| `DepositSecurityModule` | DepositSecurityModule.sol | EXTENDS the registry. `attestations` and `pauseIntents` are the messages guardians signed; anybody sends them, late or again. The root of the deposit contract is the number of deposits in it |
| `DepositSecurityProperties` | - | its properties, over the registry's |
| `OrderedCallbacksArray`, `SelfOwnedStETHBurner`, `WstETH` | the contracts of these names | operators and actions over the token of `StETH`; the shifting of the list is the code's, position by position |
| `ReportReceivers` | the end of `LidoOracle._push`, CompositePostRebaseBeaconReceiver.sol | composes the three: a report rebases, then calls the burner and other callbacks one at a time (`report.calls`), nothing else runs meanwhile, and a callback that reverts restores `report.before` |
| `AragonACL` | the ACL as the template uses it | permissions with a manager and grantees |
| `LidoTemplate` | LidoTemplate.sol | `chain` is the log of creations and of the template's events that scripts look for; `templates`, `registries`, `daos` are the instances |
| `DaoChecks` | checks/*.js, 12-check-dao.js | the assertions, as predicates on the file and the chain |
| `Deployment` | scripts 01 to 11 | an action per effect of a script; `file` is the state file, `saved` the files with transactions; `Send...` actions are the multisig |
| `DaoSetup` | scripts 12 to 31 | the same, with `votes` whose calls were fixed when they were saved |
| `LocalDeployment` | deploy-aragon-env, deploy-aragon-std-apps, deploy-lido-apm-and-template, deploy-lido-apps, deploy-lido-dao | `Script(s)` lists the steps of a script; a step uses what the file names or sends a transaction; `got` is what has not been written to the file and is lost by a crash |
| `DeploymentProperties`, `DaoSetupProperties` | - | their properties |
| `AppStores` | the three script.js | `task` is the handler that runs with the calls it still awaits; a value of the contract is the number of the call that wrote it |
| `AppStoresProperties` | - | its properties |
| `SharedLemmas`, `LidoProof`, `LidoOracleProof`, `RegistryProof`, `ReportReceiversProof`, `DeploymentProof`, `DaoSetupProof`, `AppStoresProof` | - | proofs (section 6): lemmas about sums and permissions, Lido with its rate limit, the oracle, the registry with the security module, the receivers, the two halves of a deployment, and the stores of the applications |
| `MC...` | - | values for TLC |

What the models leave out of the code they cover: events, names, and the roles of
the Aragon ACL (whoever holds a role may call at any time). The pool of holders is
finite. `Lido` sees the registry through its promise (how many keys it hands out,
how it divides a reward: any division with a sum within the reward) and the oracle
through what it may report; `NodeOperatorsRegistry` shows that the promise is
kept. `LidoOracle` sees Lido through `totalSupply`, free before and after a report.
Definitions that end in `_<Word>` after the name of another, marked "Mutant", are
faulty versions of it: each shows that a property notices the fault.

Every model lets time and other contracts do whatever they can between two calls:
`NextBlock`, `Tick`, `StakersSubmit`, `ForceEther` (ether that arrives by
selfdestruct) and `PayVault` are actions of the environment.

## 3. Runs

| Run | Question | Bounds |
|---|---|---|
| `accounting` | the books, the fee, the roundings, the settings, allowances, and the refinement of `RebasingPool` | 4 accounts, stakes of 1 and 2, 4 ether in all, validators of 2, reports up to 7, a 90% fee in three parts, at most 9 shares; settings and allowances in pools of at most 2 shares and 2 ether, one or the other at a time (`MCBound`) |
| `pacing` | the rate limit | 8 pairs of maximum and increase (dividing, not dividing, no growth, and refused ones), 6 blocks, integers of 4 bits |
| `oracle` | tally, epochs, quorum and sanity check | 3 candidates, 2 reports, quorums 1 to 3, frames of 2 and 3 epochs that may be switched, 6 seconds of one epoch each |
| `oracle_live` | frames complete | 2 honest members of 3, quorum 2 |
| `registry` | slots, counters, assignment, activity, rewards | 2 operators, 2 distinct keys, 2 slots each, limits 1 and 2, an index of one bit |
| `deposit_security` | the committee and the registry together | 2 guardians, quorums 1 and 2, an operator with 2 keys, 3 blocks, block hashes known for 1, 2 messages |
| `report_receivers` | reports that burn, revert and are taken back; the list of callbacks; the wrapper | 4 accounts, quotas of a half and the whole, 5 shares, 3 callbacks; the wrapper is used with the burner as the only receiver, the list is filled once the composite is the receiver, and grows to three while nothing is requested |
| `deployment` | scripts 01 to 11 | 1 application, 2 holders in 2 batches, 3 creations, a chain of 9 entries, 1 upgrade of a repository by others |
| `dao_setup` | scripts 12 to 31 | three campaigns, each of the groups of scripts that act on the same state; two depositors, composites and burners; 3 votes |
| `updated_depositor` | what script 30 asserts (section 7) | the same, without votes |
| `local_deployment` | the scripts of a local network | an application of each kind, 4 runs of the scripts after the first, 2 crashes; the first script runs as often as it likes |
| `app_stores` | the copies the applications keep | 2 contract calls, 1 failure, 1 reopening, each application |

Why the bounds are enough for what they ask. Rounding errors appear with the
smallest numbers: a price that is not an integer needs 2 ether and 3 shares, and
`accounting` reaches prices above and below one, an exhausted pool, and a stake
that rounds to nothing. Validators of 2 ether tell a profit, a loss and a late
validator apart; with validators of 1 a loss could only be total. The settings of
governance never meet an allowance in `accounting`: neither reads the other. The
hazards of the committee need two conflicting reports, a member that is removed from
the middle (so that the last one takes its place) and a change of the frame; three
candidates and two frame lengths give each of them, in any combination. For the
registry, two slots let a removed key be replaced by the last one and another be
stored over it, and with two operators the smallest stake is contested; it looks at
operators that are configured, trimmed and switched off in any order. 4 bits for the
rate limit let the width of the block number and of the limit be reached by a refused
setting; the number of the last block itself never wraps within the 32 bits the code
keeps of it (that is in the year 3600). With two guardians one is removed from before
the other, and a message outlives its block hash after one block. Three callbacks are
the fewest of which one is inserted and one removed in the middle. Two holders in
batches of one are the fewest whose batches can come in the wrong order, and three
creations the fewest with a wrong candidate for each hash. In `dao_setup` two
instances of whatever is replaced by a newer one and three votes let a vote be enacted
after one for a newer instance. Two crashes let a script be stopped, run again and
stopped later. A store fails by one call that it awaits while another contract call
comes in: two calls and one failure give each order.

Every bound is a CONSTANT commented `bound:`, or a state constraint
(`MCBound`, `MCConstraint`) that only stops behaviours from being followed
further. The registry's index is counted modulo `WORD` (2^256 in the code) so that
its counter needs no bound; properties about the index use a modulus larger than
any step. Symmetry is used for candidates, reports and keys, in runs of safety only.
Deadlock is checked except where a system may stop: `oracle_live` ends with the
clock, the scripts of `deployment` and `dao_setup` with the bounds of the chain, and a
store with the calls.

`PROJECT.json` names for every property of a passing run a fault in a mapped
definition, the kind a change of the code could bring in, that TLC finds by it.

## 4. Properties

*Token* - `SharesSumToTotal`, `SpenderWithinAllowance`.
*Lido* - `BooksAreCovered` (the two asserts of the views), `UnaccountedUntouched`,
`FeeWithinItsPart`, and `ImplementsPool`: under the mapping of pooled ether, shares,
the stop flag and the last report, every step of `Lido` is a stake, an exchange, a
surrender of claims, a profit, a rebase, a stop or nothing at all. Deposits, limits,
fees, vaults, credentials and recoveries are then stutters: they never show in a claim.
*Rate limit* - `StakeIsPaced` (what was accepted and what is on offer never exceed
what was granted and what has grown since, nor the maximum), `SettingNeverRaises`.
*Oracle* - `TallyIsTheBallots` relates bits and counts to the history of who
reported what; `QuorumBacksPush`, `ExpectsLaterEpoch`, `EpochsAdvance`,
`SettledOnlyIfTied`, and `FrameCompletes`.
*Registry* - `KeysAreStored`, `UsedKeysAreFinal`, `CountersInOrder` (with the cached
number of active operators), `AssignmentIsFair`, `AssignmentIsComplete`,
`RewardsWithinTotal`.
*Security module* - `GuardiansAreIndexed`, `DepositsAreVetted` (key by key, a deposit
takes what a quorum of the guardians of the moment saw in that slot), `PauseIsIntended`,
and `IndexGuardsKeys`: while the index stands still, no operator changes activity, limit
or keys, except that unused keys may be trimmed.
*Receivers* - `RequestsAreHeld` (the burner holds what it was asked to burn, through
recoveries and reverted reports), `BurnsFollowQuota`, `CallbacksKeepOrder`,
`WrapperIsCovered`.
*Deployment* - `VestedExactly`, `InstalledCodeIsVerified`, `PermissionsAreHandedOver`.
*Setup* - `OneDepositor`, `PublishedInOrder`, and what a passing check of the DAO means:
`LiveCheckMeansWired`, `FreshCheckMeansExact`.
*Local deployment* - `EnvironmentFits` (what the file names was made with what the file
names), `EnvironmentCompletes`.
*Stores* - `DrainedIsFresh`, `ListMatchesCount`.

## 5. Fairness

Safety is checked without fairness. Two specifications have some:

* `LiveSpec` (`MCLidoOracle`): weak fairness of each honest member's report for the
  current frame, because the oracle daemon polls and retries until its report is in
  (a revert leaves the state as it was, and the report enabled); and weak fairness of
  the clock, which blocks justify. Nothing is assumed of the third member or of its
  dismissal. `FrameCompletes` says that the last frame, which lasts as long as is
  needed, completes. A frame that ends sooner may not complete, as the contract's
  documentation says. The values of Lido's `totalSupply` in this run stay within the
  sanity bounds: with bounds that refuse every report no frame would complete.
* `Spec` of `LocalDeployment`: weak fairness of the step of a running script, which is
  a process that goes on unless it is killed (`Crash` has no fairness and is bounded),
  and of starting the first script again, which `docs/dev-local.md:20` says may be done.
  Nothing is assumed of the other scripts. `EnvironmentCompletes` then says that no
  place to be stopped at leaves a state the first script cannot get out of.

## 6. Proofs

`tlapm` proves every safety property of section 4 but those listed at the end of this
section, from the named assumptions on the constants only: accounts are finitely many,
amounts and widths are natural numbers, the size of a deposit and the basis points are
positive; the burner, the wrapper, Voting and who wraps are not the same accounts, nor
is the treasury the burner; the registry's index of operations is counted modulo a
number larger than the keys of an operator and does not come round (the code's is
2^256); the holders of vested tokens are distinct, as the keys of a JSON object are, and
there are some, as there are applications.

| Theorem | Property | Argument |
|---|---|---|
| `LidoTypeCorrect`, `LidoSharesSumToTotal`, `LidoBooksAreCovered` | `LidoTypeOK`, `SharesSumToTotal`, `BooksAreCovered` | `LidoInv` |
| `LidoImplementsPool` | `ImplementsPool` (the refinement of `RebasingPool`) | `LidoInv`, one simulation lemma per kind of step |
| `LidoUnaccountedUntouched`, `LidoFeeWithinItsPart`, `LidoSpenderWithinAllowance` | the properties of these names | `LidoInv` and the arithmetic of a fee and of a conversion |
| `PacingStakeIsPaced`, `PacingSettingNeverRaises` | `StakeIsPaced`, `SettingNeverRaises` | `PacingInv` |
| `OracleExpectsLaterEpoch`, `OracleEpochsAdvance` | `ExpectsLaterEpoch`, `EpochsAdvance` | `EpochsInv` |
| `OracleTallyIsTheBallots`, `OracleSettledOnlyIfTied`, `OracleQuorumBacksPush` | the properties of these names | `TallyInv` |
| `RegistryCountersInOrder`, `RegistryKeysAreStored`, `RegistryRewardsWithinTotal`, `RegistryUsedKeysAreFinal`, `RegistryAssignmentIsFair`, `RegistryAssignmentIsComplete` | the properties of these names | `RegistryInv`, invariants of the recursions |
| `DSMGuardiansAreIndexed`, `DSMPauseIsIntended` | `GuardiansAreIndexed`, `PauseIsIntended` | `CommitteeInv` |
| `DSMIndexGuardsKeys`, `DSMDepositsAreVetted` | `IndexGuardsKeys`, `DepositsAreVetted` | `AttestationsInv` with the two above |
| `ReceiversRequestsAreHeld`, `ReceiversWrapperIsCovered`, `ReceiversBurnsFollowQuota` | `RequestsAreHeld`, `WrapperIsCovered`, `BurnsFollowQuota` | `ReceiversInv`, `BurntInv` |
| `ReceiversCallbacksKeepOrder` | `CallbacksKeepOrder` | the callbacks are a sequence |
| `DeploymentInstalledCodeIsVerified`, `DeploymentVestedExactly`, `DeploymentPermissionsAreHandedOver` | `InstalledCodeIsVerified`, `VestedExactly`, `PermissionsAreHandedOver` | `DeploymentInv` |
| `SetupOneDepositor`, `SetupPublishedInOrder` | `OneDepositor`, `PublishedInOrder` | `SetupInv`: `DepositorInv`, `PublishedInv` |
| `SetupLiveCheckMeansWired`, `SetupFreshCheckMeansExact` | `LiveCheckMeansWired`, `FreshCheckMeansExact` | `SetupInv`: `CoverageInv`, `FreshInv` |
| `StoresDrainedIsFresh`, `StoresListMatchesCount` | `DrainedIsFresh`, `ListMatchesCount` | `StoresInv` |

**Lido** (`LidoProof`). `LidoInv` is `TokenInv /\ RateLimitTypeOK /\ EtherInv /\
ConfigInv`. None of the theorems is inductive on its own:

* that shares stay natural numbers when they are subtracted, and that a mint is
  counted, needs both the type and the sum (`TokenInv`);
* what a deposit takes out is covered only because the buffer is covered
  (`EtherInv`), and the deposited number is counted in whole deposits;
* what the treasury gets is the rest of the minted fee after two roundings, which
  is not negative only because the parts add up to at most the whole
  (`DistributionOK`, in `ConfigInv`): governance keeps that in `SetFeeDistribution`.

The proof has a lemma per action for the part of the invariant it touches, frame
lemmas (`TokenSame`, `RateLimitSame`, `EtherSame`, `ConfigSame`) for the parts it
leaves alone, and one step per action in `LidoNext`. Sums over accounts change one
account at a time: `SharedLemmas` proves `SupplyChange` (the sum of a function
changed at one point), `SupplyExtend` (of a longer domain) and what follows from them
from the definition of the sum, the number of indivisible units.

In the refinement the abstract pooled ether is the buffer with the transient and the
beacon balance, so most of it is to show that this total stands still: a deposit moves
32 ether from one term to another, the vault and the fee are parts of the one rebase
that a report is. The fee is an inequality of two floors: shares minted for a part of
a profit, at the price after the report, are worth at most that part.

**Rate limit** (`LidoProof`). `PacingInv` adds to `StakeIsPaced` the type of
the packed slot and the order of its blocks. What is on offer grows by a whole increase
per block since the last stake and is cut at the maximum, so that a stake moves from
what is on offer to what was accepted; the rest of the proof is that no setting, pause
or resumption starts the history with more than it grants.

**Oracle** (`LidoOracleProof`). `EpochsInv` is the type of the frames with
`ExpectsLaterEpoch`. A push completes an epoch at least the expected one and expects one
a frame later (`PushAdvances`); `SetBeaconSpec` moves the expected epoch to the next
frame of the new frames and never back; nothing else writes either. `TallyInv` relates
the bits and counts to the history of the ballots. Its difficult step is the removal
of a member, whose place in the list the last one takes, with everything that
was counted cleared; and that whoever pushes a report has found the one most
frequent variant, which needs the maximum over the counts to exist.

**Registry** (`RegistryProof`). `RegistryInv` orders the counters of an operator (used,
stopped, limit, total), ties the cached number of active operators to the operators, and
says that every slot below the total holds a key. Three calls loop: a range of keys is
removed one after another, keys are assigned one at a time, rewards are divided operator
by operator. The loops are recursive functions on 0 .. n; `RegistryProof` first shows
that such a function exists (`LeftExists` and its like, by `UpTo`, an induction over the
subsets of 0 .. n), and then proves in the same way what the loop keeps: `Shrunk` for the removal; `Counted`, `FairWith` and `CompleteWith` for the
assignment. Fairness is the invariant that whoever got a key in the search has at most
one validator more than whoever can still get one.

**Security module** (`RegistryProof`). `CommitteeInv` says that the stored index of
a guardian is its place in the list, which the removal from the middle keeps by moving the
last. `IndexGuardsKeys` is a property of a step of the registry. `AttestationsInv`
carries it over time: an attestation that still has the present index, root and a
known block hash was signed for the very keys in the next slots, because the index never
comes back and, while it stood, only trims happened. A deposit then takes what the
signers saw, and the signers are as many guardians as the quorum, because their
addresses ascend.

**Receivers** (`ReportReceiversProof`). `ReceiversInv` says of the present ledgers
(`Present`) what the theorems need, and the same of those in `report.before`
(`Before`): a report that reverts brings old shares and old requests back, and only the
requests and shares of one moment fit each other. The wrapped token is no part of what
is brought back, so both ledgers must cover the wrapped tokens of the moment: they do
since nobody wraps during a report. The sum of the shares belongs to it, because what is
burnt must not exceed the total. The roundings come down to two lemmas.
`ConvertedTwice`: n shares that are converted to tokens and back are at most n
(floor(floor(n p / T) T / p) <= n), which is what lets the excess be recovered and a
wrapped amount be unwrapped; `WithinRequests`: what a run burns is at most what was
requested, whatever the quota. `BurntInv` adds that the counters of what was
burnt are numbers, those of before a report too.

`ReceiversCallbacksKeepOrder` is about the loops that shift the list in place
(`InsertedIs`, `RemovedIs`). The fold that models a loop is a recursive function over
sets of positions: `ShiftExists` shows that this function is there, `ShiftedIs` that it
runs through one list after another, each with one entry more overwritten. The invariant
of the loop then says after k rounds which entries have moved, from which place.

**Deployment** (`DeploymentProof`). `DeploymentInv` has a part about the chain
(`WorldInv`) and one for each kind of file (`FileOK`, `SavedOK`); a sent transaction
changes the first and the files only have to stay true of a chain that grew (`Grown`,
`FilesStay`), a script changes the others.

* The code: whatever is on its way to a DAO was verified, in the file, in the saved
  transaction and in the repositories of a registry.
* The tokens: `BatchesInOrder` shows that the total supply which a call expects admits
  the next batch only, because every amount is positive. So the vested holders are
  always those of the first batches. The call to finalize is saved when the DAO in the
  file has vested everybody; it is sent for the template's DAO of that moment, which is
  the same as long as nothing is finalized (`OneDaoEach`), and only one DAO is ever
  finalized, because an AragonID is given once.
* The permissions: the ACLs of a DAO and of a registry can have two and three values.
  The final ones are computed permission by permission (`FinalACLIs`,
  `FinalRegistryACLIs`) and compared with what the check asserts. That the registry is
  the right one is the part of the invariant that follows a template's registries
  (`RegistryIsLatest`, `LeftBehind`).

**Setup** (`DaoSetupProof`). A vote is a sequence of calls that was fixed when a script
saved it, and enacting it folds the calls over the DAO until one reverts. The fold is a
recursive function over sets of positions: `ExecutionExists` shows that it is there,
`ExecuteIs` that a vote which does not revert is a chain of DAOs, a call apart. From it
follows what each of the five kinds of votes makes of the DAO, and when it can
(`PublicationIs`, `DepositsIs`, `CoverageIs`, `VaultVoteIs`, `StartVoteIs`). `SetupInv`
is about the votes that wait as much as about the DAO:

* `PublishedInOrder`: a waiting vote for a base that is behind the repository is of a
  version that was taken (`NotBehind` in `VoteOK`). Scripts read the version from the
  repository and the base from the file; the bases of the file only get newer, so two
  votes with the same version are the only ones that can be out of order, and one of
  them reverts.
* `OneDepositor`: the permission to deposit has a manager from the vote that creates it
  on (`DepositorInv`), and creating it again reverts.
* `LiveCheckMeansWired`: script 12 sees that the burner of the file has the permission
  to burn, and that the oracle has the receiver of the file. The vote that granted the
  permission may have been about an older receiver. `CoverageInv` orders the pairs of a
  receiver and a burner that any vote is or was about: a newer receiver never goes with
  an older burner. So the vote that set the receiver added a burner to it that is no
  older than the burner of the file, and no newer, since the file has the newest.
* `FreshCheckMeansExact`: of two votes one set the vault, and the other one made all
  that there is of callbacks and grantees (`FreshInv`).

The assumptions are that contracts have names of their own in the ACL, that the
applications are listed once each and are not among the contracts around them.

**Stores** (`AppStoresProof`). What a handler has read may be old when it returns. The
invariant is that such a value has an event behind it: every field that is followed, in
the store or among the answers, is what the contract holds, or an event waits whose
handler reads it (`FieldsInv`; the event that is being handled does not count, for its
reads may be over). It rests on the contracts: whatever call changes such a field emits
an event for it (`ContractCallCorrect`, call by call). A list is read entry by entry, so
`ListInv` says the same of the entries read so far and of the size that was asked for.

* `DrainedIsFresh`: no event waits, so everything is what the contract holds. The number
  of operators is read before the operators, and the event that changes it has both
  read, so a list that was cut to an old number has an event behind it (`CountIsKnown`).
* `ListMatchesCount`: the operators are the last field that a handler of the registry
  reads and every handler reads them (`ReadOperatorsInv`), as many as the count that
  the handler has read or, if it reads none, the store has (`KnownCount`); nothing
  writes the store in between, and a handler that fails leaves neither.

Only model-checked:

* liveness under fairness (`FrameCompletes`, `EnvironmentCompletes`), which needs
  ENABLED;
* `EnvironmentFits` of `LocalDeployment`, whose invariant is not written (section 9).

## 7. Findings

`updated_depositor` is a run TLC must find violated: script 30 asserts that the new
depositor has no guardians, but compares a promise it does not await, and saves the
call to add guardians for a depositor that has some (which reverts when it is sent).

Read on the way, without a run:

*Contracts*

* A limit chosen while staking is paused keeps the previous remainder, where the
  comment of the library says it is reset (`StakeLimitUtils.sol:148`).
* The expected epoch may be reported and completed before it begins; `_push` is
  documented to get an epoch that has come.
* Trimming removes keys and leaves the index of operations (`IndexGuardsKeys` has the
  exception). With stopped validators, the limit that a removal lowers does not bar the
  key that was moved into the removed slot.
* `_submit` (`Lido.sol:692`) prices a stake 1-to-1 whenever it rounds to no share,
  where the comment speaks of an empty pool only: where a share is worth more than a
  wei, a stake of 1 wei gets a share that is worth more than was paid. The
  difference is dust; `RebasingPool!Stake` has it.
* The increase of the limit that takes effect is the maximum divided by a rounded
  number of blocks, and can exceed the configured increase per block
  (`Lido.sol:192`). `StakeIsPaced` is stated with the effective one.
* A quorum lowered onto two equally frequent reports pushes neither
  (`LidoOracle.sol:582`), where line 27 speaks of the first to reach the quorum. The
  frame completes when a third member decides it, or is cleared by the next one;
  `SettledOnlyIfTied` says that this is the only such case.
* The comment at `Lido.sol:925` states the assert below it the wrong way round.
* `DepositSecurityModule.sol:416`: "ascending order by index of the guardian" is an
  ascending order by address (line 475), and a zero block hash is refused too
  (line 435).
* `SelfOwnedStETHBurner.sol:292` says the requests are reset to zero, where the quota
  of a run may leave a part.

*Scripts*

* `upgrade-app.js:63`: the version after a minor one is made by adding to the major
  number alone, which the repository refuses: the vote can be started and always
  reverts when it is enacted. Script 20 does the same (line 131).
* Script 15 calls `initialize_v2()`, which the oracle no longer has.
* Scripts 16 and 29 do not reset `depositorDeployTx`, and 26 resets its hash before it
  saves the new transaction: the script that obtains the address may take the previous
  one (`OneDepositor` holds all the same).
* Script 12 does not look into the callbacks of the composite receiver;
  `LiveCheckMeansWired` holds because of how the votes are made.
* `deploy-lido-apm-and-template.js` writes `lidoApmRegistryAddress` and reads
  `lidoApmAddress`. Until a human copies the one to the other (`CopyAddress`), every
  run makes another registry, takes the name for it, and fails at the template. The
  second call of a script is then no nop, as `docs/dev-local.md:20` says of all of them.
* The template takes its AragonID from ENS, not from the file. If the first script
  stopped between assigning the name and writing the file, and the others were run
  before it was completed, the template keeps an AragonID that the file does not know:
  `EnvironmentFits` makes this exception.
* `deploy-lido-dao.js:261` calls `newDAO` with arguments the template does not have: the
  call throws, and the rest of the script is never reached.

*Stores*

* The variants and the status of reports are stale after `removeOracleMember` or a
  quorum that pushes clears them, `bufferedEther` after a stake, and the keys of an
  operator after those events that no handler has. `FollowedFields` says which fields
  are kept fresh.

## 8. Not modelled

* `deposit_contract.sol` (vendored), `MemUtils`, `ECDSA` (pure data, abstracted to keys
  and members): no protocol state of their own.
* `setNodeOperatorName`; `setOwner` and `setNodeOperatorsRegistry` of the security
  module, `setOwner` of the template; the recovery of foreign tokens by the vault and
  the burner, which have no effect here; events and views that only format state.
* The clock before the genesis, where `_getCurrentEpochId` wraps around.
* `ReportReceivers` takes the new total of pooled ether and the shares of the fee from
  sets: that they follow from a report, and pass the sanity check, is `Lido`'s and
  `LidoOracle`'s. One oracle calls the composite, and the protocol is not stopped there.
* What `deploy-lido-dao.js` does after the call that fails, the scripts that deploy
  WstETH, the deposit contract or repository permissions, script 15, and the settings
  of Hardhat that the local scripts compare with the file.
* The panels of the applications (rendering), the command line, `gasprofile`,
  `estimate_deposit_loop_gas.js`, tasks and helpers that log, format, clone or read
  files: no state beyond what is passed to them.

## 9. Plan

Theorems that are left: `EnvironmentFits` of the local deployment.

Models: the composition of the oracle, Lido and the receivers in one report; an abstract
agreement on one report per frame, implemented by `LidoOracleHistory`.
