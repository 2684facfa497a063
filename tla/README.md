# A verification of Sphinx

Sphinx deploys smart contracts through a Gnosis Safe. The Safe's owners sign
one Merkle root; the leaves of the tree are the transactions of a deployment on
any number of networks. On each network a `SphinxModule` contract, a module of
the Safe, checks the signatures once (`approve`) and then lets an executor run
the leaves in order (`execute`), until the root is completed, canceled or
failed. This directory holds TLA+ models of that protocol, the TLC runs that
check them on small instances and theorems that TLAPS checks for all instances.

Paths below are relative to the repository.

## The system

| part | state it keeps | operations | modelled by |
| --- | --- | --- | --- |
| `SphinxModule.sol` | `merkleRootStates`, `merkleRootNonce`, `activeMerkleRoot` | `approve`, `cancel`, `execute` | `SphinxModule`, `RootLifecycle` |
| `merkle-tree.ts` | the arrays and flags of one call | `makeSphinxLeaves`, `makeSphinxMerkleTree` | `MerkleTree`, `MerkleTreeLoop` |
| `execute.ts` (the executor) | one attempt: local variables between awaits | `attemptDeployment`, `executeDeployment`, `executeBatchActions`, `handleStatus`, the gas estimates and `findMaxBatchSize` | `Executor` |
| `predeploys.ts` | none | deploy the system contracts that are missing | `Executor` |
| `utils.ts`, Safe owners | the Safe's linked list of owners, the module's balance | inject and remove wallets | `SafeOwners` |
| `SphinxModuleProxyFactory.sol`, `addresses.ts` | the proxies it created, each Safe's enabled modules | deploy a module's proxy, enable it, create a Safe with both | `ModuleProxyFactory` |
| `propose/index.ts`, `deploy.ts` | `sphinx-deployment-info.txt`, the website's records | the two commands | `Proposal` |
| `SphinxUtils.sol`, `decode.ts`, `preview.ts` | the recorded accesses of a script | from accesses to actions, and their preview | `Collection`, `InitCodes` |
| `foundry/utils/index.ts` | Forge's folders, `sphinx-cache.json` | `makeGetConfigArtifacts`, `readContractArtifact`, `assertNoLinkedLibraries` | `BuildInfoCache`, `InitCodes` |
| `artifacts.ts`, `cli/artifacts.ts` | the `deployments/` folder, the platform's record | read, extend, write, fetch | `DeploymentArtifacts` |
| `etherscan.ts` | none | verify with retries | `Verification` |
| `deploy.ts` after the deployment | none | record, then verify | `AfterDeployment` |
| `ManagedService.sol`, `PermissionlessRelay.sol` | the role of callers | `exec` | not modelled |
| `networks.ts` (tables), `analytics.ts`, texts and tables | none | | not modelled |

How they interact: a command runs the user's script once per network (`Proposal`),
turns the recorded accesses into actions (`Collection`), for which it searches the
artifacts (`BuildInfoCache`), builds the tree (`MerkleTree`), and hands a deployment
to an executor, which is the user's process or, after the owners signed a proposal,
the website. The executor sends transactions to the Safe's proxy factory and to
the module, and reads the module's storage between them. The module calls the
Safe, and the Safe runs whatever the leaves say, which may come back to the
module. The owners act on the module (by other executors) and on the Safe at any
time. What was deployed is recorded in files and verified on a block explorer
(`AfterDeployment`, which composes `DeploymentArtifacts` and `Verification`).

What is hard: control leaves the module once per leaf, in the middle of a loop
with cached state; a batch ends early, reverts as a whole or goes on after a
failure, depending on the leaf; several signed roots wait for one nonce; and the
executor is a chain of awaited calls with no memory of its own, that is retried
after crashes, while others change the module under it. The commands keep what they
know in files (of Forge, of the user, of earlier commands) that others change between
two reads, and talk to services that lose answers. `PROJECT.json` lists each
of these hazards at its line with the properties that cover it, and those that no
property covers yet.

## SphinxModule

`SphinxModule` is the contract of one chain with the Safe's owners, threshold and
enabled flag. An EVM transaction is atomic unless it calls out, so `approve` and
`cancel` are one action each. Their call of `checkSignatures` comes last in the
code and is a guard here: it is read-only, and reverts undo what came before it.
`execute` is a call frame (the variable `frame`):

| action | code |
| --- | --- |
| `ExecuteStart` | the entry checks and the cached variables |
| `ExecuteLeaf` | one iteration's checks, up to the call of the Safe |
| `SafeReturn` | the try/catch, the events, the early return on a fatal failure |
| `ExecuteFinish` | the counter is stored, the root perhaps completed |
| `ExecuteRevert` | a failed `require`, overflow or lack of gas undoes everything since the entry |
| `SafeReconfigure` | the Safe changes its owners or (dis)ables the module, also from inside a leaf |

While a frame is open, other calls of the module are not excluded by the model
but by the guard `nonReentrant`, as in the code. `frame.saved` is what a revert
goes back to. Two variables record history: `actions` (the
`SphinxActionSucceeded` and `SphinxActionFailed` events) and `usedRoots` (the
`Approved` and `Canceled` events). Hashes are injective, so a proof verifies when
the leaf is in the tree; trees are arbitrary sets of well-typed leaves, also ones
that the tools never build.

The properties: `CachedStateFresh` (what `execute` cached stays true during the
Safe's calls), `ActiveIsApproved` (two storage variables written in three
functions agree), `ExecutedInOrder`, `OutcomeMatchesActions` (a status tells what
happened in the Safe), `UsedOnceInNonceOrder` (a root is used once; a nonce is
spent once), `NeverStuck` (a well-built root can be executed to its end) and
`TerminalForever` (nothing happens to a finished root).

`RootLifecycle` is the promise behind them: a root is begun, performed in atomic
batches and finished, one at a time. `SphinxModule` maps the contract to it,
taking `frame.saved.actions` for the log while a call is open, so that the many
steps of `execute` are one step for an observer of committed transactions.
`ImplementsLifecycle` is checked as a property, and proved.

Run `module_safety`: one chain, three accounts, a threshold of two, and five
roots whose trees are built by `MerkleTree` itself: a deployment of three
transactions (one of which may fail) for two chains, its cancellation, a root
that retires it, a deployment for any chain, and a tree with two leaves of the
same index. A batch has up to four leaves (`MaxBatch`), one more than any tree
allows. `NonceSpace` (16) stands for 2^256: the run does not reach the wrap, the
theorem covers it. These
roots let every two of approval, cancellation, failure, partial batch and revert
meet; a second chain shares no state with the first.

## MerkleTree

`makeSphinxLeaves` is a fold of `Include` over the entries, with the exceptions of the code
as a flag. `MerkleTreeLoop` is the same loop, one iteration a step: `acc` is what it carries,
`next` the entry whose turn it is. `ValidTree` is the reference: the high-level invariants 2
to 8 of `specs/merkle-tree.md`.
Run `merkle_tree` takes every sequence of up to three entries on different chains,
each a deployment of up to two transactions (for one chain or any), a cancellation,
or malformed, and shows that the result is valid after every iteration
(`LeavesAreValid`), that exactly the conflicting inputs are refused whatever their
order (`ThrowsExactlyOnConflict`), and that what the executor later filters out of
the array is a batch plan: the APPROVE leaf first, indexes equal to places, as many
leaves as announced (`NetworkLeavesAreABatchPlan`). Three entries are enough: the
loop carries three flags and every check compares an entry with an earlier one. The theorems
are about any number of chains, entries (`MaxNetworks`) and transactions (`MaxTxs`).

## Executor

`Executor` is `attemptDeployment` with everything it awaits, one action per read of
the chain or transaction sent, against the module in the form of
`RootLifecycle` (the instance `Module`). The environment may cancel the deployment,
approve and execute another root, mine transactions in any order, and end the
process up to `MaxCrashes` times with its transaction still in flight. A transaction
that reverts makes the awaited call throw.

The Safe's money is the variable `balance`. `SimulatedBalance` is what the simulation of
the script found before and after each leaf (`estimateMerkleLeafGas` gives the Safe
`requiredBalance`, runs every action and ends if one fails); if funds were requested, the
first action sends the Safe all that is required (`addBalanceCheckAction`). On chain an
action succeeds only if the Safe has what it demands (`Spend`). The owners and other roots
may take money at any time, which `taken` remembers. Whether the platform makes a value
transfer again that it has made is left open (`AlreadyMade`): execute.ts:980-1001 says
that the code relies on the website for that, so that the model does not assume it and no
property claims that funds are sent once. Money that others or actions bring in, and
configurations of older versions without a `safeFundingRequest`, are left out.

The executor is the platform's or, with `executionMode` "LiveNetworkCLI", the single
attempt of `sphinx deploy`. Only the latter may find a network without the system
contracts, and then deploys those that are missing (`DeploySystem`: contract 0 is the
CREATE2 proxy that all others need), while others do the same; `isSystemDeployed` was
read before the attempt and may be out of date. The roles and funds that are given to
relayers on a local node, after the deployment of the system contracts, are left out.

A batch is the longest whose every beginning passes `isExecutable`, computed from the
leaves' gas and calldata, the sender (`estimateGasViaManagedService` or
`estimateGasViaSigner`) and the network's rules (`Networks`: block gas limit, batching,
the price of calldata, whether the transaction's gas is set by hand). Gas is in units of
1000 and calldata in 1000 bytes; the module's demand for gas (`HasGas`) decides whether
the transaction can succeed.

Properties: `ReportsAreTrue` (success and failure mean what the chain says, and the
blamed action is the one that failed, across the two index conventions),
`SentWhenPossible` (each transaction is sent only when what it needs is there, with
enough gas), `FundsSuffice` (an approved deployment can pay for each action that is left,
whatever crashed, was mined late or was sent twice, unless somebody else took money), and
under fairness `Settles` (the platform's retries bring
every deployment to an answer, unless the owners retired its root or a leaf fits in no
block) and `AttemptsEnd` (no attempt hangs).

Fairness: the platform calls `attemptDeployment` again until it is answered (the
comments of `DeploymentContext` describe that), awaited reads return, and the
network mines what it was sent. It is weak fairness on the executor's steps and on
each transaction; no fairness is assumed of owners, other executors or crashes.

Run `executor`: a deployment of three transactions (leaves 1 and 3 must succeed),
its cancellation, a root with the same nonce that retires it and runs two transactions
of its own, two system contracts besides the proxy, two crashes, and four networks: all
leaves in one batch; two batches; a last leaf that fits in no block; no batching. The Safe
has 1 when the script is run, 1 is requested, and the actions leave 2, 2, 1 and 0, so that
with the starting balance or the request alone the first one, which checks the funds, fails.
Two crashes let a third attempt meet the transactions of two earlier ones.

Run `executor_rival` shows a disagreement between the code and its comments:
`executeBatchActions` steers by the root that is active when it starts, not by the
deployment's. If the owners cancel the deployment just after its status was read and
another root becomes active, that root's completion is handed to `handleSuccess` as
this deployment's. `ReportsAreTrue` therefore holds in run `executor`, where no root
with transactions follows a cancellation, and not here. (Another one needs no run:
`handleExecutionFailure` is documented for reverts on chain and is called for canceled
deployments too, without a failure action; `ReportsAreTrue` states it as it is.)

## SafeOwners

On a local node nobody has the keys of the Safe's owners. `injectRoles` adds wallets
with known keys to the Safe, as many as its threshold, before the root is approved;
`removeRoles` takes them out again before it is executed. `SafeOwners` is this part
of an attempt with one awaited transaction a step (`AddWallet`, `RemoveWallet`: an
iteration of the loop with its sanity check; `Impersonate`: the lines before the
loops), against the Safe's linked list of owners with its own guards
(`AddOwner`, `RemoveOwner`). A call that the Safe refuses changes nothing and is no
exception, as `execTransactionFromModule` only returns false. Indexing past the array
of wallets is the `TypeError` it is. The process may die after every step, the
deployment may change owners and threshold, and deployments follow one another.
`SafeOwners` says nothing of gas, funds, batches and other executors, which `Executor` models.

Properties: `OnlyWalletsMove` (no owner of the project is lost or moved, whatever an
earlier attempt left behind), `WalletsCanApprove` (an injection that resumes an
interrupted one ends with enough wallets) and `LeavesNoTrace` (no wallet stays an
owner, unless an attempt was cut short after the approval; `disturbed` records that).

Run `safe_owners`: three wallets in the order of their real addresses (1, 2, 0), three
owners and a fourth that a deployment may add, a threshold of three so that the loop
has a first, a middle and a last wallet, roots signed by one wallet or all of them, two
crashes: one during an injection and one during a removal.

Run `safe_owners_signatures` shows a disagreement between the code and its comments:
the deploy command collects one signature, so with a threshold above one its approval
reverts, though "they work even without the need for keys for all Safe signers".
Two more were met while modelling and restrict what the properties say:

- wallets are injected for the Safe's threshold and removed for the configuration's.
  Where a fork's Safe has a lower one, a wallet stays an owner after a successful
  deployment, though execute.ts:583 says that removing them makes owners and threshold
  match the production environment. `LeavesNoTrace` holds in `safe_owners` because both
  thresholds are three there and no deployment changes it; its theorem has this as the
  hypothesis `ConfiguredThreshold`.
- a removal that is interrupted leaves some wallets; the next deployment adds the missing
  ones at the head, so the list has another order than the removal expects, which throws
  "Should never happen". `LeavesNoTrace` therefore says nothing once `disturbed` is set.

## ModuleProxyFactory

Every address at which a module can lie is a triple of a Safe, a caller and a salt
(the hash is injective). `DeploySphinxModuleProxy` is a deployment by anybody for any
Safe, `EnableSphinxModuleProxyFromSafe` the call a Safe delegates to the factory, and
`CreateSafeWithModule` the transaction that the initializer of `addresses.ts` encodes:
it creates the Safe, deploys its module and enables it, or does nothing. Owners
enable and disable modules at will (they are assumed to enable only modules that name
their Safe, which is what the factory is for).

Properties: `EnabledModulesAreOwn`, `CreatedSafesAreReady` (the executor that finds a Safe's code counts on its module)
and `AlwaysCreatable` (nobody can take the address that a Safe's creation needs).
Run `module_factory`: two Safes of Sphinx, one of an unsupported version, a
stranger, the salt 0. Two Safes are what it takes for one to meet the other's module;
the theorems cover the rest.

## Collection

`Collection` follows a script from what Forge records to the actions of one network.
The script's actions (`Deploy`, `DeployCreate2`, `Call`, `ByTheWay`, `SelectFork`)
append to the flat record `accesses`; they are the environment. `Finalize` is everything
after the script, as functions of the record: `parseAccountAccesses` picks the Safe's
transactions and what follows each, `addBalanceCheckAction` and `estimateMerkleLeafGas`
add to them, and `makeNetworkConfig` makes an action of each, or throws where the code
does (contract size, gas of a leaf). `getPreview` is what the user is shown. Addresses
are tuples of their creator and nonce or salt, so equal on both forks, as on chains.
`executed` is history: the Safe's transactions on the network.

Properties: `ActionsAreTheTransactions` (each transaction on this network and nothing
else is an action, in order, at the index of its leaf, with enough gas),
`DeploymentsAreLabeled` (a deployed contract is put down to the transaction that deployed
it, with its name) and `PreviewIsTrue` (the preview's expectation of the check of funds
holds, so that it does not throw). Contracts that a pranked account deploys are put down
to the Safe's transaction before them; `DeploymentsAreLabeled` excludes them (`Strays`).
Constructors that revert within a transaction are not modelled: the code does not look at
`reverted` and would label them. Nor is a transaction that fails when it is simulated for its
gas, which only ends the command (SphinxUtils.sol:1106).

Run `collection`: scripts that add something at most three times (`MaxAccesses`), each
with up to two nested deployments; four codes, one with a constructor, one without a
build info, one over the size limit; three networks, one for each way to compute and
limit gas. Three are enough for a transaction with one before and one after it, on any
of the two forks. The theorems are about scripts of any length and all networks and codes.

## BuildInfoCache and InitCodes

`InitCodes` says when an init code is that of a compiled contract. `BuildInfoCache` is
the search of a command for the artifact and the build info of what the script deploys,
one action per read: `Compile`, `Index` (the folder against `sphinx-cache.json`),
`Resolve` (look-ups and artifacts), `ReadBuildInfos`, `Save`, and `CheckLibraries`. The
environment edits sources, recompiles everything, deletes build infos and ends processes.
A build info file is named by its content, as Forge hashes it. Where a contract's
artifact lies is Forge's choice (`Place`); the assumption on it, that a contract's own
artifact is the deepest of those that could be its, is what `readContractArtifact` counts
on.

A contract is found by its creation code, so two contracts with the same code are one to
the search. If both are in one build info and the one that it names is edited later, the
artifact next to the name has other code, and the contract that the script deploys is not
found. Solidity hashes sources and names into the code unless it is told not to, so the
run has different codes for different contracts, and the theorem says so (`CodesTellNames`).

Properties: `ArtifactsAreOfTheScript` (a command that nothing disturbs finds for each
init code the artifact and build info of exactly that code, whatever is in the cache) and
`OutdatedOnlyIfRaced` ("Build info cache is outdated" is never the fault of the cache).
A command counts as disturbed (`raced`) if somebody compiled or deleted files between its
steps: the code reads without locks and then promises nothing.

Run `build_infos`: two commands, a script and two contracts of one name, one of which is
at the top of Forge's folder, two versions of one of them and of the script, two
compilations. One contract is not enough to go wrong, two compilations are what it takes
to have an old and a new build info.

## Proposal

`Proposal` is `sphinx propose` and `sphinx deploy` from the arguments to the website or
the executor. One action per awaited call: `Configure` asks the script for its networks,
`Validate` resolves and checks them, then for each network `RemoveInfo`, `Forge` and
`ReadInfo` pass the result through `sphinx-deployment-info.txt`; `Build`, `Agree`,
`Store` and `relayProposal` or `Deploy` follow. The user may edit the script between any
two steps, Forge may fail without an exit code, a command may end anywhere, and the
website's answer may get lost. A tree is the set of its leaves' chains and indexes; how
it is built is in `MerkleTree`.

Properties: `OwnTransactions` (a command never takes a file of another command or
network for its own), `ProposedTreeIsComplete` (the request lists exactly the chains and
leaves of the tree, its deployment config is stored before, and the preview shows what
is proposed) and `ProposedAsConfigured` (one project, Safe and module on all networks and
one kind of network, also if the script was edited between two of them). One edit is not
caught by the code: the command asks the script for its Safe (propose/index.ts:300) before
it runs it for the networks, and the request takes `safeAddress` from the first and
`newConfig` and `moduleAddress` from the second (lines 406 and 443) without a comparison. If
the script is edited in between, the request names the earlier Safe and the later project
and module. `ProposedAsConfigured` says so: that the request's own Safe is the networks' is
claimed only of proposals without this edit (`edited`), the rest of all proposals.

Run `proposal`: two commands one after the other (`MaxStarts`), up to two actions per
network, four networks of which one is unknown to Sphinx, seven arguments for networks.
Two commands at the same time in one project would share the file, and nothing in the
code prevents it; `Commands` has one process in the run, as the commands are meant to be
used. A network that is named twice is also left out of the run.

## DeploymentArtifacts, Verification and AfterDeployment

`DeploymentArtifacts` is the record of a project on one network: contract artifacts with
the history of their file name, execution artifacts, compiler inputs; on disk (one
directory for live networks, one for local nodes) and at the platform. `sphinx deploy`
reads all files, adds its deployment and writes all back, one file a step
(`writeDeploymentArtifacts`: the execution artifacts, the contracts', the compiler
inputs), and may die before or in the middle of a file
(`Exit`; the torn file is no JSON, and the user removes it at some time). The platform
records what it executed with receipts it recovers from recent events
(`fetchExecutionTransactionReceipts`). Receipts are kept in the order of their blocks
(`Sorted`). `sphinx artifacts` writes the platform's record to
the disk.

`Verification` is the attempt to verify one contract, `Submit` and `Poll`, in three loops:
with retries for `sphinx deploy`, without for the platform, which throws, and for the
system contracts, which goes on. The explorer loses answers, learns late of contracts,
and verifies by itself. (Two comments are not what the code does: etherscan.ts:97 speaks
of five retries where `maxAttempts` is ten, and etherscan.ts:328 of an exit at the first
failure where only an exception ends the loop. The model follows the code.)

`AfterDeployment` composes the two: a command that recorded its deployment verifies it.
One thing happens after the other, as in one user's terminal: two commands that write at
the same time would lose updates, and the code has no lock. The first `MaxVerified`
deployments are verified, and the explorer forgets contracts between two loops.

Properties: `RecordsAreTrue` (each artifact is of a contract that exists, with the
transaction that created it, and histories are in order), `RecordsAreComplete` (what was
deployed is recorded when the command is done, under the limits below), `NothingForgotten` (a step of
`sphinx deploy` keeps all earlier artifacts), `ReportedAsVerified` and
`NoContractIsLeftOut`.

Two things that the code does limit `RecordsAreComplete`:

- a file's name is a contract's name, or this, an underscore and a number
  (artifacts.ts:391-395), which may itself be a contract's name. A deployment of `Token`,
  `Token_1` and another `Token` writes the last two to `Token_1.json`, one on top and the
  other into its history, although they are different contracts and the documentation
  organizes histories by `contractName` (docs/deployment-artifacts.md:155). Names are
  modelled with the numbers they end with (`Names`, `Numbered`), so that the run meets this.
  `RecordsAreComplete` claims for every deployment that each contract is recorded, and that
  each is on top of a file if no name is another's with a number (`Ambiguous`).
- a compiler input whose file exists is not written (artifacts.ts:482), so that one which an
  interruption tore stays torn. `RecordsAreComplete` demands a whole one as long as no
  command was interrupted, and only a file otherwise.

Run `after_deployment`: three deployments of two scripts (two tokens and a vault; `Token`,
`Token_1` and `Token` in one action), failures, one interruption, two attempts at a contract,
one deployment verified. A transaction has one action (`BatchSize`), so that the scripts'
actions are in different transactions; the theorems cover all sizes. Three deployments are a
history of two entries below the top.
Run `artifacts_fetched` shows a disagreement with the documentation: "the top-level
artifact will be the most recent deployment", but `sphinx artifacts` puts the platform's
artifact over a newer one of `sphinx deploy`.

## What is proved

Each theorem is about every value of the constants that the module's named assumption
admits; what it needs beyond that is a hypothesis of the theorem and in the third column.
Each proof has the same shape: an inductive invariant made of named parts, one lemma per
action that the action preserves it, the property from the invariant. TLC found the
largest of them, `Trace`, `RightOK`, `CollectionOK` and `CompleteOK`, to hold on the instances
of the runs first.

| module | theorem: property | needs |
| --- | --- | --- |
| `SphinxModuleProofs` | `TypeCorrect`: `TypeOK` | |
| | `ActiveIsApprovedCorrect`: `ActiveIsApproved` | |
| | `CachedStateFreshCorrect`: `CachedStateFresh` | |
| | `ExecutedInOrderCorrect`: `ExecutedInOrder` | |
| | `OutcomeCorrect`: `OutcomeMatchesActions` | |
| | `TerminalForeverCorrect`: `TerminalForever` | |
| | `NeverStuckCorrect`: `NeverStuck` | |
| | `UsedOnceCorrect`: `UsedOnceInNonceOrder` | |
| | `ModuleImplementsLifecycle`: `ImplementsLifecycle` | |
| `ExecutorProofs` | `ExecutorTypeCorrect`: `TypeOK` | |
| | `FundsLast`: `FundsSuffice` | |
| | `SendsWhatIsPossible`: `SentWhenPossible` | |
| | `ReportsTellTheTruth`: `ReportsAreTrue` | `NoRival` |
| `SafeOwnersProofs` | `TypeCorrect`: `TypeOK` | |
| | `EnoughWalletsSign`: `WalletsCanApprove` | |
| | `ProjectOwnersStay`: `OnlyWalletsMove` | |
| | `WalletsGoAsTheyCame`: `LeavesNoTrace` | `ConfiguredThreshold` |
| `ModuleProxyFactoryProofs` | `TypeCorrect`: `TypeOK` | |
| | `EnabledModulesAreOwnCorrect`: `EnabledModulesAreOwn` | |
| | `CreatedSafesAreReadyCorrect`: `CreatedSafesAreReady` | |
| | `AlwaysCreatableCorrect`: `AlwaysCreatable` | |
| `CollectionProofs` | `OutdatedByOthers`: `OutdatedOnlyIfRaced` | |
| | `FindsItsContracts`: `ArtifactsAreOfTheScript` | `CodesTellNames` |
| | `ActionsPerformTheTransactions`: `ActionsAreTheTransactions` | |
| | `LabelsAreTrue`: `DeploymentsAreLabeled` | |
| | `PreviewShowsTheCheck`: `PreviewIsTrue` | |
| | `ConflictsAreRefused`: `ThrowsExactlyOnConflict` | |
| | `TreesAreValid`: `LeavesAreValid` | |
| | `LeavesAreABatchPlan`: `NetworkLeavesAreABatchPlan` | |
| `ProposalProofs` | `CollectsItsOwn`: `OwnTransactions` | `[]Alone` |
| | `ProposesAsConfigured`: `ProposedAsConfigured` | `[]Alone` |
| | `ProposesCompleteTrees`: `ProposedTreeIsComplete` | `[]Alone`, `DistinctChains` |
| `AfterDeploymentProofs` | `RecordsTellTheTruth`: `RecordsAreTrue` | |
| | `HistoryIsKept`: `NothingForgotten` | |
| | `VerifiedAsReported`: `ReportedAsVerified` | |
| | `NoContractSkipped`: `NoContractIsLeftOut` | |
| | `NothingIsMissing`: `RecordsAreComplete` | |

**SphinxModuleProofs.** The first four safety properties are inductive only together, and
with three more facts (`IInv`). `SavedIsPrefix` says that the log to which a revert
returns is a prefix of the present one, without which a revert could disturb
`ExecutedInOrder`; `LeafInFlight` carries the checks of a leaf over the Safe's
call, to the moment at which it is logged; `ActiveHasLeavesLeft` says that storage
is not at the end of an approved root. What a log's growth or cut does is stated in lemmas
about logs (`AppendFollowsTree`, `PrefixFollowsTree`, `AppendOutcome`, `PrefixOutcome`).
`TerminalForever` follows from `IInv` step by step: an open frame's root is the
APPROVED one. `NeverStuck` needs that an approved root came from an APPROVE leaf of
its tree (`ComesFromLeaf`). `UsedOnceInNonceOrder` needs that incrementing commutes
with the wrap (`ModSucc`), for any nonce space.

The refinement maps the contract to `RootLifecycle` by what a transaction would leave
behind if its frame were reverted. A step inside `execute` is then a stutter, and its last
step performs the whole batch. `RootLifecycle` has no empty batch, so that a committed
`execute` has logged at least one leaf (`BatchNotEmpty`) is part of the argument.

**ExecutorProofs.** `BatchFits` says that what is counted as executed and the batch that
is sent never exceed the deployment's leaves; `PreparedInOrder`, that an attempt goes on only
with what the steps before it have deployed. `FundsSuffice` is inductive together with
`FundedFirst` (until the approval what was transferred is in the Safe, and beyond the
transfer all that is required, also for an approval that a dead attempt left behind) and
`LogFits` (an approved deployment has a leaf left); that a batch which succeeded only as far
as it could pay leaves what the simulation left is shown with a least counterexample
(`SpendEffect`). `ModuleAsPromised` is what
the module guarantees of the phases and logs of roots. `ReportsAreTrue` needs `OursAlone` as
well, the root that the executor reads as active is the deployment or none, and this is
false when another root is active: `NoRival` (no root with transactions was signed with a
later nonce) is the case that run `executor` checks, and run `executor_rival` shows what
happens otherwise. That the longest beginning of the leaves that fits is found for any
leaves and networks is an induction, done as a least counterexample (`LeastNumber`).

**SafeOwnersProofs.** `Inv` is `TypeOK` (no owner repeats and no list is shorter than the
threshold) and `AttemptOK` (where a loop is, how many wallets it has dealt with). Wallets are
sorted by address before the loops; that a sorted list of any set of wallets exists is
proved by insertion and least counterexample. `OnlyWalletsMove` follows from what
one insertion or removal in the Safe's list does to `ProjectOrder`, the order of its other
owners (`Added`, `Removed`). `LeavesNoTrace` needs the invariant `Trace`: until an attempt is
cut short after the approval, the wallets of the list are those added so far, the last one first, at its head,
and enough of the project's owners are below them (`Stacked`). It is false without
`ConfiguredThreshold` (see `SafeOwners` above).

**ModuleProxyFactoryProofs.** From `FactoryAssumption` (salt 0 exists; Sphinx's Safes have a
supported version; `NoSafe` is no Safe). The inductive invariant adds `Placed`: a module lies
at an address made of its own Safe, and a Safe enables only addresses made of itself.
`AlwaysCreatable` needs in addition that a module's Safe exists: a module at the
address that a Safe's creation needs would belong to that Safe, which has no code yet.

**CollectionProofs, the artifacts.** After its look at the folder a command's index is the folder,
whatever was cached (`IndexIsFolder`), and stays so until somebody compiles or deletes;
so what it looks up exists (`LookOK`), which is `OutdatedOnlyIfRaced`. For
`ArtifactsAreOfTheScript`, `RightOK` says what an undisturbed command holds at each step:
what the script deploys is in the artifacts, each entry that it found has a build info and an
artifact with the same code, and there is an entry for each init code that a build info has.
That the name in a build info leads to the artifact of the same contract is where
`CodesTellNames` is used: what a script deploys is the code of one contract only.

**CollectionProofs, the transactions.** The invariant `CollectionOK` is about the record that
the script appends to. Each access is sound (`GoodAccess`): an address tells what was deployed
there, and its nonce is already spent. No address has two codes (`OneCode`). And the record
divides into the Safe's transactions (`Blocks`): the roots that `parseAccountAccesses` will
find are exactly the transactions of the Safe, in their order, each followed by what it
deployed and by all of it. That a later access leaves this division as it is is what the
actions have to show, also with other forks and stray calls in between. The command then
makes one configuration of the record (`TheConfig`), and the three properties follow from
what its filters return: a selection by a set lists the places of the set in ascending order
(`SelectInOrder`), and there is only one such list (`AscendingListUnique`).

**CollectionProofs, the tree.** As an iteration is a step of `MerkleTreeLoop`, the induction
over the entries is the one over steps. `LoopOK` says that while nothing is thrown the flags
are true of the entries so far and their leaves lie one after the other (`Collecting`, with
`Layout`: which entry's leaf is at a place), and that what is thrown had a cause
(`Conflicting`). A tree's validity is then a matter of one entry or of two different chains;
that the executor's filter returns one entry's leaves in their order is `SelectInRun`.

**ProposalProofs.** All commands of a project share `sphinx-deployment-info.txt`, which
nothing protects, so the theorems are about behaviours in which no two commands are
between calling Forge and reading what it found (`Alone`); run `proposal` has one command
at a time. `Inv` says of each command that what it holds is of its own script, project and
Safe (`Sound`: `UpToDate`, `OwnFile`, `MayRelay`). That the tree and the request have the
same chains needs that no two networks are one chain: the CLI rejects repetitions, while two
names of one chain in `foundry.toml`, or a repetition in `sphinxConfig`, are not rejected;
`DistinctChains` excludes them.

**AfterDeploymentProofs.** The verification's part (`VerificationInv`) says of the loop that
no contract before the present one was left out (`NoneSkipped`) and that what it reported is
so (`Truthful`). The records' part (`RecordsInv`) says of the disk, the platform and the
record that a command holds in memory that every whole file tells the truth and has its history
in order (`TrueFile`); before `sphinx deploy` writes, its files are of earlier deployments
(`Before`), and while it writes, what it writes keeps what the files knew (`Keeps`), for any
interruption and torn file. `RecordsAreComplete` needs in addition `CompleteInv`: what
`sphinx deploy` records has been executed to its end, the record that it holds has all
contracts and receipts of it (`CompleteRecord`), and what is not on the disk is still in the
list of what it will write (`WrittenSoFar`). No contract is lost because those of one file are
put on each other (`AddedFacts`, `AllRecorded`), and none is below another of its deployment
because different contracts have different file names (`FileNamesDiffer`), unless the
deployment is `Ambiguous`. That a file's history stays in the order of deployment when
several contracts of one deployment go to it is that filters keep an order
(`SelectInKeepsOrder`, `FlattenInOrder`, `ContractsInOrder`). `InputsOK` says that a compiler
input is torn only after an interruption.

**Selection and SelectionProofs.** The code's filters are `SelectIn`, a selection by a set:
the library's `SelectSeq` is given by a recursion that takes an operator, about which nothing
can be proved here. `SelectInElements` and `SelectInType` say what it returns for every
sequence, `SelectInOrder`, `SelectInKeepsOrder`, `SelectInRun` and `SelectAll` in which order;
`FlattenDistinct` and `FlattenInOrder` say that a concatenation of disjoint sequences repeats
nothing and one of ordered sequences is ordered, and `LeastNumber`,
`GreatestIndex`, `FiniteRange` and `DistinctCardinality` are the facts about numbers,
sequences and finite sets that the other proofs share.

Every invariant and action property that a passing run checks is stated by a theorem of this
table. Only model-checked are `Settles` and `AttemptsEnd` of `Executor`, on the instance of
run `executor`: they are liveness under fairness, which is outside TLAPS's reach.

## Not modelled

- `ManagedService` and `PermissionlessRelay` forward a call in one transaction, for a
  caller with a role or for anybody. The module makes no difference between callers, and
  `Executor` lets everybody act; the gas that `ManagedService` adds is in the estimates.
- `contracts/src/networks.ts` is a table of networks; what steers control (batching, block
  gas limits, buffers) is a parameter of `Executor` and `Collection`.
- `analytics.ts`, spinners, tables, texts and the ABI decoding of variables: no state.
- The simulation of a deployment before it is proposed: it is not in this repository's
  sources, which only mention that it runs the executor's code.
- `cancelPreviousDripVersions` of `predeploys.ts`: nothing calls it.
- Vendored code (forge-std, Gnosis Safe) and compiled artifacts; the Safe's own rules are
  modelled where Sphinx relies on them, and marked as external.

## Plan

In this order, the most important first:

1. `SafeOwners` composed with `Executor`'s attempt and its rivals.
2. Constructors that revert within a transaction, in `Collection`.
