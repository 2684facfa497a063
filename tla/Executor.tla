------------------------------- MODULE Executor -------------------------------
(***************************************************************************)
(* The off-chain executor of one deployment on one network                 *)
(* (packages/core/src/actions/execute.ts, attemptDeployment and below),    *)
(* against the module of that network, which behaves as RootLifecycle      *)
(* says.                                                                   *)
(*                                                                         *)
(* An attempt is a sequence of awaited calls; between two of them the Safe *)
(* owners may cancel the deployment or approve another root, and the       *)
(* process may die with a transaction in flight.  The platform then calls  *)
(* attemptDeployment again; `sphinx deploy` on a live network makes one    *)
(* attempt and, on a network that is new to Sphinx, first deploys the      *)
(* system contracts (core/src/languages/solidity/predeploys.ts), as        *)
(* somebody else may do at the same time.                                  *)
(***************************************************************************)
EXTENDS Integers, Sequences, FiniteSets, FiniteSetsExt

CONSTANTS
    Roots, NoRoot,
    deployment,     \* the root this executor was asked to execute
    Size,           \* Size[r]: leaves of r on this network; 0 for a root
                    \* whose only leaf is a CANCEL leaf
    Nonce,          \* Nonce[r]: the Merkle root nonce r was signed with
    Required,       \* the indexes of the leaves that require success
    LeafGas,        \* LeafGas[i]: the gas field of the deployment's leaf i
    LeafBytes,      \* bytes of a leaf's calldata: [zero, nonZero], in 1000s
    Networks,       \* [blockGasLimit, batching, implementsEIP2028,
                    \*  buffersGasLimit]
    ExecutionModes, \* "Platform", "LiveNetworkCLI", or both
    StartingBalance,    \* the Safe's balance when the script was run, and
    FundsRequested,     \* what the script asked for on top of it
    SimulatedBalance,   \* [i]: the Safe's balance after leaf i, as simulated
    NumSystem,      \* system contracts besides the CREATE2 proxy, which is 0
    MaxCrashes      \* bound: how often the executor's process dies

ASSUME ExecutorAssumption ==
    /\ deployment \in Roots
    /\ NoRoot \notin Roots
    /\ Size \in [Roots -> Nat] /\ Nonce \in [Roots -> Nat]
    /\ Size[deployment] > 1
    /\ LeafGas \in [1 .. Size[deployment] - 1 -> Nat]
    /\ LeafBytes.zero \in Nat /\ LeafBytes.nonZero \in Nat
    /\ \A n \in Networks : n.blockGasLimit \in Nat
    /\ StartingBalance \in Nat /\ FundsRequested \in Nat
    /\ SimulatedBalance \in [0 .. Size[deployment] - 1 -> Nat]
    /\ SimulatedBalance[0] = StartingBalance + FundsRequested
    /\ \A i \in 1 .. Size[deployment] - 1 :
          SimulatedBalance[i] <= SimulatedBalance[i - 1]
    /\ FundsRequested > 0 => SimulatedBalance[1] = SimulatedBalance[0]
    /\ ExecutionModes \subseteq {"Platform", "LiveNetworkCLI"}
    /\ NumSystem \in Nat \ {0}
    /\ MaxCrashes \in Nat

VARIABLES
    phase, size, performed, current,    \* the module, see RootLifecycle
    deployed,    \* the Safe and its module have code
    balance,     \* the Safe's
    transferred, \* the requested funds were sent to the Safe
    taken,       \* somebody else took money from the Safe after the script ran
    pool,        \* transactions in flight
    attempt,     \* the attempt in progress: [pc, contract, active, executed, batch]
    report,      \* what the platform was last told of the deployment
    crashes,
    system,      \* the system contracts with code
    network,     \* the network's gas rules, one of Networks
    executionMode,
    isSystemDeployed \* the network config's, from before the attempt

chain == <<phase, size, performed, current>>
money == <<balance, transferred, taken>>
setting == <<network, executionMode, isSystemDeployed>>
vars == <<chain, deployed, money, pool, attempt, report, crashes,
          system, setting>>

Module == INSTANCE RootLifecycle

-----------------------------------------------------------------------------
(* What the executor reads of the module, and the transactions it sends. *)

(* merkleRootStates(root).  A root that was never used, and bytes32(0), is *)
(* EMPTY with nothing executed.                                            *)
Status(r) == IF r = NoRoot THEN "EMPTY" ELSE phase[r]

LeavesExecuted(r) ==
    IF Status(r) = "EMPTY" THEN 0 ELSE Len(performed[r]) + 1

(* merkleRootNonce: every root used so far spent one. *)
ModuleNonce == Cardinality({r \in Roots : phase[r] # "EMPTY"})

FundTx == [kind |-> "fund", first |-> 0, count |-> 0]
DeployTx == [kind |-> "deploy", first |-> 0, count |-> 0]
SystemTx(contract) == [kind |-> "system", first |-> contract, count |-> 0]
ApproveTx == [kind |-> "approve", first |-> 0, count |-> 0]
ExecuteTx(first, n) == [kind |-> "execute", first |-> first, count |-> n]

(* deploymentContext.executeTransaction: on the platform, the same         *)
(* transaction of a deployment is not sent again while it is in flight.    *)
Send(tx) == pool' = pool \cup {tx}

(* Mutants, each the body of the definition after it as a plausible bug    *)
(* would leave it; no action uses them.                                    *)
OnlyTheRequest == FundsRequested
AlwaysDeploys == TRUE
CountsApproval(r) == LeavesExecuted(r)

(* Once a transfer was made for the deployment, the platform may answer    *)
(* with its receipt instead of making another.                             *)
AlreadyMade == executionMode = "Platform" /\ transferred

requiredBalance == StartingBalance + FundsRequested

(* What leaf i sends, and the balance it demands.  The script's run        *)
(* simulates every action with the required balance, one after the other,  *)
(* and ends if one fails; money that an action brings in is left out.  If  *)
(* funds were requested, the first action checks them: the Safe sends      *)
(* itself what is required.                                                *)
Value(i) == SimulatedBalance[i - 1] - SimulatedBalance[i]

Demand(i) == IF i = 1 /\ FundsRequested > 0 THEN SimulatedBalance[0] ELSE Value(i)

(* The Safe has no code yet. *)
NeedsDeployment == ~deployed

(* The action a failed root is blamed on: its last executed leaf. *)
FailedAction(r) == LeavesExecuted(r) - 1

SystemContracts == 0 .. NumSystem

(* Mutant: the loop is left at the first contract that is there. *)
MissingUntilTheFirst == IF system = {} THEN SystemContracts ELSE {}

(* The system contracts without code, the proxy that deploys the others    *)
(* among them.                                                             *)
MissingContracts == SystemContracts \ system

checkSystemDeployed == 1 .. NumSystem \subseteq system

Idle == [pc |-> "idle", contract |-> 0, active |-> NoRoot, executed |-> 0, batch |-> 0]

NoReport == [kind |-> "none", action |-> 0]

Init ==
    /\ Module!Init
    /\ executionMode \in ExecutionModes
    /\ system \in {{}, {0}, SystemContracts}
    /\ isSystemDeployed = checkSystemDeployed
    /\ executionMode = "Platform" => isSystemDeployed
    /\ deployed \in IF isSystemDeployed THEN BOOLEAN ELSE {FALSE}
    /\ balance \in 0 .. SimulatedBalance[0]
    /\ transferred = FALSE
    /\ taken \in BOOLEAN
    /\ taken <=> balance < StartingBalance
    /\ taken => deployed
    /\ pool = {}
    /\ attempt = Idle
    /\ report = NoReport
    /\ crashes = 0
    /\ network \in Networks

Go(pc) == attempt' = [attempt EXCEPT !.pc = pc]

(* The attempt ends and the platform is told how. *)
Tell(kind, action) ==
    /\ report' = [kind |-> kind, action |-> action]
    /\ attempt' = Idle

(* Mutant: a canceled deployment passes for a success. *)
HandleStatus_Cancel(status, action) ==
    CASE status \in {"COMPLETED", "CANCELED"} -> Tell("success", 0)
      [] status = "FAILED" -> Tell("failure", action)
      [] OTHER -> Tell("error", 0)

(* handleStatus, and attemptDeployment's handling of its result: any       *)
(* status but the three terminal ones is thrown and ends in handleError.   *)
HandleStatus(status, action) ==
    CASE status = "COMPLETED" -> Tell("success", 0)
      [] status = "FAILED" -> Tell("failure", action)
      [] status = "CANCELED" -> Tell("failure", 0)
      [] OTHER -> Tell("error", 0)

-----------------------------------------------------------------------------
(* One attempt *)

(* attemptDeployment starts, for the first time or because no earlier      *)
(* attempt came to an answer.                                              *)
Attempt ==
    /\ attempt.pc = "idle"
    /\ report.kind \in {"none", "error"}
    /\ executionMode = "LiveNetworkCLI" => report.kind = "none" /\ crashes = 0
    /\ IF deployed /\ Status(deployment) = "COMPLETED"
       THEN Tell("already", 0)
       ELSE /\ Go(IF isSystemDeployed THEN "fund" ELSE "system")
            /\ UNCHANGED report
    /\ UNCHANGED <<chain, deployed, money, pool, crashes, system, setting>>

(* deploySphinxSystem: the missing contracts are deployed in order.  The   *)
(* sender of the proxy's transaction may lack funds.                       *)
DeploySystem ==
    /\ attempt.pc = "system"
    /\ \/ /\ MissingContracts = {}
          /\ Go("fund")
          /\ UNCHANGED <<pool, report>>
       \/ /\ MissingContracts # {}
          /\ LET contract == Min(MissingContracts)
             IN /\ attempt' = [attempt EXCEPT !.pc = "awaitSystem", !.contract = contract]
                /\ Send(SystemTx(contract))
          /\ UNCHANGED report
       \/ /\ 0 \in MissingContracts
          /\ Tell("error", 0)
          /\ UNCHANGED pool
    /\ UNCHANGED <<chain, deployed, money, crashes, system, setting>>

(* Mutant: the attempt goes on while the transfer is in flight. *)
FundWithoutWaiting ==
    /\ attempt.pc = "fund"
    /\ Go("deploySafe")
    /\ IF balance >= requiredBalance THEN UNCHANGED pool ELSE Send(FundTx)
    /\ UNCHANGED <<chain, deployed, money, report, crashes, system, setting>>

(* Top up the Safe if its balance is too low. *)
Fund ==
    /\ attempt.pc = "fund"
    /\ \/ /\ balance >= requiredBalance \/ AlreadyMade
          /\ Go("deploySafe") /\ UNCHANGED pool
       \/ /\ balance < requiredBalance
          /\ Go("awaitFund") /\ Send(FundTx)
    /\ UNCHANGED <<chain, deployed, money, report, crashes, system, setting>>

(* Deploy the Safe with its module if there is no code yet. *)
DeploySafe ==
    /\ attempt.pc = "deploySafe"
    /\ IF NeedsDeployment
       THEN Go("awaitDeploy") /\ Send(DeployTx)
       ELSE Go("readState") /\ UNCHANGED pool
    /\ UNCHANGED <<chain, deployed, money, report, crashes, system, setting>>

(* Read the deployment's status: approve it, go on with it, or report it.  *)
ReadState ==
    /\ attempt.pc = "readState"
    /\ LET status == Status(deployment) IN
       \/ /\ status = "EMPTY"
          /\ Go("awaitApprove") /\ Send(ApproveTx) /\ UNCHANGED report
       \/ /\ status = "APPROVED"
          /\ Go("readActive") /\ UNCHANGED <<pool, report>>
       \/ /\ status \notin {"EMPTY", "APPROVED"}
          /\ HandleStatus(status, FailedAction(deployment))
          /\ UNCHANGED pool
    /\ UNCHANGED <<chain, deployed, money, crashes, system, setting>>

(* executeBatchActions reads which root is active ... *)
ReadActive ==
    /\ attempt.pc = "readActive"
    /\ attempt' = [attempt EXCEPT !.pc = "readActiveState", !.active = current]
    /\ UNCHANGED <<chain, deployed, money, pool, report, crashes, system, setting>>

(* ... and, in a second call, the state of the root it read, from which it *)
(* takes the leaves of the deployment that are still to be executed.       *)
ReadActiveState ==
    /\ attempt.pc = "readActiveState"
    /\ LET status == Status(attempt.active)
           leavesExecuted == LeavesExecuted(attempt.active)
       IN IF status = "FAILED" \/ leavesExecuted >= Size[deployment]
          THEN HandleStatus(status, FailedAction(attempt.active))
          ELSE /\ attempt' = [attempt EXCEPT !.pc = "batch",
                                             !.executed = leavesExecuted]
               /\ UNCHANGED report
    /\ UNCHANGED <<chain, deployed, money, pool, crashes, system, setting>>

-----------------------------------------------------------------------------
(* The size of a batch; gas is in units of 1000. *)

getMaxGasLimit ==
    IF network.blockGasLimit <= 8500 THEN network.blockGasLimit
    ELSE IF network.blockGasLimit <= 20000 THEN (network.blockGasLimit * 8) \div 10
    ELSE network.blockGasLimit \div 2

(* Leaf 0, the APPROVE leaf, has no gas field: what its data decode to.    *)
estimateModuleExecutionGas(leaves) ==
    30 + MapThenSumSet(LAMBDA i : (IF i = 0 THEN 0 ELSE LeafGas[i]) + 24, leaves)

getGasPerCalldata(n) ==
    n * (4 * LeafBytes.zero + (IF network.implementsEIP2028 THEN 16 ELSE 68) * LeafBytes.nonZero)

(* The contract's own gas grows with the square of the calldata's length,  *)
(* which the code takes in hexadecimal digits.                             *)
managedServiceGas(n) ==
    LET length == 2 * n * (LeafBytes.zero + LeafBytes.nonZero)
    IN (191 * length * length + 37890 * length) \div 100000 + 10

estimateGasViaManagedService(leaves) ==
    LET n == Cardinality(leaves)
        estimate == 21 + getGasPerCalldata(n) + estimateModuleExecutionGas(leaves)
                       + managedServiceGas(n)
    IN (estimate * 108) \div 100 + 40

(* `sphinx deploy` calls the module itself. *)
estimateGasViaSigner(leaves) ==
    LET estimate == 21 + getGasPerCalldata(Cardinality(leaves))
                       + estimateModuleExecutionGas(leaves)
    IN (estimate * 108) \div 100 + 40

estimateGas(leaves) ==
    IF executionMode = "Platform" THEN estimateGasViaManagedService(leaves)
                                  ELSE estimateGasViaSigner(leaves)

(* The gas limit of a batch's transaction.  With a buffer, it is what the  *)
(* node finds necessary and the estimate, but never more than the maximum; *)
(* without one, and on the platform, what is necessary.                    *)
GasLimit(leaves) ==
    IF executionMode = "LiveNetworkCLI" /\ network.buffersGasLimit
    THEN Min({estimateModuleExecutionGas(leaves) + estimateGasViaSigner(leaves), getMaxGasLimit})
    ELSE network.blockGasLimit

Batch(first, n) == first .. first + n - 1

isExecutable(first, n) ==
    getMaxGasLimit > estimateGas(Batch(first, n))

MaxBatchSize(first) ==
    IF network.batching THEN Size[deployment] - first ELSE 1

(* Mutant: all leaves of the network instead of those that are left. *)
AllLeaves(first) == Size[deployment]

(* Batches are tried from the smallest on, up to the first that is too     *)
(* large; 0 stands for the exception that is thrown if a single leaf is.   *)
findMaxBatchSize(first) ==
    Max({0} \cup {n \in 1 .. MaxBatchSize(first) :
                     \A k \in 1 .. n : isExecutable(first, k)})

(* If the active root has changed, the APPROVE leaf may be among the leaves*)
(* to execute; decoding it throws or yields a batch that will revert.      *)
NoValidBatch ==
    /\ attempt.pc = "batch"
    /\ attempt.executed = 0 \/ findMaxBatchSize(attempt.executed) = 0
    /\ Tell("error", 0)
    /\ UNCHANGED <<chain, deployed, money, pool, crashes, system, setting>>

SendBatch ==
    LET n == findMaxBatchSize(attempt.executed)
    IN /\ attempt.pc = "batch"
       /\ n > 0
       /\ attempt' = [attempt EXCEPT !.pc = "awaitExecute", !.batch = n]
       /\ Send(ExecuteTx(attempt.executed, n))
       /\ UNCHANGED <<chain, deployed, money, report, crashes, system, setting>>

(* Re-read the state of the root that was active when the loop began, and  *)
(* stop on a failure or after the last leaf.                               *)
AfterBatch ==
    /\ attempt.pc = "readAfter"
    /\ LET status == Status(attempt.active)
           executed == attempt.executed + attempt.batch
       IN IF status = "FAILED" \/ executed = Size[deployment]
          THEN HandleStatus(status, FailedAction(attempt.active))
          ELSE /\ attempt' = [attempt EXCEPT !.pc = "batch",
                                             !.executed = executed, !.batch = 0]
               /\ UNCHANGED report
    /\ UNCHANGED <<chain, deployed, money, pool, crashes, system, setting>>

-----------------------------------------------------------------------------
(* Transactions are mined in any order.  A transaction of the attempt in   *)
(* progress answers it: with a receipt, or, reverted, with an exception.   *)

Awaited ==
    [awaitSystem |-> SystemTx(attempt.contract), awaitFund |-> FundTx,
     awaitDeploy |-> DeployTx, awaitApprove |-> ApproveTx,
     awaitExecute |-> ExecuteTx(attempt.executed, attempt.batch)]

Resume ==
    [awaitSystem |-> "system", awaitFund |-> "deploySafe", awaitDeploy |-> "readState",
     awaitApprove |-> "readActive", awaitExecute |-> "readAfter"]

Waiting == attempt.pc \in DOMAIN Awaited

(* Mutant: a reverted transaction is waited for for ever. *)
Answer_NoRevert(tx, ok) ==
    /\ pool' = pool \ {tx}
    /\ IF Waiting /\ Awaited[attempt.pc] = tx /\ ok
       THEN Go(Resume[attempt.pc]) /\ UNCHANGED report
       ELSE UNCHANGED <<attempt, report>>
    /\ UNCHANGED <<crashes, setting>>

Answer(tx, ok) ==
    /\ pool' = pool \ {tx}
    /\ IF Waiting /\ Awaited[attempt.pc] = tx
       THEN IF ok THEN Go(Resume[attempt.pc]) /\ UNCHANGED report
            ELSE Tell("error", 0)
       ELSE UNCHANGED <<attempt, report>>
    /\ UNCHANGED <<crashes, setting>>

(* A second deployment of a contract reverts; the proxy's transaction is   *)
(* presigned, and the same one whoever sends it.                           *)
MineSystem(tx) ==
    /\ tx \in pool
    /\ tx.kind = "system"
    /\ \E ok \in BOOLEAN :
          /\ ok => tx.first \notin system \/ tx.first = 0
          /\ ~ok => tx.first \in system
          /\ Answer(tx, ok)
    /\ system' = system \cup {tx.first}
    /\ UNCHANGED <<chain, deployed, money>>

MineFund ==
    /\ FundTx \in pool
    /\ Answer(FundTx, TRUE)
    /\ balance' = balance + FundsRequested
    /\ transferred' = TRUE
    /\ UNCHANGED <<chain, deployed, system, taken>>

(* The proxy factory reverts when the Safe exists already; a call of a     *)
(* factory that does not exist has no effect.                              *)
MineDeploy ==
    /\ DeployTx \in pool
    /\ Answer(DeployTx, ~deployed)
    /\ deployed' = (deployed \/ checkSystemDeployed)
    /\ UNCHANGED <<chain, money, system>>

CanApprove(r) ==
    /\ deployed
    /\ current = NoRoot
    /\ phase[r] = "EMPTY"
    /\ Nonce[r] = ModuleNonce

MineApprove ==
    /\ ApproveTx \in pool
    /\ Answer(ApproveTx, CanApprove(deployment))
    /\ IF CanApprove(deployment)
       THEN /\ size' = [size EXCEPT ![deployment] = Size[deployment]]
            /\ Module!Begin(deployment)
       ELSE UNCHANGED chain
    /\ UNCHANGED <<deployed, money, system>>

(* The leaves are the deployment's, so the module takes them only while    *)
(* the deployment is active and they are the next ones.  Leaf 0 is the     *)
(* APPROVE leaf, which `execute` rejects.  Each leaf must get its gas.     *)
HasGas(tx) ==
    LET leaves == Batch(tx.first, tx.count)
    IN estimateModuleExecutionGas(leaves) <= GasLimit(leaves)

CanExecute(tx) ==
    /\ current = deployment
    /\ tx.first = LeavesExecuted(deployment)
    /\ tx.first + tx.count <= size[deployment]
    /\ HasGas(tx)

(* The Safe's answers to a batch of n leaves from index `first` on: all of *)
(* them, or up to the first fatal failure.                                 *)
Outcomes(first, n) ==
    {o \in UNION {[1 .. k -> BOOLEAN] : k \in 1 .. n} :
        \/ Len(o) = n
        \/ ~o[Len(o)] /\ first + Len(o) - 1 \in Required}

Perform(r, first, outcome) ==
    /\ performed' = [performed EXCEPT ![r] = @ \o
          [i \in 1 .. Len(outcome) |->
              [leaf |-> [index |-> first + i - 1,
                         requireSuccess |-> first + i - 1 \in Required],
               success |-> outcome[i]]]]
    /\ Module!PerformBatch

(* An action succeeds only if the Safe has what it demands, and takes what *)
(* it sends; one that fails takes nothing.                                 *)
Spend(first, outcome) ==
    \E left \in [0 .. Len(outcome) -> 0 .. balance] :
        /\ left[0] = balance
        /\ \A i \in 1 .. Len(outcome) :
              LET leaf == first + i - 1
              IN IF outcome[i]
                 THEN /\ Demand(leaf) <= left[i - 1]
                      /\ left[i] = left[i - 1] - Value(leaf)
                 ELSE left[i] = left[i - 1]
        /\ balance' = left[Len(outcome)]

MineExecute(tx) ==
    /\ tx \in pool
    /\ tx.kind = "execute"
    /\ Answer(tx, CanExecute(tx))
    /\ IF CanExecute(tx)
       THEN \E outcome \in Outcomes(tx.first, tx.count) :
               Perform(deployment, tx.first, outcome) /\ Spend(tx.first, outcome)
       ELSE UNCHANGED <<chain, balance>>
    /\ UNCHANGED <<deployed, transferred, taken, system>>

Mine ==
    \/ \E tx \in pool : MineSystem(tx)
    \/ MineFund
    \/ MineDeploy
    \/ MineApprove
    \/ \E tx \in pool : MineExecute(tx)

-----------------------------------------------------------------------------
(* Everybody else *)

(* The process dies, the transaction it waits for does not. *)
Crash ==
    /\ attempt.pc # "idle"
    /\ crashes < MaxCrashes
    /\ crashes' = crashes + 1
    /\ attempt' = Idle
    /\ UNCHANGED <<chain, deployed, money, pool, report, system, setting>>

(* Somebody else deploys the system contracts. *)
OthersDeploySystem(contract) ==
    /\ contract \in MissingContracts
    /\ contract # 0 => 0 \in system
    /\ system' = system \cup {contract}
    /\ UNCHANGED <<chain, deployed, money, pool, attempt, report, crashes, setting>>

(* The owners cancel whichever root is active. *)
OwnersCancel(r) ==
    /\ Size[r] = 0
    /\ Nonce[r] = ModuleNonce
    /\ Module!GiveUp(r)
    /\ UNCHANGED <<deployed, money, pool, attempt, report, crashes, system, setting>>

(* Money leaves the Safe for something else than the deployment. *)
Take ==
    /\ balance > 0
    /\ balance' \in 0 .. balance - 1
    /\ taken' = TRUE

(* Another root is approved, and executed by its own executor; its actions *)
(* may spend from the Safe too.                                            *)
OthersApprove(r) ==
    /\ r # deployment
    /\ Size[r] > 0
    /\ CanApprove(r)
    /\ size' = [size EXCEPT ![r] = Size[r]]
    /\ Module!Begin(r)
    /\ UNCHANGED <<deployed, money, pool, attempt, report, crashes, system, setting>>

OthersExecute(r) ==
    /\ r # deployment
    /\ current = r
    /\ \E n \in 1 .. size[r] - LeavesExecuted(r) :
          \E outcome \in Outcomes(LeavesExecuted(r), n) :
              Perform(r, LeavesExecuted(r), outcome)
    /\ Take \/ UNCHANGED <<balance, taken>>
    /\ UNCHANGED <<deployed, transferred, pool, attempt, report, crashes, system, setting>>

(* The owners spend from the Safe by themselves. *)
OwnersSpend ==
    /\ deployed
    /\ Take
    /\ UNCHANGED <<chain, deployed, transferred, pool, attempt, report, crashes, system,
                   setting>>

Step ==
    \/ Attempt \/ DeploySystem \/ Fund \/ DeploySafe \/ ReadState
    \/ ReadActive \/ ReadActiveState \/ AfterBatch
    \/ NoValidBatch
    \/ SendBatch

Others ==
    \/ OwnersSpend
    \/ \E contract \in SystemContracts : OthersDeploySystem(contract)
    \/ \E r \in Roots : OwnersCancel(r) \/ OthersApprove(r) \/ OthersExecute(r)

Next == Step \/ Mine \/ Crash \/ Others

(* The platform retries, every call of an attempt returns, and the network *)
(* mines what it was sent.  Nobody has to cancel, and nothing has to crash.*)
Fairness ==
    /\ WF_vars(Step)
    /\ \A contract \in SystemContracts : WF_vars(MineSystem(SystemTx(contract)))
    /\ WF_vars(MineFund) /\ WF_vars(MineDeploy) /\ WF_vars(MineApprove)
    /\ \A n \in 1 .. Size[deployment], first \in 0 .. Size[deployment] :
          WF_vars(MineExecute(ExecuteTx(first, n)))

Spec == Init /\ [][Next]_vars
FairSpec == Spec /\ Fairness

-----------------------------------------------------------------------------
(* Properties *)

TypeOK ==
    /\ phase \in [Roots -> {"EMPTY", "APPROVED", "COMPLETED", "CANCELED", "FAILED"}]
    /\ size \in [Roots -> Nat]
    /\ current \in Roots \cup {NoRoot}
    /\ deployed \in BOOLEAN
    /\ balance \in Nat /\ transferred \in BOOLEAN /\ taken \in BOOLEAN
    /\ system \subseteq SystemContracts /\ attempt.contract \in SystemContracts
    /\ executionMode \in ExecutionModes /\ isSystemDeployed \in BOOLEAN
    /\ attempt.pc \in {"idle", "system", "fund", "deploySafe", "readState", "readActive",
                       "readActiveState", "batch", "readAfter"}
                      \cup DOMAIN Awaited
    /\ attempt.active \in Roots \cup {NoRoot}
    /\ attempt.executed + attempt.batch \in 0 .. Size[deployment]
    /\ report.kind \in {"none", "success", "failure", "already", "error"}
    /\ crashes \in 0 .. MaxCrashes
    /\ network \in Networks

(* What the platform is told is what happened on chain: success and        *)
(* "already executed" mean that the deployment's root is COMPLETED, a      *)
(* failure that it is FAILED, by the very action that is blamed, or        *)
(* CANCELED.                                                               *)
ReportsAreTrue ==
    /\ report.kind \in {"success", "already"} => phase[deployment] = "COMPLETED"
    /\ report.kind = "failure" =>
          \/ phase[deployment] = "CANCELED"
          \/ /\ phase[deployment] = "FAILED"
             /\ report.action = Len(performed[deployment])
             /\ Module!Fatal(performed[deployment][report.action])

(* No transaction is sent that cannot do its work: the system contracts    *)
(* are there before the Safe, whoever deploys them, and the Safe before the*)
(* approval; a batch ends with the deployment's last leaf, and the         *)
(* transaction's gas covers what the module demands for its leaves.        *)
SentWhenPossible ==
    \A tx \in pool :
        CASE tx.kind = "system" -> tx.first # 0 => 0 \in system
          [] tx.kind = "deploy" -> checkSystemDeployed
          [] tx.kind = "approve" -> deployed
          [] tx.kind = "execute" ->
                /\ deployed
                /\ tx.first + tx.count <= Size[deployment]
                /\ HasGas(tx)
          [] OTHER -> TRUE

(* handleSuccess follows a successful execution of this deployment.  *)
SuccessIsOurs == report.kind = "success" => phase[deployment] = "COMPLETED"

(* A deployment that is approved can pay for the rest of its actions,      *)
(* whenever the attempts die, in whichever order the transactions are mined*)
(* and whether or not the platform makes a transfer again: unless somebody *)
(* else took money from the Safe, which the code does not guard against,   *)
(* each action left finds the balance that the simulation gave it.         *)
FundsSuffice ==
    phase[deployment] = "APPROVED" /\ ~taken =>
        balance >= SimulatedBalance[Len(performed[deployment])]

(* The deployment can no longer be approved: its nonce is spent. *)
Retired == phase[deployment] = "EMPTY" /\ ModuleNonce > Nonce[deployment]

(* The next leaf fits in no transaction; nothing but a cancellation helps. *)
Stuck ==
    /\ current = deployment
    /\ LeavesExecuted(deployment) \in DOMAIN LeafGas
    /\ ~isExecutable(LeavesExecuted(deployment), 1)

(* Under the platform's retries every deployment comes to an answer, unless*)
(* the owners retired its root before it was approved, or it cannot be     *)
(* executed.                                                               *)
Settles ==
    executionMode = "Platform" =>
    <>(report.kind \in {"success", "failure", "already"} \/ Retired \/ Stuck)

(* No attempt hangs: it reports or dies. *)
AttemptsEnd == attempt.pc # "idle" ~> attempt.pc = "idle"

=============================================================================
