-------------------------- MODULE DeploymentArtifacts --------------------------
(***************************************************************************)
(* The record of a project's deployments on one network                    *)
(* (packages/core/src/artifacts.ts): an execution artifact per deployment, *)
(* a contract artifact per contract name with the history of that name,    *)
(* and the compiler inputs.                                                *)
(*                                                                         *)
(* `sphinx deploy` reads what is there, adds its deployment and writes     *)
(* everything back, file by file.  The platform keeps a record of its own  *)
(* with the same functions, and `sphinx artifacts` writes it to the disk.  *)
(***************************************************************************)
EXTENDS Naturals, FiniteSets, Sequences, SequencesExt, Selection

CONSTANTS
    Inputs,         \* the compiler inputs of the project's versions
    Scripts,        \* what may be deployed: sequences of actions, each the
                    \* sequence of the Names of the contracts it creates
    BatchSize,      \* how many actions a transaction executes
    MaxDeployments, \* bound: deployments on the network
    MaxExits        \* bound: how often a command is interrupted

(* A contract's name: what is before the numbers that it ends with, and    *)
(* these, so that Token_1 is [base |-> "Token", numbers |-> <<1>>].        *)
Names == [base : STRING, numbers : Seq(Nat)]

ASSUME ArtifactsAssumption ==
    /\ \A script \in Scripts : script \in Seq(Seq(Names)) /\ script # <<>>
    /\ BatchSize \in Nat \ {0}
    /\ MaxDeployments \in Nat /\ MaxExits \in Nat

VARIABLES
    deployments, \* on chain; a deployment's root is its index
    disk,        \* the files of a network directory: see NoFiles
    inputs,      \* the files of a compiler inputs directory
    website,     \* the platform's record of the network
    command,     \* the command that runs: [pc, mode, root, record, todo]
    exits

artifactVars == <<deployments, disk, inputs, website, command, exits>>

ExecutionMode == {"LocalNetworkCLI", "LiveNetworkCLI", "Platform"}

(* The directories of a live network and of a local node are different.    *)
getNetworkNameDirectory(mode) == IF mode = "LocalNetworkCLI" THEN "local" ELSE "live"

getCompilerInputDirName(mode) ==
    IF mode = "LocalNetworkCLI" THEN "compiler-inputs-local" ELSE "compiler-inputs"

NoFiles == [contracts |-> <<>>, execution |-> <<>>]

(* A file whose writing was interrupted: no JSON. *)
Torn == [whole |-> FALSE]

NoCommand == [pc |-> "idle", mode |-> "Platform", root |-> 0, record |-> NoFiles, todo |-> <<>>]

ArtifactsInit ==
    /\ deployments = <<>>
    /\ disk = [directory \in {"local", "live"} |-> NoFiles]
    /\ inputs = [directory \in {"compiler-inputs-local", "compiler-inputs"} |-> <<>>]
    /\ website = NoFiles
    /\ command = NoCommand
    /\ exits = 0

-----------------------------------------------------------------------------
(* Deployments *)

(* The contracts of a deployment in the order of its actions. *)
Contracts(d) ==
    FlattenSeq([i \in DOMAIN d.actions |->
        [k \in DOMAIN d.actions[i] |-> [action |-> i, address |-> <<i, k>>, name |-> d.actions[i][k]]]])

(* `executed` actions succeeded and, in a failed deployment, the next one  *)
(* did not; others may have deployed its contracts already (CREATE2).      *)
HasCode(d, contract) ==
    \/ contract.action <= d.executed
    \/ contract.action = d.executed + 1 /\ d.taken

(* The actions that were tried. *)
Attempted(d) == d.executed + (IF d.failed THEN 1 ELSE 0)

(* The deployment's transactions: 0 approves it, the others execute the    *)
(* actions in batches.                                                     *)
Receipt(root, d, n) ==
    [root |-> root, n |-> n,
     succeeded |-> {action \in 1 .. d.executed :
                       (n - 1) * BatchSize < action /\ action <= n * BatchSize}]

Receipts(root, d) ==
    [k \in 1 .. (Attempted(d) + BatchSize - 1) \div BatchSize + 1 |-> Receipt(root, d, k - 1)]

isReceiptEarlier(r1, r2) == r1.root < r2.root \/ (r1.root = r2.root /\ r1.n < r2.n)

(* One deployment of the project after the other.  One that fails under    *)
(* `sphinx deploy` makes the command throw: it is in no record.            *)
ExecuteDeployment(mode, script) ==
    /\ command.pc = "idle"
    /\ Len(deployments) < MaxDeployments
    /\ \E executed \in 0 .. Len(script), failed, taken \in BOOLEAN, input \in Inputs :
          /\ failed <=> executed < Len(script)
          /\ failed => mode = "Platform"
          /\ taken => failed
          /\ deployments' = Append(deployments,
                [actions |-> script, mode |-> mode, executed |-> executed,
                 input |-> input, failed |-> failed, taken |-> taken])
    /\ command' = IF mode # "Platform"
                  THEN [NoCommand EXCEPT !.pc = "read", !.mode = mode,
                                         !.root = Len(deployments')]
                  ELSE NoCommand
    /\ UNCHANGED <<disk, inputs, website, exits>>

(* The receipts of a deployment that took several attempts: those of the   *)
(* last one, then those found by the module's events, kind by kind, in the *)
(* latest 2000 blocks.                                                     *)
fetchExecutionTransactionReceipts(tracked, receipts, recent) ==
    LET missing == {r \in ToSet(receipts) : r.n \in recent /\ r \notin ToSet(tracked)}
        approved == {r \in missing : r.n = 0}
        failed == {r \in missing : r.n # 0 /\ r = Last(receipts) /\ r.succeeded = {}}
        succeeded == {r \in missing : r.succeeded # {}}
    IN tracked \o SelectIn(receipts, approved) \o SelectIn(receipts, failed)
               \o SelectIn(receipts, succeeded)

-----------------------------------------------------------------------------
(* Making a record *)

(* Mutants, each the body of the definition after it as a plausible bug    *)
(* would leave it; no action uses them.                                    *)
Unsuffixed(contracts, k) == contracts[k].name

(* A name, an underscore and a number is what a contract may be named, too.*)
Numbered(name, n) == [name EXCEPT !.numbers = Append(@, n)]

(* Contracts of one name are numbered in the order of the deployment.      *)
FileName(contracts, k) ==
    LET name == contracts[k].name
        n == Cardinality({j \in 1 .. k - 1 : contracts[j].name = name})
    IN IF n = 0 THEN name ELSE Numbered(name, n)

StartsAfresh(file) == <<>>

(* The history of a file that gets a new artifact. *)
NewHistory(file) == Append(file.history, file.artifact)

AnyActionSucceeded(receipts, contract) ==
    LET k == CHOOSE k \in DOMAIN receipts : receipts[k].succeeded # {}
    IN receipts[k]

ReceiptOf(receipts, contract) ==
    LET k == CHOOSE k \in DOMAIN receipts : contract.action \in receipts[k].succeeded
    IN receipts[k]

(* Every contract with code needs the receipt of its action. *)
CanMakeArtifacts(d, receipts) ==
    \A contract \in ToSet(Contracts(d)) :
        HasCode(d, contract) =>
            \E r \in ToSet(receipts) : contract.action \in r.succeeded

(* The contracts that have code, and their artifacts. *)
WithCode(d) == SelectIn(Contracts(d), {c \in ToSet(Contracts(d)) : HasCode(d, c)})

NewArtifacts(root, d, receipts) ==
    LET present == WithCode(d)
    IN [k \in DOMAIN present |->
           [root |-> root, address |-> present[k].address, name |-> present[k].name,
            receipt |-> ReceiptOf(receipts, present[k])]]

NewFileNames(d) == {FileName(WithCode(d), k) : k \in DOMAIN WithCode(d)}

(* Those that go to one file: each is put on top of the one before.        *)
AddedTo(name, root, d, receipts) ==
    LET artifacts == NewArtifacts(root, d, receipts)
    IN SelectIn(artifacts,
                {artifacts[k] : k \in {j \in DOMAIN artifacts : FileName(WithCode(d), j) = name}})

makeContractDeploymentArtifacts(root, d, receipts, files) ==
    LET known(name) ==
            (IF name \in DOMAIN files THEN NewHistory(files[name]) ELSE <<>>)
               \o AddedTo(name, root, d, receipts)
    IN [name \in DOMAIN files \cup NewFileNames(d) |->
           IF name \notin NewFileNames(d) THEN files[name]
           ELSE [whole |-> TRUE, artifact |-> Last(known(name)), history |-> Front(known(name))]]

(* The receipts, no two of which are of one transaction, as they were      *)
(* mined: each one after as many as are earlier.                           *)
Sorted(receipts) ==
    LET earlier(i) == {j \in DOMAIN receipts : isReceiptEarlier(receipts[j], receipts[i])}
    IN [k \in DOMAIN receipts |->
           receipts[CHOOSE i \in DOMAIN receipts : Cardinality(earlier(i)) = k - 1]]

makeExecutionArtifact(root, receipts) ==
    [whole |-> TRUE, root |-> root, transactions |-> Sorted(receipts)]

makeDeploymentArtifacts(root, receipts, record) ==
    [contracts |-> makeContractDeploymentArtifacts(root, deployments[root], receipts,
                                                   record.contracts),
     execution |-> [r \in DOMAIN record.execution \cup {root} |->
                       IF r = root THEN makeExecutionArtifact(root, receipts)
                       ELSE record.execution[r]]]

(* The platform records a deployment, also one that failed.  The project   *)
(* only sees the result, so it does not matter that no command runs then.  *)
WebsiteRecords(root) ==
    /\ command.pc = "idle"
    /\ deployments[root].mode = "Platform"
    /\ root \notin DOMAIN website.execution
    /\ \A r \in 1 .. root - 1 :
          deployments[r].mode = "Platform" => r \in DOMAIN website.execution
    /\ LET d == deployments[root]
           receipts == Receipts(root, d)
       IN \E first, oldest \in 1 .. Len(receipts) :
             LET tracked == SubSeq(receipts, first, Len(receipts))
                 found == fetchExecutionTransactionReceipts(tracked, receipts,
                             {receipts[k].n : k \in oldest .. Len(receipts)})
             IN /\ CanMakeArtifacts(d, found)
                /\ website' = makeDeploymentArtifacts(root, found, website)
    /\ UNCHANGED <<deployments, disk, inputs, command, exits>>

-----------------------------------------------------------------------------
(* The commands *)

Directory == getNetworkNameDirectory(command.mode)

(* The files of a record, as they are written: execution artifacts first,  *)
(* then the contracts', then the compiler inputs, each kind in the order   *)
(* of the directory, which here is an arbitrary one.                       *)
Writes(record, input) ==
    SetToSeq({<<"execution", root>> : root \in DOMAIN record.execution})
    \o SetToSeq({<<"contracts", name>> : name \in DOMAIN record.contracts})
    \o SetToSeq({<<"inputs", i>> : i \in input})

(* Files that are no JSON make the command throw.                          *)
readDeploymentArtifactsForNetwork ==
    /\ command.pc = "read"
    /\ LET files == disk[Directory]
           names == {<<"contracts", n>> : n \in DOMAIN files.contracts}
                    \cup {<<"execution", r>> : r \in DOMAIN files.execution}
       IN command' =
             IF \A f \in names : files[f[1]][f[2]].whole
             THEN [command EXCEPT !.pc = "make", !.record = files]
             ELSE NoCommand
    /\ UNCHANGED <<deployments, disk, inputs, website, exits>>

(* The receipts are those of the execution that just ended.  A node that   *)
(* does not know a transaction yet makes the command throw, like Exit.     *)
MakeArtifacts ==
    LET root == command.root
        d == deployments[root]
        receipts == Receipts(root, d)
    IN /\ command.pc = "make"
       /\ CanMakeArtifacts(d, receipts)
       /\ LET record == makeDeploymentArtifacts(root, receipts, command.record)
          IN command' = [command EXCEPT !.pc = "write", !.record = record,
                                        !.todo = Writes(record, {d.input})]
       /\ UNCHANGED <<deployments, disk, inputs, website, exits>>

(* `sphinx artifacts`. *)
fetchRemoteArtifacts ==
    /\ command.pc = "idle"
    /\ website # NoFiles
    /\ command' = [NoCommand EXCEPT !.pc = "write", !.record = website,
                      !.todo = Writes(website, {deployments[r].input :
                                                   r \in DOMAIN website.execution})]
    /\ UNCHANGED <<deployments, disk, inputs, website, exits>>

With(files, name, content) ==
    [n \in DOMAIN files \cup {name} |-> IF n = name THEN content ELSE files[n]]

(* The first file of the record.  Compiler inputs that exist are kept.     *)
Write(torn) ==
    LET kind == Head(command.todo)[1]
        name == Head(command.todo)[2]
        inputDirectory == getCompilerInputDirName(command.mode)
    IN IF kind = "inputs"
       THEN /\ inputs' = IF name \in DOMAIN inputs[inputDirectory] THEN inputs
                         ELSE [inputs EXCEPT ![inputDirectory] =
                                  With(@, name, [whole |-> ~torn])]
            /\ UNCHANGED disk
       ELSE /\ disk' = [disk EXCEPT ![Directory][kind] =
                           With(@, name, IF torn THEN Torn ELSE command.record[kind][name])]
            /\ UNCHANGED inputs

writeDeploymentArtifacts ==
    /\ command.pc = "write"
    /\ Write(FALSE)
    /\ command' = [command EXCEPT !.todo = Tail(@),
                      !.pc = IF Len(command.todo) = 1 THEN "recorded" ELSE @]
    /\ UNCHANGED <<deployments, website, exits>>

(* The process dies between two files or in the middle of one.  Before the *)
(* first file there is no difference to an earlier end.                    *)
Exit ==
    /\ command.pc = "write" /\ exits < MaxExits
    /\ \/ UNCHANGED <<disk, inputs>>
       \/ Write(TRUE)
    /\ exits' = exits + 1
    /\ command' = NoCommand
    /\ UNCHANGED <<deployments, website>>

(* The user removes what cannot be read. *)
RemoveTorn(directory, kind, name) ==
    /\ name \in DOMAIN disk[directory][kind] /\ ~disk[directory][kind][name].whole
    /\ command.pc = "idle"
    /\ disk' = [disk EXCEPT ![directory][kind] =
                   [n \in DOMAIN @ \ {name} |-> @[n]]]
    /\ UNCHANGED <<deployments, inputs, website, command, exits>>

-----------------------------------------------------------------------------
(* The artifacts in a file, the oldest first. *)
Known(file) == Append(file.history, file.artifact)

(* `sphinx deploy` keeps every artifact that is in a file of the network,  *)
(* in its place, when it puts a new one on top; only a process that dies   *)
(* while writing may lose the file.                                        *)
NothingForgotten ==
    [][\A directory \in DOMAIN disk :
          \A name \in DOMAIN disk[directory].contracts :
             LET before == disk[directory].contracts[name]
                 after == disk'[directory].contracts[name]
             IN /\ command.pc = "write" /\ command.mode # "Platform"
                /\ before.whole /\ after.whole
                => IsPrefix(Known(before), Known(after))]_artifactVars

(* The order of deployment. *)
isDeployedEarlier(a1, a2) ==
    \/ a1.root < a2.root
    \/ /\ a1.root = a2.root
       /\ \/ a1.address[1] < a2.address[1]
          \/ a1.address[1] = a2.address[1] /\ a1.address[2] < a2.address[2]

(* What is recorded is what happened: an artifact is of a contract that a  *)
(* successful action of its deployment created, with the transaction that  *)
(* executed that action, in a file of the contract's name, with a number or*)
(* not, and a file's artifacts are in the order of deployment.             *)
RecordsAreTrue ==
    \A files \in {disk["live"], disk["local"], website} :
        \A name \in DOMAIN files.contracts : files.contracts[name].whole =>
            LET known == Known(files.contracts[name])
            IN \A k \in DOMAIN known :
                  LET d == deployments[known[k].root]
                      action == known[k].address[1]
                  IN /\ action <= d.executed
                     /\ d.actions[action][known[k].address[2]] = known[k].name
                     /\ name = known[k].name \/ name = Numbered(known[k].name, Last(name.numbers))
                     /\ known[k].receipt.root = known[k].root
                     /\ action \in known[k].receipt.succeeded
                     /\ k > 1 => isDeployedEarlier(known[k - 1], known[k])

(* A contract has the name of another one with a number, as Token_1 when   *)
(* there is a Token, and the two may share a file.                         *)
Ambiguous(contracts) ==
    \E j, k \in DOMAIN contracts, n \in DOMAIN contracts :
        contracts[j].name = Numbered(contracts[k].name, n)

(* The artifacts in the files, those on top of them, and the addresses of  *)
(* those that are of one deployment.                                       *)
KnownIn(files) == UNION {ToSet(Known(files[name])) : name \in DOMAIN files}
LatestIn(files) == {files[name].artifact : name \in DOMAIN files}
AddressesOf(root, artifacts) == {a.address : a \in {b \in artifacts : b.root = root}}

(* When `sphinx deploy` has written its files, each contract it deployed   *)
(* has an artifact, and it is the latest of a file unless a name is another*)
(* with a number; its execution artifact has exactly the transactions of   *)
(* the deployment in the order in which they were mined; and its compiler  *)
(* input is there, in full unless a command was interrupted: what an       *)
(* interruption tears is not written again.                                *)
RecordsAreComplete ==
    command.pc = "recorded" /\ command.mode # "Platform" =>
        LET root == command.root
            d == deployments[root]
            addresses == {c.address : c \in ToSet(Contracts(d))}
            files == disk[Directory]
            compilerInputs == inputs[getCompilerInputDirName(command.mode)]
        IN /\ AddressesOf(root, KnownIn(files.contracts)) = addresses
           /\ Ambiguous(Contracts(d)) \/ AddressesOf(root, LatestIn(files.contracts)) = addresses
           /\ files.execution[root].transactions = Receipts(root, d)
           /\ d.input \in DOMAIN compilerInputs
           /\ compilerInputs[d.input].whole \/ exits > 0

(* The top-level artifact is of the most recent deployment: a deployment   *)
(* whose execution artifact is there is not newer than the artifacts of    *)
(* the contracts that it deployed.                                         *)
TopLevelIsMostRecent ==
    command.pc = "idle" =>
        \A root \in DOMAIN disk["live"].execution :
            LET contracts == Contracts(deployments[root])
            IN \A k \in DOMAIN contracts :
                  HasCode(deployments[root], contracts[k]) =>
                     disk["live"].contracts[FileName(contracts, k)].artifact.root >= root

=============================================================================
