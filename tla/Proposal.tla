------------------------------- MODULE Proposal -------------------------------
(***************************************************************************)
(* The commands `sphinx propose` and `sphinx deploy` from their arguments  *)
(* to the request that the website gets and to the deployment              *)
(* (packages/plugins/src/cli/propose/index.ts and deploy.ts).              *)
(*                                                                         *)
(* A command calls Forge once per network and takes what Forge found from  *)
(* a file of the project; the user may edit the script in between, and may *)
(* run several commands in one project.  What is collected from a network  *)
(* and how a tree is made of it are in Collection and MerkleTree; here a   *)
(* network has a number of actions and a tree has leaves per chain.        *)
(***************************************************************************)
EXTENDS Naturals, FiniteSets, Sequences, SequencesExt, Selection

CONSTANTS
    Commands,    \* processes of the command line tool
    Configs,     \* what the script may configure: [project, safe, mainnets, testnets]
    RpcEndpoints,\* of foundry.toml: a function from names to chain ids
    NetworkType, \* a function from supported chain ids to "Testnet" or "Mainnet"
    CliNetworks, \* the networks on the command line: sequences of names, or a flag
    Sigs,        \* the arguments of --sig, as the kinds of their parts
    MaxActions,  \* bound: actions on one network
    MaxStarts    \* bound: commands that are run

Mainnets == <<"mainnets">>
Testnets == <<"testnets">>
Modes == {"propose", "dry run", "deploy"}

ASSUME ProposalAssumption ==
    /\ \A config \in Configs :
          /\ DOMAIN config = {"project", "safe", "mainnets", "testnets"}
          /\ config.mainnets \in Seq(STRING) /\ config.testnets \in Seq(STRING)
    /\ CliNetworks \subseteq Seq(STRING)
    /\ DOMAIN RpcEndpoints \subseteq STRING
    /\ \A chain \in DOMAIN NetworkType : NetworkType[chain] \in {"Testnet", "Mainnet"}
    /\ MaxActions \in Nat

VARIABLES
    script,     \* what the script and sphinx.lock configure now
    infoFile,   \* sphinx-deployment-info.txt, or NoFile
    starts,     \* commands run so far
    command,    \* command[c]: see Idle
    stored,     \* deployment configs the website has
    proposals,  \* requests the website has accepted
    deployed    \* history: what `deploy` attempted to execute

vars == <<script, infoFile, starts, command, stored, proposals, deployed>>

NoFile == [by |-> 0, chainId |-> 0, newConfig |-> <<>>, actions |-> 0]

Idle == [pc |-> "idle", id |-> 0, mode |-> "propose", confirm |-> FALSE,
         networks |-> <<>>, config |-> <<>>, rpcUrls |-> <<>>, isTestnet |-> FALSE,
         collected |-> <<>>, edited |-> FALSE]

Init ==
    /\ script \in Configs
    /\ infoFile = NoFile
    /\ starts = 0
    /\ command = [c \in Commands |-> Idle]
    /\ stored = {} /\ proposals = {} /\ deployed = {}

Goto(c, pc) == command' = [command EXCEPT ![c].pc = pc]

Files == <<infoFile, stored, proposals, deployed>>

-----------------------------------------------------------------------------
(* Between reading what the script configures and its first run.           *)
BeforeFirstRun(cmd) ==
    cmd.pc \in {"validate", "remove", "forge"} /\ cmd.collected = <<>>

(* The environment: the user edits the script, or `sphinx sync` the lock.  *)
(* `edited` is history: it was edited before a command's first run of it.  *)
EditScript(config) ==
    /\ config # script
    /\ script' = config
    /\ command' = [c \in Commands |->
                      [command[c] EXCEPT !.edited = @ \/ BeforeFirstRun(command[c])]]
    /\ UNCHANGED <<starts, Files>>

(* A command ends, also when it is interrupted. *)
Exit(c) ==
    /\ command[c].pc # "idle"
    /\ command' = [command EXCEPT ![c] = Idle]
    /\ UNCHANGED <<script, starts, Files>>

-----------------------------------------------------------------------------
(* A signature with its arguments, or raw calldata alone. *)
parseScriptFunctionCalldata(sig) ==
    /\ sig # <<>>
    /\ sig[1] = "signature" \/ sig = <<"hex data">>

(* The arguments are valid, the project compiles, and its dependencies have*)
(* the right versions.                                                     *)
StartPropose(c, mode, confirm, networks, sig) ==
    /\ command[c].pc = "idle" /\ starts < MaxStarts
    /\ mode # "deploy"
    /\ parseScriptFunctionCalldata(sig)
    /\ command' = [command EXCEPT
          ![c] = [Idle EXCEPT !.pc = "configure", !.id = starts + 1, !.mode = mode,
                     !.confirm = confirm, !.networks = networks]]
    /\ starts' = starts + 1
    /\ UNCHANGED <<script, Files>>

(* Likewise; deploy takes one network, of foundry.toml, and does not ask   *)
(* the script for others.                                                  *)
StartDeploy(c, confirm, networks, sig) ==
    /\ command[c].pc = "idle" /\ starts < MaxStarts
    /\ parseScriptFunctionCalldata(sig)
    /\ Len(networks) = 1 /\ networks[1] \in DOMAIN RpcEndpoints
    /\ command' = [command EXCEPT
          ![c] = [Idle EXCEPT !.pc = "remove", !.id = starts + 1, !.mode = "deploy",
                     !.confirm = confirm, !.networks = networks,
                     !.rpcUrls = <<RpcEndpoints[networks[1]]>>]]
    /\ starts' = starts + 1
    /\ UNCHANGED <<script, Files>>

(* getSphinxConfigFromScript, after the lock is fetched. *)
Configure(c) ==
    /\ command[c].pc = "configure"
    /\ command' = [command EXCEPT ![c] = [@ EXCEPT !.pc = "validate", !.config = script,
                                                   !.edited = FALSE]]
    /\ UNCHANGED <<script, starts, Files>>

(* Mutants, each the body of the definition after it as a plausible bug    *)
(* would leave it; no action uses them.                                    *)
NeverMixed(chains) == FALSE

isArrayMixed(chains) == Cardinality({NetworkType[chain] : chain \in chains}) > 1

(* The names that `networks` stands for. *)
ResolvedNetworks(networks, config) ==
    IF networks = Mainnets THEN config.mainnets
    ELSE IF networks = Testnets THEN config.testnets
    ELSE networks

validateProposalNetworks(networks, config) ==
    LET names == ResolvedNetworks(networks, config)
        chains == {RpcEndpoints[n] : n \in ToSet(names)}
        allTestnets == \A chain \in chains : NetworkType[chain] = "Testnet"
    IN /\ names # <<>>
       /\ ToSet(names) \subseteq DOMAIN RpcEndpoints
       /\ chains \subseteq DOMAIN NetworkType
       /\ ~isArrayMixed(chains)
       /\ networks = Mainnets => ~allTestnets
       /\ networks = Testnets => allTestnets

(* Every endpoint answers; otherwise the command fails like Exit. *)
Validate(c) ==
    LET cmd == command[c]
        names == ResolvedNetworks(cmd.networks, cmd.config)
    IN /\ cmd.pc = "validate"
       /\ IF validateProposalNetworks(cmd.networks, cmd.config)
          THEN LET chains == [k \in DOMAIN names |-> RpcEndpoints[names[k]]]
               IN command' = [command EXCEPT
                     ![c] = [@ EXCEPT !.pc = "remove", !.rpcUrls = chains,
                                !.isTestnet = \A k \in DOMAIN chains :
                                                  NetworkType[chains[k]] = "Testnet"]]
          ELSE Goto(c, "failed")
       /\ UNCHANGED <<script, starts, Files>>

-----------------------------------------------------------------------------
(* The loop over the networks *)

KeepFile == infoFile

RemovedFile == NoFile

(* The file of an earlier deployment is removed. *)
RemoveInfo(c) ==
    /\ command[c].pc = "remove"
    /\ infoFile' = RemovedFile
    /\ Goto(c, "forge")
    /\ UNCHANGED <<script, starts, stored, proposals, deployed>>

DeploymentInfo(c, actions) ==
    LET cmd == command[c]
    IN [by |-> cmd.id, chainId |-> cmd.rpcUrls[Len(cmd.collected) + 1],
        newConfig |-> script, actions |-> actions]

(* Forge runs the script on the network; it may fail with exit code 0.     *)
Forge(c) ==
    /\ command[c].pc = "forge"
    /\ \/ \E actions \in 0..MaxActions : infoFile' = DeploymentInfo(c, actions)
       \/ UNCHANGED infoFile
    /\ Goto(c, "read")
    /\ UNCHANGED <<script, starts, stored, proposals, deployed>>

ReadInfo(c) ==
    LET cmd == command[c]
        collected == Append(cmd.collected, infoFile)
    IN /\ cmd.pc = "read"
       /\ IF infoFile = NoFile
          THEN Goto(c, "failed")
          ELSE command' = [command EXCEPT
                  ![c] = [@ EXCEPT !.collected = collected,
                             !.pc = IF Len(collected) < Len(cmd.rpcUrls)
                                    THEN "remove" ELSE "build"]]
       /\ UNCHANGED <<script, starts, Files>>

-----------------------------------------------------------------------------
AlwaysEqual(configs) == TRUE

(* The projects, Safes and modules of the networks. *)
elementsEqual(configs) ==
    \A j, k \in DOMAIN configs : configs[j].newConfig = configs[k].newConfig

WithEmpty(configs) == configs

WithActions(configs) == SelectIn(configs, {n \in ToSet(configs) : n.actions > 0})

(* The last entry of a chain counts. *)
makeDeploymentData(configs) ==
    LET nonEmpty == SelectIn(configs, {n \in ToSet(configs) : n.actions > 0})
        last(chain) == CHOOSE k \in DOMAIN nonEmpty :
            /\ nonEmpty[k].chainId = chain
            /\ \A j \in DOMAIN nonEmpty : nonEmpty[j].chainId = chain => j <= k
    IN [chain \in {nonEmpty[k].chainId : k \in DOMAIN nonEmpty} |->
           [txs |-> nonEmpty[last(chain)].actions,
            safeProxy |-> nonEmpty[last(chain)].newConfig.safe]]

(* The leaves: of each chain, APPROVE with index 0 and one per transaction.*)
makeSphinxMerkleTree(data) ==
    UNION {{[chainId |-> chain, index |-> i] : i \in 0..data[chain].txs} :
              chain \in DOMAIN data}

makeDeploymentConfig(configs) ==
    [networkConfigs |-> configs, merkleTree |-> makeSphinxMerkleTree(makeDeploymentData(configs))]

(* Networks with the same actions are shown together; of two configs of one*)
(* network the later is shown.                                             *)
getPreview(configs) ==
    LET shown == {k \in DOMAIN configs :
                     \A j \in k + 1 .. Len(configs) : configs[j].chainId # configs[k].chainId}
    IN {[actions |-> configs[k].actions,
         networks |-> {configs[j].chainId : j \in {i \in shown :
                                             configs[i].actions = configs[k].actions}}] :
           k \in shown}

getProjectDeploymentForChain(tree, chain) == [chainId |-> chain, index |-> 0] \in tree

(* From the network configs to the preview. *)
Build(c) ==
    LET cmd == command[c]
    IN /\ cmd.pc = "build"
       /\ IF \A k \in DOMAIN cmd.collected : cmd.collected[k].actions = 0
          THEN Goto(c, "nothing to execute")
          ELSE Goto(c, IF cmd.confirm \/ cmd.mode = "dry run" THEN "confirmed" ELSE "prompt")
       /\ UNCHANGED <<script, starts, Files>>

(* The user agrees; otherwise the process exits. *)
Agree(c) ==
    /\ command[c].pc = "prompt"
    /\ Goto(c, "confirmed")
    /\ UNCHANGED <<script, starts, Files>>

ProposalRequest(c) ==
    LET cmd == command[c]
        config == makeDeploymentConfig(cmd.collected)
        proposed == WithActions(cmd.collected)
    IN [newConfig |-> cmd.collected[1].newConfig,
        safeAddress |-> cmd.config.safe,
        isTestnet |-> cmd.isTestnet,
        projectDeployments |-> {n \in ToSet(proposed) :
            getProjectDeploymentForChain(config.merkleTree, n.chainId)},
        chainStatus |-> [k \in DOMAIN proposed |->
            [chainId |-> proposed[k].chainId, numLeaves |-> proposed[k].actions + 1]],
        diff |-> getPreview(cmd.collected),
        deploymentConfigId |-> config,
        edited |-> cmd.edited]

storeDeploymentConfig(c) ==
    stored' = stored \cup {makeDeploymentConfig(command[c].collected)}

(* A proposal of different Safes on different chains is refused; a dry run *)
(* ends; otherwise the deployment config is uploaded first.                *)
Store(c) ==
    LET cmd == command[c]
    IN /\ cmd.pc = "confirmed" /\ cmd.mode # "deploy"
       /\ IF ~elementsEqual(cmd.collected)
          THEN Goto(c, "failed") /\ UNCHANGED stored
          ELSE IF cmd.mode = "dry run"
          THEN Goto(c, "dry run succeeded") /\ UNCHANGED stored
          ELSE Goto(c, "relay") /\ storeDeploymentConfig(c)
       /\ UNCHANGED <<script, infoFile, starts, proposals, deployed>>

(* The website accepts the request; its answer may be lost.                *)
relayProposal(c) ==
    /\ command[c].pc = "relay"
    /\ proposals' = proposals \cup {ProposalRequest(c)}
    /\ \/ Goto(c, "proposed")
       \/ Goto(c, "failed")
    /\ UNCHANGED <<script, infoFile, starts, stored, deployed>>

(* attemptDeployment, see Executor. *)
Deploy(c) ==
    LET cmd == command[c]
    IN /\ cmd.pc = "confirmed" /\ cmd.mode = "deploy"
       /\ deployed' = deployed \cup {makeDeploymentConfig(cmd.collected)}
       /\ \/ Goto(c, "deployed")
          \/ Goto(c, "failed")
       /\ UNCHANGED <<script, infoFile, starts, stored, proposals>>

Next ==
    \/ \E config \in Configs : EditScript(config)
    \/ \E c \in Commands :
          \/ \E mode \in Modes, confirm \in BOOLEAN, networks \in CliNetworks, sig \in Sigs :
                \/ StartPropose(c, mode, confirm, networks, sig)
                \/ StartDeploy(c, confirm, networks, sig)
          \/ Configure(c) \/ Validate(c)
          \/ RemoveInfo(c) \/ Forge(c) \/ ReadInfo(c)
          \/ Build(c) \/ Agree(c) \/ Store(c) \/ relayProposal(c) \/ Deploy(c)
          \/ Exit(c)

Spec == Init /\ [][Next]_vars

-----------------------------------------------------------------------------
(* A command works on what Forge found for this very command on the        *)
(* network that it asked for.                                              *)
OwnTransactions ==
    \A c \in Commands : \A k \in DOMAIN command[c].collected :
        LET info == command[c].collected[k]
        IN info.by = command[c].id /\ info.chainId = command[c].rpcUrls[k]

(* What the website gets is complete: the deployment config it refers to   *)
(* is there, the request lists every chain of the tree and no other, with  *)
(* as many leaves as the tree has for it, and the preview that the user    *)
(* agreed to shows each network with its actions.                          *)
ProposedTreeIsComplete ==
    \A p \in proposals :
        LET tree == p.deploymentConfigId.merkleTree
        IN /\ p.deploymentConfigId \in stored
           /\ {p.chainStatus[k].chainId : k \in DOMAIN p.chainStatus} =
                 {leaf.chainId : leaf \in tree}
           /\ \A k \in DOMAIN p.chainStatus :
                 p.chainStatus[k].numLeaves =
                     Cardinality({leaf \in tree : leaf.chainId = p.chainStatus[k].chainId})
           /\ Cardinality(p.projectDeployments) = Len(p.chainStatus)
           /\ \A n \in ToSet(p.deploymentConfigId.networkConfigs) :
                 {g \in p.diff : n.chainId \in g.networks /\ g.actions = n.actions} # {}

(* However the script was edited in the meantime, a proposal is about one  *)
(* project, Safe and module on all its networks, and they are all testnets *)
(* or all production networks, as it says.  The Safe that the request names*)
(* is theirs, too, unless the script was edited after it was asked for its *)
(* Safe and before its first run: then the request has the earlier Safe    *)
(* and the later project and module, which nothing compares.               *)
ProposedAsConfigured ==
    \A p \in proposals :
        \A n \in ToSet(p.deploymentConfigId.networkConfigs) :
            /\ n.newConfig = p.newConfig
            /\ p.safeAddress = n.newConfig.safe \/ p.edited
            /\ (NetworkType[n.chainId] = "Testnet") = p.isTestnet

=============================================================================
