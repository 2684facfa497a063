------------------------------ MODULE Collection ------------------------------
(***************************************************************************)
(* From the accesses that Forge records while the user's script runs to    *)
(* the actions of a network: SphinxUtils.sol picks out the transactions of *)
(* the Safe and estimates their gas, plugins/src/foundry/decode.ts makes   *)
(* actions of them, core/src/preview.ts shows them.                        *)
(*                                                                         *)
(* The record is flat: a transaction is an access of the Safe, and what    *)
(* follows it up to the next one is taken to be nested in it.  The script  *)
(* may switch between forks and call other contracts in between.           *)
(***************************************************************************)
EXTENDS Naturals, FiniteSets, InitCodes, Selection

CONSTANTS
    Artifacts,   \* contracts with a build info: a sequence of [name, code]
    Oversized,   \* the codes whose runtime code exceeds the limit of EIP-170
    Salts,       \* for CREATE2
    Inner,       \* what a constructor or a callee creates: sequences of init codes
    GasUsed,     \* what a transaction of the Safe may cost
    Networks,    \* [blockGasLimit, hardcodedGas (0: none), rootstock]
    Funds,       \* what the script may request for the Safe
    MaxAccesses  \* bound: how much a script does

ASSUME CollectionAssumption ==
    /\ Artifacts \in Seq([name : STRING, code : Codes])
    /\ Inner \subseteq Seq(InitCode)
    /\ GasUsed \subseteq Nat /\ Funds \subseteq Nat
    /\ \A n \in Networks : n.blockGasLimit \in Nat /\ n.hardcodedGas \in Nat

(* Accounts are tuples.  Gas is in units of 10,000. *)
Safe == <<"safe">>
Proxy == <<"deterministic deployment proxy">>
Utils == <<"SphinxUtils">>
CreateCall == <<"CreateCall">>
Script == <<"script">>
CallDepth == 2
SafeBalance == 1
Undefined == "undefined"

VARIABLES
    network,       \* the network that the deployment is for
    funds,         \* fundsRequestedForSafe
    onNetwork,     \* whether its fork is the active one
    nonce,         \* nonce[b]: contracts created on the fork (b) or elsewhere (~b)
    accesses,      \* the recorded accesses
    executed,      \* history: the Safe's transactions on the network
    networkConfig  \* the result: its status and actions

collectionVars == <<network, funds, onNetwork, nonce, accesses, executed, networkConfig>>

NotMade == [status |-> "none", actionInputs |-> <<>>]
Thrown == [status |-> "thrown", actionInputs |-> <<>>]

CollectionInit ==
    /\ network \in Networks
    /\ funds \in Funds
    /\ onNetwork = TRUE
    /\ nonce = [b \in BOOLEAN |-> 0]
    /\ accesses = <<>>
    /\ executed = <<>>
    /\ networkConfig = NotMade

-----------------------------------------------------------------------------
(* The script *)

Access(kind, accessor, account, data, depth, gas, value) ==
    [kind |-> kind, accessor |-> accessor, account |-> account, data |-> data,
     depth |-> depth, onNetwork |-> onNetwork, gas |-> gas, value |-> value]

Creation(accessor, address, init, depth, gas) ==
    Access("Create", accessor, address, init, depth, gas, 0)

(* A constructor or a callee creates what is in `inits`. *)
Nested(accessor, inits) ==
    [k \in DOMAIN inits |->
        Creation(accessor, <<"new", accessor, nonce[onNetwork] + k>>, inits[k], CallDepth + 1, 0)]

Creates(seq) == SelectIn(seq, {a \in ToSet(seq) : a.kind = "Create"})

(* What the Safe does is recorded; history keeps what it deployed. *)
Record(type, root, nested) ==
    LET all == <<root>> \o nested
        created == Creates(all)
    IN /\ networkConfig = NotMade /\ Len(accesses) < MaxAccesses
       /\ accesses' = accesses \o all
       /\ nonce' = [nonce EXCEPT ![onNetwork] = @ + Len(created)]
       /\ executed' = IF ~onNetwork THEN executed
                      ELSE Append(executed,
                             [type |-> type, to |-> root.account, gas |-> root.gas,
                              created |-> {[address |-> created[k].account,
                                            init |-> created[k].data] :
                                              k \in DOMAIN created}])
       /\ UNCHANGED <<network, funds, onNetwork, networkConfig>>

Deploy(init, inner, gas) ==
    LET address == <<"new", Safe, nonce[onNetwork]>>
    IN Record("CREATE", Creation(Safe, address, init, CallDepth, gas),
              Nested(address, inner))

DeployCreate2(salt, init, gas) ==
    LET address == <<"create2", salt, init>>
    IN /\ \A k \in DOMAIN accesses :
              accesses[k].account = address => accesses[k].onNetwork # onNetwork
       /\ Record("CREATE2",
                 Access("Call", Safe, Proxy, <<salt, init>>, CallDepth, gas, 0),
                 <<Creation(Proxy, address, init, CallDepth + 1, 0)>>)

Call(to, inner, gas) ==
    Record("CALL", Access("Call", Safe, to, "calldata", CallDepth, gas, 0),
           Nested(to, inner))

(* Accesses that are no transaction: a call of the script's own library,   *)
(* and a deployment by another account that the script pranks.             *)
ByTheWay ==
    /\ networkConfig = NotMade /\ Len(accesses) < MaxAccesses
    /\ \/ /\ accesses' = Append(accesses,
                            Access("Call", Safe, Utils, "calldata", CallDepth, 0, 0))
          /\ UNCHANGED nonce
       \/ \E init \in InitCode :
             /\ accesses' = Append(accesses,
                               Creation(Script, <<"new", Script, nonce[onNetwork]>>, init,
                                        CallDepth, 0))
             /\ nonce' = [nonce EXCEPT ![onNetwork] = @ + 1]
    /\ UNCHANGED <<network, funds, onNetwork, executed, networkConfig>>

SelectFork ==
    /\ networkConfig = NotMade
    /\ onNetwork' = ~onNetwork
    /\ UNCHANGED <<network, funds, nonce, accesses, executed, networkConfig>>

-----------------------------------------------------------------------------
(* Mutants, each the body of the definition after it as a plausible bug    *)
(* would leave it; no action uses them.                                    *)
AnyChain(a) ==
    /\ a.accessor = Safe /\ a.depth = CallDepth
    /\ a.account # Utils /\ a.kind \in {"Call", "Create"}

isRootAccountAccess(a) ==
    /\ a.accessor = Safe /\ a.depth = CallDepth /\ a.onNetwork
    /\ a.account # Utils /\ a.kind \in {"Call", "Create"}

RunsToTheNextRoot(k) ==
    LET ends == {j \in (k + 1)..Len(accesses) : isRootAccountAccess(accesses[j])}
    IN IF ends = {} THEN Len(accesses) ELSE (CHOOSE j \in ends : \A i \in ends : j <= i) - 1

(* The last access that is taken to be nested in access k. *)
LastNested(k) ==
    LET ends == {j \in (k + 1)..Len(accesses) :
                    isRootAccountAccess(accesses[j]) \/ ~accesses[j].onNetwork}
    IN IF ends = {} THEN Len(accesses) ELSE (CHOOSE j \in ends : \A i \in ends : j <= i) - 1

parseAccountAccesses ==
    LET roots == SelectIn([k \in DOMAIN accesses |-> k],
                          {k \in DOMAIN accesses : isRootAccountAccess(accesses[k])})
    IN [r \in DOMAIN roots |->
           [root |-> accesses[roots[r]],
            nested |-> SubSeq(accesses, roots[r] + 1, LastNested(roots[r]))]]

CheckFunds ==
    [root |-> [kind |-> "Call", accessor |-> Safe, account |-> Safe, data |-> "0x",
               depth |-> CallDepth, onNetwork |-> TRUE, gas |-> 1,
               value |-> SafeBalance + funds],
     nested |-> <<>>]

ChecksAtTheEnd(parsed) == IF funds = 0 THEN parsed ELSE Append(parsed, CheckFunds)

addBalanceCheckAction(parsed) ==
    IF funds = 0 THEN parsed ELSE <<CheckFunds>> \o parsed

estimateMerkleLeafGas(parsed) ==
    [i \in DOMAIN parsed |->
        IF network.rootstock THEN 6 + (parsed[i].root.gas * 11) \div 10
                             ELSE 12 + (parsed[i].root.gas * 12) \div 10]

-----------------------------------------------------------------------------
(* The command *)

Flat(parsed) == FlattenSeq([i \in DOMAIN parsed |-> <<parsed[i].root>> \o parsed[i].nested])

getInitCodeWithArgsArray(parsed) ==
    LET created == Creates(Flat(parsed)) IN [k \in DOMAIN created |-> created[k].data]

(* What getConfigArtifacts finds for these init codes. *)
ConfigArtifacts(parsed) ==
    LET inits == getInitCodeWithArgsArray(parsed)
    IN SelectIn(Artifacts, {e \in ToSet(Artifacts) :
                              \E k \in DOMAIN inits : isInitCodeMatch(inits[k], e.code)})

assertContractSizeLimitNotExceeded(parsed) ==
    \A init \in ToSet(getInitCodeWithArgsArray(parsed)) : init.code \notin Oversized

getMaxGasLimit(blockGasLimit) ==
    IF blockGasLimit <= 850 THEN blockGasLimit
    ELSE IF blockGasLimit <= 2000 THEN (blockGasLimit * 8) \div 10
    ELSE blockGasLimit \div 2

calculateMerkleLeafGas(foundryGas) ==
    IF network.hardcodedGas # 0 THEN network.hardcodedGas ELSE foundryGas

(* The data of a call of the CREATE2 proxy: a salt and an init code. *)
decodeDeterministicDeploymentProxyData(data) ==
    [create2Address |-> <<"create2", data[1], data[2]>>, initCode |-> data[2]]

encodeCreateCall(value, init) == <<"performCreate", value, init>>

isCreate2AccountAccess(root, nested) ==
    /\ nested # <<>>
    /\ root.kind = "Call" /\ root.account = Proxy
    /\ nested[1].kind = "Create" /\ nested[1].accessor = Proxy
    /\ nested[1].account = decodeDeterministicDeploymentProxyData(root.data).create2Address

(* Contracts with a name, and without; the name of the latter is Undefined. *)
Deployment(a, found) ==
    [address |-> a.account, name |-> findFullyQualifiedNameForInitCode(a.data, found)]

findFullyQualifiedNameForAddress(address, parsed, found) ==
    LET created == Creates(Flat(parsed))
        at == SelectIn(created, {a \in ToSet(created) : a.account = address})
    IN IF at = <<>> THEN Undefined
       ELSE findFullyQualifiedNameForInitCode(at[1].data, found)

(* referenceName of makeContractDecodedAction and makeFunctionCallDecodedAction. *)
ReferenceName(address, name) == IF name = Undefined THEN address ELSE <<name>>

(* The accesses whose deployments are put down to an action. *)
Labeled(root, nested) == IF root.kind = "Create" THEN Append(nested, root) ELSE nested

(* `target` is the address that an action deploys or calls.                *)
ActionInput(i, parsed, estimates) ==
    LET root == parsed[i].root
        nested == parsed[i].nested
        found == ConfigArtifacts(parsed)
        create2 == decodeDeterministicDeploymentProxyData(root.data)
        created == Creates(Labeled(root, nested))
        contracts == {Deployment(created[k], found) : k \in DOMAIN created}
        action(type, to, target, value, txData, name) ==
            [index |-> i, gas |-> calculateMerkleLeafGas(estimates[i]),
             contracts |-> {c \in contracts : c.name # Undefined},
             unlabeled |-> {c.address : c \in {d \in contracts : d.name = Undefined}},
             actionType |-> type, to |-> to, target |-> target, value |-> value,
             txData |-> txData, referenceName |-> ReferenceName(target, name)]
    IN IF root.kind = "Create"
       THEN action("CREATE", CreateCall, root.account, 0, encodeCreateCall(root.value, root.data),
                   findFullyQualifiedNameForInitCode(root.data, found))
       ELSE IF isCreate2AccountAccess(root, nested)
       THEN action("CREATE2", Proxy, create2.create2Address, root.value, root.data,
                   findFullyQualifiedNameForInitCode(create2.initCode, found))
       ELSE action("CALL", root.account, root.account, root.value, root.data,
                   findFullyQualifiedNameForAddress(root.account, parsed, found))

(* makeNetworkConfig, after the checks of the command that calls it. *)
makeNetworkConfig(parsed, estimates) ==
    LET actions == [i \in DOMAIN parsed |-> ActionInput(i, parsed, estimates)]
    IN IF /\ assertContractSizeLimitNotExceeded(parsed)
          /\ network.hardcodedGas # 0 =>
                 \A i \in DOMAIN estimates : estimates[i] <= network.hardcodedGas
          /\ \A i \in DOMAIN actions :
                 actions[i].gas <= getMaxGasLimit(network.blockGasLimit)
       THEN [status |-> "made", actionInputs |-> actions]
       ELSE Thrown

(* The script ends, and its DeploymentInfo is decoded. *)
Finalize ==
    /\ networkConfig = NotMade
    /\ LET parsed == addBalanceCheckAction(parseAccountAccesses)
       IN networkConfig' = makeNetworkConfig(parsed, estimateMerkleLeafGas(parsed))
    /\ UNCHANGED <<network, funds, onNetwork, nonce, accesses, executed>>

Callees == {accesses[k].account : k \in {j \in DOMAIN accesses : accesses[j].onNetwork = onNetwork}}

CollectionNext ==
    \/ \E init \in InitCode, inner \in Inner, gas \in GasUsed :
          \/ Deploy(init, inner, gas)
          \/ \E to \in {c \in Callees : c \notin {Utils, Proxy}} : Call(to, inner, gas)
    \/ \E salt \in Salts, init \in InitCode, gas \in GasUsed : DeployCreate2(salt, init, gas)
    \/ ByTheWay
    \/ SelectFork
    \/ Finalize

CollectionSpec == CollectionInit /\ [][CollectionNext]_collectionVars

-----------------------------------------------------------------------------
(* The preview of the network *)

IsFundingCheckAction(action) ==
    /\ action.actionType = "CALL" /\ action.to = Safe
    /\ action.txData = "0x" /\ action.value = SafeBalance + funds
    /\ action.contracts = {} /\ action.index = 1
    /\ action.referenceName = Safe

(* What will be executed, with the element that stands for the funding;    *)
(* empty for an InvariantError.                                            *)
getPreview ==
    LET actions == networkConfig.actionInputs
    IN IF funds > 0 /\ ~IsFundingCheckAction(actions[1])
       THEN <<>>
       ELSE [i \in DOMAIN actions |->
                IF i = 1 /\ funds > 0 THEN <<"FundingSafe", funds>>
                                      ELSE <<"Action", actions[i].referenceName>>]

-----------------------------------------------------------------------------
Collected == networkConfig.status = "made"

(* The action that performs the t-th transaction of the Safe. *)
ActionOf(t) ==
    networkConfig.actionInputs[t + IF funds = 0 THEN 0 ELSE 1]

(* Each transaction of the Safe on this network, and nothing else, becomes *)
(* an action, in the order of the script and at the place of its Merkle    *)
(* leaf, with at least the gas that it took, and a leaf fits into a block. *)
ActionsAreTheTransactions ==
    Collected =>
        /\ Len(networkConfig.actionInputs) = Len(executed) + IF funds = 0 THEN 0 ELSE 1
        /\ \A t \in DOMAIN executed :
              LET action == ActionOf(t)
                  tx == executed[t]
              IN /\ action.actionType = tx.type
                 /\ networkConfig.actionInputs[action.index] = action
                 /\ action.to = IF tx.type = "CREATE" THEN CreateCall ELSE tx.to
                 /\ tx.type # "CALL" =>
                       action.target \in {c.address : c \in tx.created}
                 /\ tx.gas < action.gas /\ action.gas <= network.blockGasLimit

(* Contracts that something else than the Safe deployed on the network. *)
Strays == {accesses[k].account : k \in {j \in DOMAIN accesses :
              accesses[j].kind = "Create" /\ accesses[j].accessor = Script}}

(* The name of the contract with an init code, if there is a build info. *)
TrueName(init) == findFullyQualifiedNameForInitCode(init, Artifacts)

(* Every contract that a transaction deploys, directly or through others,  *)
(* is put down to its action, by name if it has one, and a contract of     *)
(* another transaction or another network is not; an action shows the name *)
(* of the contract that it deploys or calls.                               *)
DeploymentsAreLabeled ==
    Collected =>
        \A t \in DOMAIN executed :
            LET action == ActionOf(t)
                named == {c \in executed[t].created : TrueName(c.init) # Undefined}
                known == UNION {executed[u].created : u \in DOMAIN executed}
            IN /\ {c \in action.contracts : c.address \notin Strays} =
                      {[address |-> c.address, name |-> TrueName(c.init)] : c \in named}
               /\ action.unlabeled \ Strays =
                      {c.address : c \in executed[t].created \ named}
               /\ \A c \in known : c.address = action.target =>
                      action.referenceName = ReferenceName(c.address, TrueName(c.init))

(* The check of the Safe's funds is where the preview expects it.          *)
PreviewIsTrue ==
    Collected => Len(getPreview) = Len(networkConfig.actionInputs)

=============================================================================
