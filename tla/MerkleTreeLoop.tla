---------------------------- MODULE MerkleTreeLoop ----------------------------
(***************************************************************************)
(* The loop of makeSphinxLeaves (packages/contracts/src/merkle-tree.ts)    *)
(* over every sequence of up to MaxNetworks network data, one iteration a  *)
(* step.                                                                   *)
(***************************************************************************)
EXTENDS MerkleTree

CONSTANTS
    Chains,      \* chain ids, the keys of the object
    MaxTxs,      \* bound: transactions of a deployment
    MaxNetworks  \* bound: networks

ASSUME MerkleTreeLoopAssumption == MaxTxs \in Nat /\ MaxNetworks \in Nat

Data(chain) ==
    [type : {"deployment"}, chainId : {chain}, safeProxy : {"safe"},
     moduleProxy : {"module"}, nonce : {0}, executor : {"executor"},
     arbitraryChain : BOOLEAN,
     txs : UNION {[1 .. n -> BOOLEAN] : n \in 0 .. MaxTxs}]
    \cup
    [type : {"cancellation"}, chainId : {chain}, safeProxy : {"safe"},
     moduleProxy : {"module"}, nonce : {0}, executor : {"executor"},
     merkleRootToCancel : {"root"}]
    \cup
    \* neither, and both
    {[type |-> "none", chainId |-> chain],
     [type |-> "both", chainId |-> chain, arbitraryChain |-> FALSE,
      txs |-> <<>>, merkleRootToCancel |-> "root"]}

(* The entries of an object: one for each key, in some order. *)
Inputs ==
    {s \in UNION {[1 .. n -> UNION {Data(c) : c \in Chains}] :
                  n \in 0 .. MaxNetworks} :
        \A i, j \in DOMAIN s : i # j => s[i].chainId # s[j].chainId}

VARIABLES
    entries, \* the network data
    acc,     \* what the loop carries, see NoLeaves
    next     \* the entry that is next

loopVars == <<entries, acc, next>>

LoopInit == entries \in Inputs /\ acc = NoLeaves /\ next = 1

LoopNext ==
    /\ next <= Len(entries)
    /\ ~acc.thrown
    /\ acc' = Include(acc, entries[next])
    /\ next' = next + 1
    /\ UNCHANGED entries

LoopSpec == LoopInit /\ [][LoopNext]_loopVars

-----------------------------------------------------------------------------
LoopReturned == ~acc.thrown /\ next > Len(entries)

IsArbitrary(data) == "arbitraryChain" \in DOMAIN data /\ data.arbitraryChain

(* After every iteration, and so for every result, the leaves so far are a *)
(* valid tree in the sense of specs/merkle-tree.md.                        *)
LeavesAreValid == ~acc.thrown => ValidTree(acc.leaves)

(* It throws exactly when it has to: an approval for any chain shares the  *)
(* tree with another entry, or an entry is of no kind or of both.          *)
ThrowsExactlyOnConflict ==
    LET seen == {entries[i] : i \in 1 .. next - 1} IN
    acc.thrown <=>
        \/ \E d \in seen : d.type \in {"none", "both"}
        \/ Cardinality(seen) > 1 /\ \E d \in seen : IsArbitrary(d)

(* What the executor relies on: the leaves it filters for a network are    *)
(* those of that network's entry, the APPROVE leaf first, then one for     *)
(* each transaction in order, as many as the APPROVE leaf announces; their *)
(* index is their place, so that a slice of the array is a batch.          *)
NetworkLeavesAreABatchPlan ==
    LoopReturned => \A i \in 1 .. Len(entries) :
        LET data == entries[i]
            chain == IF IsArbitrary(data) THEN 0 ELSE data.chainId
            leaves == networkLeaves(acc.leaves, chain)
        IN
        /\ \A k \in 1 .. Len(leaves) : leaves[k].index = k - 1
        /\ data.type = "deployment" =>
              /\ hasLeaf(acc.leaves, "APPROVE", chain)
              /\ ~hasLeaf(acc.leaves, "CANCEL", chain)
              /\ leaves[1] = findLeaf(acc.leaves, "APPROVE", chain)
              /\ leaves[1].numLeaves = Len(leaves)
              /\ Len(leaves) = Len(data.txs) + 1
              /\ \A k \in 2 .. Len(leaves) :
                    leaves[k].requireSuccess = data.txs[k - 1]
        /\ data.type = "cancellation" =>
              /\ ~hasLeaf(acc.leaves, "APPROVE", chain)
              /\ leaves = <<findLeaf(acc.leaves, "CANCEL", chain)>>

=============================================================================
