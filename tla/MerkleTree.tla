------------------------------ MODULE MerkleTree ------------------------------
(***************************************************************************)
(* How the off-chain tools turn the deployments and cancellations of       *)
(* several networks into the leaves of one Merkle tree                     *)
(* (packages/contracts/src/merkle-tree.ts, makeSphinxLeaves), and how they *)
(* later pick a network's leaves out of it.                                *)
(*                                                                         *)
(* A leaf's encoded data are its fields.  Hashing, sorting and proofs are  *)
(* @openzeppelin/merkle-tree's, and not modelled: a tree is its leaves.    *)
(***************************************************************************)
EXTENDS Integers, FiniteSets, Selection

(* The fields that tell the two kinds of network data apart. *)
isNetworkDeploymentData(data) == {"arbitraryChain", "txs"} \subseteq DOMAIN data
isNetworkCancellationData(data) == "merkleRootToCancel" \in DOMAIN data

(* What the loop of makeSphinxLeaves carries from entry to entry. *)
NoLeaves ==
    [leaves |-> <<>>, approvalIncluded |-> FALSE,
     arbitraryApprovalIncluded |-> FALSE, cancellationLeafIncluded |-> FALSE,
     thrown |-> FALSE]

Throw(acc) == [acc EXCEPT !.thrown = TRUE]

ApproveLeaf(data) ==
    [chainId |-> IF data.arbitraryChain THEN 0 ELSE data.chainId,
     index |-> 0,
     leafType |-> "APPROVE",
     safeProxy |-> data.safeProxy,
     moduleProxy |-> data.moduleProxy,
     nonce |-> data.nonce,
     numLeaves |-> Len(data.txs) + 1,
     executor |-> data.executor,
     arbitraryChain |-> data.arbitraryChain]

(* Mutant: the APPROVE leaf is not counted. *)
ExecuteLeaf_FromZero(data, i) ==
    [chainId |-> IF data.arbitraryChain THEN 0 ELSE data.chainId,
     index |-> i - 1,
     leafType |-> "EXECUTE",
     requireSuccess |-> data.txs[i]]

ExecuteLeaf(data, i) ==
    [chainId |-> IF data.arbitraryChain THEN 0 ELSE data.chainId,
     index |-> i,
     leafType |-> "EXECUTE",
     requireSuccess |-> data.txs[i]]

CancelLeaf(data) ==
    [chainId |-> data.chainId,
     index |-> 0,
     leafType |-> "CANCEL",
     safeProxy |-> data.safeProxy,
     moduleProxy |-> data.moduleProxy,
     nonce |-> data.nonce,
     rootToCancel |-> data.merkleRootToCancel,
     executor |-> data.executor]

(* Mutants: a check is missing before, or after, an approval for any chain. *)
Conflicts_NoCancel(acc, data) ==
    IF data.arbitraryChain
    THEN acc.arbitraryApprovalIncluded \/ acc.approvalIncluded
    ELSE acc.arbitraryApprovalIncluded

Conflicts_OnlyBefore(acc, data) ==
    /\ data.arbitraryChain
    /\ \/ acc.cancellationLeafIncluded
       \/ acc.arbitraryApprovalIncluded
       \/ acc.approvalIncluded

(* An approval for any chain tolerates no other approval or cancellation.  *)
Conflicts(acc, data) ==
    IF data.arbitraryChain
    THEN \/ acc.cancellationLeafIncluded
         \/ acc.arbitraryApprovalIncluded
         \/ acc.approvalIncluded
    ELSE acc.arbitraryApprovalIncluded

IncludeDeployment(acc, data) ==
    [acc EXCEPT
        !.leaves = @ \o <<ApproveLeaf(data)>> \o
                   [i \in 1 .. Len(data.txs) |-> ExecuteLeaf(data, i)],
        !.approvalIncluded = TRUE,
        !.arbitraryApprovalIncluded = @ \/ data.arbitraryChain]

IncludeCancellation(acc, data) ==
    [acc EXCEPT
        !.leaves = Append(@, CancelLeaf(data)),
        !.cancellationLeafIncluded = TRUE]

(* One iteration: the data of one network. *)
Include(acc, data) ==
    IF acc.thrown THEN acc
    ELSE IF isNetworkDeploymentData(data) /\ ~isNetworkCancellationData(data)
    THEN IF Conflicts(acc, data) THEN Throw(acc) ELSE IncludeDeployment(acc, data)
    ELSE IF isNetworkCancellationData(data) /\ ~isNetworkDeploymentData(data)
    THEN IF acc.arbitraryApprovalIncluded THEN Throw(acc)
         ELSE IncludeCancellation(acc, data)
    ELSE Throw(acc)

makeSphinxLeaves(entries) == FoldLeft(Include, NoLeaves, entries)

(* makeSphinxMerkleTree: StandardMerkleTree.of refuses an empty tree. *)
makeSphinxMerkleTree(entries) ==
    LET acc == makeSphinxLeaves(entries)
    IN IF acc.leaves = <<>> THEN Throw(acc) ELSE acc

-----------------------------------------------------------------------------
(* packages/core: a network's leaves, in the order of the array *)

networkLeaves(leaves, chainId) ==
    SelectIn(leaves, {leaf \in ToSet(leaves) : leaf.chainId = chainId})

(* findLeafWithProof: the first match, or an exception. *)
hasLeaf(leaves, leafType, chainId) ==
    \E i \in 1 .. Len(leaves) :
        leaves[i].leafType = leafType /\ leaves[i].chainId = chainId

findLeaf(leaves, leafType, chainId) ==
    SelectIn(leaves, {leaf \in ToSet(leaves) :
                         leaf.leafType = leafType /\ leaf.chainId = chainId})[1]

-----------------------------------------------------------------------------
(* The reference: what specs/merkle-tree.md calls a valid Merkle tree, the *)
(* numbers being those of its high-level invariants.                       *)

First(leaf) == leaf.leafType \in {"APPROVE", "CANCEL"}
Arbitrary(leaf) == leaf.leafType = "APPROVE" /\ leaf.arbitraryChain

ValidTree(leaves) ==
    LET Positions == 1 .. Len(leaves)
        Named == {leaves[i].chainId : i \in Positions}
        On(chain) == {i \in Positions : leaves[i].chainId = chain}
        Firsts(chain) == {i \in On(chain) : First(leaves[i])}
    IN
    \* 2. and 3.
    /\ IF \E i \in Positions : Arbitrary(leaves[i])
       THEN Cardinality({i \in Positions : First(leaves[i])}) = 1
       ELSE \A c \in Named : Cardinality(Firsts(c)) = 1
    \* 4.
    /\ \A i \in Positions : leaves[i].leafType = "EXECUTE" =>
          \E j \in 1 .. i - 1 :
              leaves[j].leafType = "APPROVE" /\ leaves[j].chainId = leaves[i].chainId
    \* 5.
    /\ \A i, j \in Positions :
          ~ /\ leaves[i].leafType = "EXECUTE"
            /\ leaves[j].leafType = "CANCEL"
            /\ leaves[i].chainId = leaves[j].chainId
    \* 6.
    /\ \A i, j \in Positions : i # j =>
          leaves[i].chainId # leaves[j].chainId \/ leaves[i].index # leaves[j].index
    \* 7.
    /\ \A i \in Positions : First(leaves[i]) => leaves[i].index = 0
    \* 8.
    /\ \A c \in Named :
          {leaves[i].index : i \in On(c) \ Firsts(c)} =
              1 .. Cardinality(On(c) \ Firsts(c))

=============================================================================
