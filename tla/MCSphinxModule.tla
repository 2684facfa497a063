---------------------------- MODULE MCSphinxModule ----------------------------
(* SphinxModule on chain 1 with five signed Merkle roots. *)
EXTENDS SphinxModule, TLC

Merkle == INSTANCE MerkleTree

CONSTANTS o1, o2, o3,                   \* owners; o1 and o2 also execute
          deploy, cancelDeploy, retire, everywhere, twin

(* The data of one network, as the tools collect them. *)
Deployment(chain, nonce, executor, arbitrary, txs) ==
    [chainId |-> chain, safeProxy |-> "safe", moduleProxy |-> "module",
     nonce |-> nonce, executor |-> executor, arbitraryChain |-> arbitrary,
     txs |-> txs]

Cancellation(chain, nonce, executor, root) ==
    [chainId |-> chain, safeProxy |-> "safe", moduleProxy |-> "module",
     nonce |-> nonce, executor |-> executor, merkleRootToCancel |-> root]

TreeOf(entries) ==
    LET leaves == Merkle!makeSphinxMerkleTree(entries).leaves
    IN {leaves[i] : i \in 1 .. Len(leaves)}

MCTree == [r \in {deploy, cancelDeploy, retire, everywhere, twin} |->
    CASE r = deploy ->
            TreeOf(<<Deployment(1, 0, o1, FALSE, <<TRUE, FALSE, TRUE>>),
                     Deployment(2, 0, o1, FALSE, <<TRUE>>)>>)
      [] r = cancelDeploy ->
            TreeOf(<<Cancellation(1, 1, o2, deploy),
                     Cancellation(2, 1, o2, deploy)>>)
      [] r = retire ->
            \* spends nonce 0 on this chain, nonce 1 on the other
            TreeOf(<<Deployment(1, 0, o2, FALSE, <<>>),
                     Deployment(2, 1, o2, FALSE, <<>>)>>)
      [] r = everywhere ->
            TreeOf(<<Deployment(1, 1, o2, TRUE, <<FALSE, TRUE>>)>>)
            \* and, by hand, a leaf that names a chain, which must not run
            \cup {[chainId |-> 1, index |-> 2, leafType |-> "EXECUTE",
                   requireSuccess |-> FALSE]}
      [] r = twin ->
            \* not built by the tools: two leaves of index 0 and two of index
            \* 1, and one of another module
            TreeOf(<<Deployment(1, 0, o1, FALSE, <<TRUE>>)>>)
            \cup TreeOf(<<Deployment(1, 2, o1, FALSE, <<FALSE>>)>>)
            \cup {[Merkle!ApproveLeaf(Deployment(1, 1, o1, FALSE, <<TRUE>>))
                     EXCEPT !.moduleProxy = "other"]}]

MCSignedBy == (deploy :> {o1, o2}) @@ (cancelDeploy :> {o2, o3}) @@
              (retire :> {o1, o2, o3}) @@ (everywhere :> {o1, o3}) @@
              (twin :> {o1, o2})

=============================================================================
