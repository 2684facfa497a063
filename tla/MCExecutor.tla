------------------------------ MODULE MCExecutor ------------------------------
(* A deployment of three transactions with its cancellation, a root with   *)
(* two that retires it by its nonce, and one that follows the cancellation.*)
EXTENDS Executor, TLC

CONSTANTS cancellation, retirement, rival

Only(f) == [r \in Roots |-> f[r]]

MCSize == Only((deployment :> 4) @@ (cancellation :> 0) @@ (retirement :> 3) @@
               (rival :> 5))

MCNonce == Only((deployment :> 0) @@ (cancellation :> 1) @@ (retirement :> 0) @@
                (rival :> 2))

(* The first transaction checks the funds, the others spend them. *)
MCSimulatedBalance == (0 :> 2) @@ (1 :> 2) @@ (2 :> 1) @@ (3 :> 0)

MCLeafGas == <<3000, 1000, 6200>>
MCLeafBytes == [zero |-> 1, nonZero |-> 1]

(* All leaves in one batch; two and one; the last one too large, or each in *)
(* a batch of its own.                                                      *)
MCNetworks ==
    {[blockGasLimit |-> 30000, batching |-> TRUE, implementsEIP2028 |-> TRUE,
      buffersGasLimit |-> FALSE],
     [blockGasLimit |-> 7800, batching |-> TRUE, implementsEIP2028 |-> TRUE,
      buffersGasLimit |-> TRUE],
     [blockGasLimit |-> 6800, batching |-> TRUE, implementsEIP2028 |-> FALSE,
      buffersGasLimit |-> FALSE],
     [blockGasLimit |-> 15000, batching |-> FALSE, implementsEIP2028 |-> TRUE,
      buffersGasLimit |-> TRUE]}

=============================================================================
