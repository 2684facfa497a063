----------------------------- MODULE MCMerkleTree -----------------------------
(* Up to three networks with up to two transactions each, in every order:  *)
(* the constants are in the configuration.                                 *)
EXTENDS MerkleTreeLoop
=============================================================================
