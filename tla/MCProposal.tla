------------------------------- MODULE MCProposal ------------------------------
(***************************************************************************)
(* A project on two testnets and two production networks, one of which has *)
(* the wrong kind in one version of the script.                            *)
(***************************************************************************)
EXTENDS Proposal, TLC

MCRpcEndpoints == [sepolia |-> 11, goerli |-> 12, mainnet |-> 1, private |-> 99]
MCNetworkType == (1 :> "Mainnet") @@ (11 :> "Testnet") @@ (12 :> "Testnet")
MCConfigs ==
    {[project |-> "p", safe |-> "s", mainnets |-> <<"mainnet">>,
      testnets |-> <<"sepolia", "goerli">>],
     [project |-> "p", safe |-> "t", mainnets |-> <<"sepolia">>,
      testnets |-> <<"goerli", "mainnet">>]}
MCCliNetworks ==
    {Mainnets, Testnets, <<"sepolia">>, <<"mainnet", "sepolia">>, <<"goerli", "sepolia">>,
     <<"sepolia", "private">>, <<"missing">>}
MCSigs == {<<"signature", "argument">>, <<"hex data">>, <<"argument">>}
=============================================================================
