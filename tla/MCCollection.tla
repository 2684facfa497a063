------------------------------ MODULE MCCollection -----------------------------
(***************************************************************************)
(* Scripts of a few accesses on networks with a high and a low block gas   *)
(* limit and with a fixed gas per leaf.                                    *)
(***************************************************************************)
EXTENDS Collection

MCArtifacts == <<[name |-> "A", code |-> "a"], [name |-> "B", code |-> "b"]>>
MCNetworks ==
    {[blockGasLimit |-> 3000, hardcodedGas |-> 0, rootstock |-> FALSE],
     [blockGasLimit |-> 680, hardcodedGas |-> 0, rootstock |-> TRUE],
     [blockGasLimit |-> 1250, hardcodedGas |-> 500, rootstock |-> FALSE]}
MCInner == {<<>>, <<[code |-> "a", args |-> NoArgs], [code |-> "raw", args |-> NoArgs]>>}
=============================================================================
