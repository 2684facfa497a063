------------------------- MODULE MCModuleProxyFactory -------------------------
(* Two Safes of Sphinx and one of an old version; the Safes themselves and *)
(* an account call the factory.                                            *)
EXTENDS ModuleProxyFactory

CONSTANTS alpha, beta, old, account

=============================================================================
