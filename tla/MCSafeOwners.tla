----------------------------- MODULE MCSafeOwners -----------------------------
(* A Safe of three owners and up to four; wallet addresses in the order of  *)
(* the real ones (wallet 1 < wallet 2 < wallet 0).                         *)
EXTENDS SafeOwners, TLC

MCWalletAddress == (0 :> 40) @@ (1 :> 20) @@ (2 :> 30)

MCInitialOwners == <<60, 10, 50>>

=============================================================================
