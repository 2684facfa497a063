--------------------------- MODULE MCAfterDeployment ---------------------------
(* A project that deploys two tokens and a vault in one version, and in    *)
(* another two tokens and a contract whose name is the second one's file.  *)
EXTENDS AfterDeployment

Token == [base |-> "Token", numbers |-> <<>>]
Token_1 == [base |-> "Token", numbers |-> <<1>>]
Vault == [base |-> "Vault", numbers |-> <<>>]

MCScripts == {<<<<Token>>, <<Vault, Token>>>>, <<<<Token, Token_1, Token>>>>}

=============================================================================
