--------------------------- MODULE MCBuildInfoCache ---------------------------
(***************************************************************************)
(* Two commands in a project with a script and two contracts of one name,  *)
(* one of which Forge compiles to the top of its folder; one of them and   *)
(* the script have two versions.                                           *)
(***************************************************************************)
EXTENDS BuildInfoCache

MCNames == {"S", "lib/T", "src/T"}
MCCodes == {"s1", "s2", "t", "u1", "u2", "raw"}
MCVersions == ("S" :> {"s1", "s2"}) @@ ("lib/T" :> {"t"}) @@ ("src/T" :> {"u1", "u2"})
MCPath == ("S" :> <<"script", "S">>) @@ ("lib/T" :> <<"lib", "T">>)
              @@ ("src/T" :> <<"src", "T">>)
MCPlace == ("S" :> <<"S">>) @@ ("lib/T" :> <<"T">>) @@ ("src/T" :> <<"src", "T">>)

Deploys(code) == [code |-> code, args |-> IF code \in WithConstructor THEN "x" ELSE NoArgs]
MCScripts == {<<Deploys("t"), Deploys("u1")>>, <<Deploys("raw"), Deploys("u2")>>}
Symmetry == Permutations(Commands)
=============================================================================
