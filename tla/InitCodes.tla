------------------------------- MODULE InitCodes -------------------------------
(***************************************************************************)
(* Init code and the contracts it belongs to (packages/plugins/src/foundry *)
(* /utils/index.ts, isInitCodeMatch and findFullyQualifiedNameForInitCode).*)
(*                                                                         *)
(* An init code is [code, args]: the creation code as compiled, with       *)
(* library placeholders zeroed, and the constructor arguments after it.    *)
(* No creation code is a prefix of another.                                *)
(***************************************************************************)
EXTENDS Naturals, Sequences, SequencesExt

CONSTANTS
    Codes,            \* creation codes of compiled contracts
    WithConstructor,  \* those whose ABI has a constructor with arguments
    Args              \* values of constructor arguments

NoArgs == "no args"

ASSUME InitCodesAssumption == WithConstructor \subseteq Codes /\ NoArgs \notin Args

(* What a script can deploy from the sources. *)
InitCode ==
    [code : WithConstructor, args : Args]
        \cup [code : Codes \ WithConstructor, args : {NoArgs}]

(* The same code and arguments that the constructor can decode, or no      *)
(* arguments where there is no constructor.                                *)
isInitCodeMatch(init, code) ==
    /\ init.code = code
    /\ IF code \in WithConstructor THEN init.args \in Args ELSE init.args = NoArgs

(* The first entry of configArtifacts that matches; it is a sequence of    *)
(* [name, code, ...], in the order of insertion.                           *)
findFullyQualifiedNameForInitCode(init, configArtifacts) ==
    LET found == {k \in DOMAIN configArtifacts :
                     isInitCodeMatch(init, configArtifacts[k].code)}
        first == CHOOSE k \in found : \A j \in found : k <= j
    IN IF found = {} THEN "undefined" ELSE configArtifacts[first].name

=============================================================================
