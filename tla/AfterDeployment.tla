---------------------------- MODULE AfterDeployment ----------------------------
(***************************************************************************)
(* What follows a deployment: `sphinx deploy` records it and then, with    *)
(* --verify on a live network, verifies its contracts; the platform        *)
(* verifies what it executed (packages/plugins/src/cli/deploy.ts, from the *)
(* answer of attemptDeployment on).                                        *)
(***************************************************************************)
EXTENDS DeploymentArtifacts, Verification

CONSTANTS
    MaxVerified \* bound: deployments that are verified, the first ones

vars == <<artifactVars, verificationVars>>

Init == ArtifactsInit /\ VerificationInit

(* The contracts of a deployment, as the loops go through them. *)
ToVerify(root) ==
    LET d == deployments[root]
        contracts == Contracts(d)
    IN [k \in DOMAIN contracts |->
           [id |-> <<root, k>>, deployed |-> HasCode(d, contracts[k])]]

(* The artifacts are written.  A command verifies if it was asked to. *)
EndCommand ==
    /\ command.pc = "recorded"
    /\ command' = NoCommand
    /\ UNCHANGED <<deployments, disk, inputs, website, exits, verificationVars>>

VerifyDeployment ==
    /\ command.pc = "recorded" /\ command.mode = "LiveNetworkCLI"
    /\ command.root <= MaxVerified
    /\ command' = [command EXCEPT !.pc = "verify"]
    /\ StartLoop("verifyDeploymentWithRetries", ToVerify(command.root))
    /\ UNCHANGED <<deployments, disk, inputs, website, exits, explorer>>

(* The platform verifies a deployment it recorded, before the next one. *)
VerifyOnPlatform(root) ==
    /\ command.pc = "idle"
    /\ root \in DOMAIN website.execution
    /\ root = Len(deployments) /\ root <= MaxVerified
    /\ StartLoop("verifySphinxConfig", ToVerify(root))
    /\ UNCHANGED <<artifactVars, explorer>>

(* The system contracts, here one that is there and one that is not, which *)
(* are on a network before the first deployment.                           *)
VerifySystem ==
    /\ deployments = <<>>
    /\ StartLoop("verifySphinxSystem",
                 <<[id |-> <<0, 1>>, deployed |-> FALSE], [id |-> <<0, 2>>, deployed |-> TRUE]>>)
    /\ UNCHANGED <<artifactVars, explorer>>

EndVerification ==
    /\ Ended
    /\ loop' = NoLoop
    /\ explorer' = NothingKnown
    /\ command' = IF command.pc = "verify" THEN NoCommand ELSE command
    /\ UNCHANGED <<deployments, disk, inputs, website, exits>>

(* One thing after the other: no command starts while a loop runs. *)
NoLoopRuns == loop.pc = "off" /\ UNCHANGED verificationVars

Next ==
    \/ \E mode \in ExecutionMode, script \in Scripts :
          NoLoopRuns /\ ExecuteDeployment(mode, script)
    \/ \E root \in DOMAIN deployments : NoLoopRuns /\ WebsiteRecords(root)
    \/ NoLoopRuns /\ readDeploymentArtifactsForNetwork
    \/ NoLoopRuns /\ MakeArtifacts
    \/ NoLoopRuns /\ fetchRemoteArtifacts
    \/ NoLoopRuns /\ writeDeploymentArtifacts
    \/ NoLoopRuns /\ Exit
    \/ \E directory \in DOMAIN disk, kind \in {"contracts", "execution"} :
          \E name \in DOMAIN disk[directory][kind] :
             NoLoopRuns /\ RemoveTorn(directory, kind, name)
    \/ EndCommand \/ VerifyDeployment \/ VerifySystem
    \/ \E root \in DOMAIN deployments : VerifyOnPlatform(root)
    \/ SkipContract /\ UNCHANGED artifactVars
    \/ Submit /\ UNCHANGED artifactVars
    \/ Poll /\ UNCHANGED artifactVars
    \/ \E k \in DOMAIN loop.contracts :
          /\ loop.contracts[k].deployed
          /\ Verifies(loop.contracts[k].id) \/ Refuses(loop.contracts[k].id)
          /\ UNCHANGED artifactVars
    \/ EndVerification

Spec == Init /\ [][Next]_vars

=============================================================================
