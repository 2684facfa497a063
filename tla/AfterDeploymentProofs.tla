--------------------------- MODULE AfterDeploymentProofs ---------------------------
(***************************************************************************)
(* Theorems about the record and the verification of deployments, for      *)
(* every project, any number of deployments and interruptions, and every   *)
(* answer of the block explorer.                                           *)
(***************************************************************************)
EXTENDS AfterDeployment, SelectionProofs

-----------------------------------------------------------------------------
(* The loop of a verification *)

Checked == [id : Nat \X Nat, deployed : BOOLEAN]

LoopType ==
    [pc : {"off", "attempt", "poll", "done", "threw"}, caller : Callers,
     contracts : Seq(Checked), k : Nat, tries : Seq(Nat), succeeded : SUBSET (Nat \X Nat)]

(* The loop stands at one of its contracts, which differ. *)
LoopOK(l) ==
    /\ l \in LoopType
    /\ l.k > 0 /\ Len(l.tries) = Len(l.contracts)
    /\ \A i, j \in 1 .. Len(l.contracts) : l.contracts[i].id = l.contracts[j].id => i = j
    /\ l.pc \in {"attempt", "poll"} => l.k <= Len(l.contracts)
    /\ l.pc = "poll" => l.contracts[l.k].deployed

(* The loop does not come back to a contract it has settled. *)
Settled(l, j) ==
    /\ l.caller = "verifyDeploymentWithRetries" =>
          l.contracts[j].id \in l.succeeded \/ l.tries[j] = maxAttempts
    /\ l.caller = "verifySphinxConfig" => l.contracts[j].id \in l.succeeded

(* The contracts before the current one are settled, and the current one   *)
(* and those after it may still be tried.                                  *)
NoneSkipped(l) ==
    /\ l.pc \in {"attempt", "poll"} =>
          /\ \A j \in 1 .. l.k - 1 : Settled(l, j)
          /\ \A j \in l.k .. Len(l.contracts) : l.tries[j] < maxAttempts
    /\ l.pc = "done" => \A j \in 1 .. Len(l.contracts) : Settled(l, j)

Truthful(l, verified) ==
    \A j \in 1 .. Len(l.contracts) :
        l.contracts[j].id \in l.succeeded =>
            ~l.contracts[j].deployed \/ l.contracts[j].id \in verified

VerificationInv ==
    /\ LoopOK(loop) /\ NoneSkipped(loop)
    /\ explorer \in [submitted : SUBSET (Nat \X Nat), verified : SUBSET (Nat \X Nat)]
    /\ Truthful(loop, explorer.verified)

(* One more attempt of the current contract, which may have succeeded. *)
LEMMA TriedEffect ==
    ASSUME LoopOK(loop), NoneSkipped(loop), loop.pc \in {"attempt", "poll"}
    PROVE  /\ Tried \in LoopType
           /\ Tried.caller = loop.caller /\ Tried.contracts = loop.contracts
           /\ Tried.k = loop.k /\ Tried.pc = loop.pc
           /\ Tried.succeeded = loop.succeeded
           /\ Len(Tried.tries) = Len(loop.contracts)
           /\ Tried.tries[loop.k] = loop.tries[loop.k] + 1
           /\ Tried.tries[loop.k] <= maxAttempts
           /\ \A j \in 1 .. Len(loop.contracts) : j # loop.k => Tried.tries[j] = loop.tries[j]
           /\ loop.k \in 1 .. Len(loop.contracts) /\ loop.tries[loop.k] \in Nat
           /\ Len(loop.contracts) \in Nat
<1>1. /\ loop \in LoopType /\ loop.tries \in Seq(Nat)
      /\ Len(loop.tries) = Len(loop.contracts)
      /\ loop.k \in 1 .. Len(loop.contracts) /\ Len(loop.contracts) \in Nat
  BY DEF LoopOK, LoopType
<1>2. loop.tries[loop.k] < maxAttempts /\ loop.tries[loop.k] \in Nat
  BY <1>1 DEF NoneSkipped
<1>3. PICK tries : tries = [loop.tries EXCEPT ![loop.k] = loop.tries[loop.k] + 1]
  OBVIOUS
<1>4. /\ tries \in Seq(Nat) /\ Len(tries) = Len(loop.contracts)
      /\ tries[loop.k] = loop.tries[loop.k] + 1
      /\ \A j \in 1 .. Len(loop.contracts) : j # loop.k => tries[j] = loop.tries[j]
  BY <1>1, <1>2, <1>3
<1>5. Tried = [loop EXCEPT !.tries = tries]
  BY <1>3 DEF Tried
<1>6. tries[loop.k] <= maxAttempts
  BY <1>2, <1>4, VerificationAssumption
<1> QED
  BY <1>1, <1>2, <1>4, <1>5, <1>6 DEF LoopType

(* The loop goes on to the next contract, or ends after the last one. *)
LEMMA NextContractEffect ==
    ASSUME NEW l \in LoopType, l.k \in 1 .. Len(l.contracts)
    PROVE  /\ NextContract(l) \in LoopType
           /\ NextContract(l).caller = l.caller
           /\ NextContract(l).contracts = l.contracts
           /\ NextContract(l).tries = l.tries
           /\ NextContract(l).succeeded = l.succeeded
           /\ \/ /\ l.k < Len(l.contracts)
                 /\ NextContract(l).k = l.k + 1 /\ NextContract(l).pc = "attempt"
              \/ /\ l.k = Len(l.contracts)
                 /\ NextContract(l).k = l.k /\ NextContract(l).pc = "done"
<1>1. l.k \in Nat /\ Len(l.contracts) \in Nat
  BY DEF LoopType
<1>2. CASE l.k < Len(l.contracts)
  <2>1. PICK n : n = l.k + 1
    OBVIOUS
  <2>2. n \in Nat
    BY <1>1, <2>1
  <2>3. NextContract(l) = [l EXCEPT !.k = n, !.pc = "attempt"]
    BY <1>2, <2>1 DEF NextContract
  <2>4. /\ NextContract(l) \in LoopType
        /\ NextContract(l).caller = l.caller
        /\ NextContract(l).contracts = l.contracts
        /\ NextContract(l).tries = l.tries
        /\ NextContract(l).succeeded = l.succeeded
        /\ NextContract(l).k = n /\ NextContract(l).pc = "attempt"
    BY <2>2, <2>3 DEF LoopType
  <2> QED
    BY <1>2, <2>1, <2>4
<1>3. CASE l.k = Len(l.contracts)
  <2>1. NextContract(l) = [l EXCEPT !.pc = "done"]
    BY <1>1, <1>3 DEF NextContract
  <2> QED
    BY <1>1, <1>3, <2>1 DEF LoopType
<1> QED
  BY <1>1, <1>2, <1>3

(* Once the current contract is settled, the loop goes on in order. *)
LEMMA GoingOnKeeps ==
    ASSUME LoopOK(loop), NoneSkipped(loop), loop.pc \in {"attempt", "poll"},
           NEW l \in LoopType,
           l.caller = loop.caller, l.contracts = loop.contracts, l.k = loop.k,
           l.tries = Tried.tries, loop.succeeded \subseteq l.succeeded,
           Settled(l, loop.k)
    PROVE  LoopOK(NextContract(l)) /\ NoneSkipped(NextContract(l))
<1> DEFINE new == NextContract(l)
<1>1. /\ loop.k \in 1 .. Len(loop.contracts) /\ Len(loop.contracts) \in Nat
      /\ Len(l.tries) = Len(loop.contracts)
      /\ \A j \in 1 .. Len(loop.contracts) : j # loop.k => l.tries[j] = loop.tries[j]
  BY TriedEffect
<1>2. /\ new \in LoopType
      /\ new.caller = loop.caller /\ new.contracts = loop.contracts
      /\ new.tries = l.tries /\ new.succeeded = l.succeeded
      /\ \/ /\ loop.k < Len(loop.contracts)
            /\ new.k = loop.k + 1 /\ new.pc = "attempt"
         \/ /\ loop.k = Len(loop.contracts)
            /\ new.k = loop.k /\ new.pc = "done"
  BY <1>1, NextContractEffect
<1> HIDE DEF new
<1>3. LoopOK(new)
  BY <1>1, <1>2 DEF LoopOK
<1>4. ASSUME NEW j \in 1 .. loop.k PROVE Settled(new, j)
  <2>1. CASE j = loop.k
    BY <1>2, <2>1 DEF Settled
  <2>2. CASE j # loop.k
    <3>1. j \in 1 .. loop.k - 1 /\ j \in 1 .. Len(loop.contracts)
      BY <1>1, <2>2
    <3>2. Settled(loop, j) /\ l.tries[j] = loop.tries[j]
      BY <1>1, <2>2, <3>1 DEF NoneSkipped
    <3> QED
      BY <1>2, <3>2 DEF Settled
  <2> QED
    BY <2>1, <2>2
<1>5. ASSUME NEW j \in loop.k + 1 .. Len(loop.contracts) PROVE new.tries[j] < maxAttempts
  <2>1. j \in loop.k .. Len(loop.contracts) /\ j \in 1 .. Len(loop.contracts) /\ j # loop.k
    BY <1>1
  <2> QED
    BY <1>1, <1>2, <2>1 DEF NoneSkipped
<1>6. NoneSkipped(new)
  BY <1>1, <1>2, <1>4, <1>5 DEF NoneSkipped
<1> QED
  BY <1>3, <1>6 DEF new

(* A contract that is reported as verified is settled. *)
LEMMA SuccessKeeps ==
    ASSUME LoopOK(loop), NoneSkipped(loop), loop.pc \in {"attempt", "poll"},
           NEW verified, Truthful(loop, verified),
           ~Current.deployed \/ Current.id \in verified
    PROVE  LoopOK(Success) /\ NoneSkipped(Success) /\ Truthful(Success, verified)
<1>1. PICK id : id = Current.id
  OBVIOUS
<1>2. PICK l : l = [Tried EXCEPT !.succeeded = loop.succeeded \cup {id}]
  OBVIOUS
<1>3. /\ Tried \in LoopType
      /\ Tried.caller = loop.caller /\ Tried.contracts = loop.contracts
      /\ Tried.k = loop.k /\ Tried.succeeded = loop.succeeded
      /\ loop.k \in 1 .. Len(loop.contracts)
  BY TriedEffect
<1>4. id \in Nat \X Nat /\ id = loop.contracts[loop.k].id
  <2>1. loop.contracts \in Seq(Checked)
    BY DEF LoopOK, LoopType
  <2>2. loop.contracts[loop.k] \in Checked
    BY <1>3, <2>1
  <2> QED
    BY <1>1, <2>2 DEF Current, Checked
<1>5. /\ l \in LoopType
      /\ l.caller = loop.caller /\ l.contracts = loop.contracts /\ l.k = loop.k
      /\ l.tries = Tried.tries /\ l.succeeded = loop.succeeded \cup {id}
  BY <1>2, <1>3, <1>4 DEF LoopType
<1>6. Success = NextContract(l)
  BY <1>1, <1>2, <1>3 DEF Success
<1>7. Settled(l, loop.k)
  BY <1>4, <1>5 DEF Settled
<1>8. LoopOK(Success) /\ NoneSkipped(Success)
  BY <1>5, <1>6, <1>7, GoingOnKeeps
<1>9. Success.contracts = loop.contracts /\ Success.succeeded = loop.succeeded \cup {id}
  BY <1>3, <1>5, <1>6, NextContractEffect
<1>10. Truthful(Success, verified)
  <2>1. ASSUME NEW j \in 1 .. Len(loop.contracts), loop.contracts[j].id = id
        PROVE  ~loop.contracts[j].deployed \/ loop.contracts[j].id \in verified
    <3>1. j = loop.k
      BY <1>3, <1>4, <2>1 DEF LoopOK
    <3> QED
      BY <1>4, <3>1 DEF Current
  <2> QED
    BY <1>9, <2>1 DEF Truthful
<1> QED
  BY <1>8, <1>10

(* A failed attempt leads to another one, to the next contract if it was   *)
(* the last one, or to the end of the platform's loop.                     *)
LEMMA FailureKeeps ==
    ASSUME LoopOK(loop), NoneSkipped(loop), loop.pc \in {"attempt", "poll"},
           NEW verified, Truthful(loop, verified)
    PROVE  LoopOK(Failure) /\ NoneSkipped(Failure) /\ Truthful(Failure, verified)
<1>1. /\ Tried \in LoopType
      /\ Tried.caller = loop.caller /\ Tried.contracts = loop.contracts
      /\ Tried.k = loop.k /\ Tried.pc = loop.pc
      /\ Tried.succeeded = loop.succeeded
      /\ Len(Tried.tries) = Len(loop.contracts)
      /\ Tried.tries[loop.k] = loop.tries[loop.k] + 1
      /\ Tried.tries[loop.k] <= maxAttempts
      /\ \A j \in 1 .. Len(loop.contracts) : j # loop.k => Tried.tries[j] = loop.tries[j]
      /\ loop.k \in 1 .. Len(loop.contracts) /\ loop.tries[loop.k] \in Nat
      /\ Len(loop.contracts) \in Nat
  BY TriedEffect
<1>2. ASSUME Settled(Tried, loop.k)
      PROVE  /\ LoopOK(NextContract(Tried)) /\ NoneSkipped(NextContract(Tried))
             /\ Truthful(NextContract(Tried), verified)
  <2>1. LoopOK(NextContract(Tried)) /\ NoneSkipped(NextContract(Tried))
    BY <1>1, <1>2, GoingOnKeeps
  <2>2. /\ NextContract(Tried).contracts = loop.contracts
        /\ NextContract(Tried).succeeded = loop.succeeded
    BY <1>1, NextContractEffect
  <2> QED
    BY <2>1, <2>2 DEF Truthful
<1>3. CASE loop.caller = "verifyDeploymentWithRetries" /\ Tried.tries[loop.k] < maxAttempts
  <2>1. Failure = [Tried EXCEPT !.pc = "attempt"]
    BY <1>3 DEF Failure
  <2>2. /\ Failure \in LoopType
        /\ Failure.caller = loop.caller /\ Failure.contracts = loop.contracts
        /\ Failure.k = loop.k /\ Failure.pc = "attempt" /\ Failure.tries = Tried.tries
        /\ Failure.succeeded = loop.succeeded
    BY <1>1, <2>1 DEF LoopType
  <2>3. LoopOK(Failure) /\ Truthful(Failure, verified)
    BY <1>1, <2>2 DEF LoopOK, Truthful
  <2>4. ASSUME NEW j \in 1 .. loop.k - 1 PROVE Settled(Failure, j)
    <3>1. Settled(loop, j) /\ Tried.tries[j] = loop.tries[j]
      BY <1>1 DEF NoneSkipped
    <3> QED
      BY <2>2, <3>1 DEF Settled
  <2>5. ASSUME NEW j \in loop.k .. Len(loop.contracts) PROVE Failure.tries[j] < maxAttempts
    BY <1>1, <1>3, <2>2 DEF NoneSkipped
  <2> QED
    BY <2>2, <2>3, <2>4, <2>5 DEF NoneSkipped
<1>4. CASE loop.caller = "verifyDeploymentWithRetries" /\ ~(Tried.tries[loop.k] < maxAttempts)
  <2>1. Failure = NextContract(Tried)
    BY <1>4 DEF Failure
  <2>2. Tried.tries[loop.k] = maxAttempts
    BY <1>1, <1>4, VerificationAssumption
  <2>3. Settled(Tried, loop.k)
    BY <1>1, <1>4, <2>2 DEF Settled
  <2> QED
    BY <1>2, <2>1, <2>3
<1>5. CASE loop.caller = "verifySphinxConfig"
  <2>1. Failure = [Tried EXCEPT !.pc = "threw"]
    BY <1>5 DEF Failure
  <2>2. /\ Failure \in LoopType
        /\ Failure.caller = loop.caller /\ Failure.contracts = loop.contracts
        /\ Failure.k = loop.k /\ Failure.pc = "threw" /\ Failure.tries = Tried.tries
        /\ Failure.succeeded = loop.succeeded
    BY <1>1, <2>1 DEF LoopType
  <2> QED
    BY <1>1, <2>2 DEF LoopOK, NoneSkipped, Truthful
<1>6. CASE loop.caller = "verifySphinxSystem"
  <2>1. Failure = NextContract(Tried)
    BY <1>6 DEF Failure
  <2>2. Settled(Tried, loop.k)
    BY <1>1, <1>6 DEF Settled
  <2> QED
    BY <1>2, <2>1, <2>2
<1>7. loop.caller \in Callers
  BY DEF LoopOK, LoopType
<1> QED
  BY <1>3, <1>4, <1>5, <1>6, <1>7 DEF Callers


-----------------------------------------------------------------------------
(* Deployments and commands *)

Deployment ==
    [actions : Seq(Seq(Names)), mode : ExecutionMode, executed : Nat, input : Inputs,
     failed : BOOLEAN, taken : BOOLEAN]

DeploymentsOK == deployments \in Seq(Deployment)

CommandPhases == {"idle", "read", "make", "write", "recorded", "verify"}

(* `sphinx deploy` runs for the latest deployment. *)
CommandOK ==
    /\ command = [pc |-> command.pc, mode |-> command.mode, root |-> command.root,
                  record |-> command.record, todo |-> command.todo]
    /\ command.pc \in CommandPhases /\ command.mode \in ExecutionMode
    /\ command.pc = "idle" => command = NoCommand
    /\ command.mode # "Platform" =>
          command.root = Len(deployments) /\ command.root \in DOMAIN deployments

(* What is deployed is a deployment; the command that deployed records it. *)
LEMMA ExecuteDeploymentKeeps ==
    ASSUME DeploymentsOK, CommandOK,
           NEW mode \in ExecutionMode, NEW script \in Scripts,
           ExecuteDeployment(mode, script)
    PROVE  /\ DeploymentsOK' /\ CommandOK'
           /\ command.pc = "idle"
           /\ Len(deployments') = Len(deployments) + 1
           /\ \A root \in DOMAIN deployments :
                 root \in DOMAIN deployments' /\ deployments'[root] = deployments[root]
           /\ command' = IF mode # "Platform"
                         THEN [NoCommand EXCEPT !.pc = "read", !.mode = mode,
                                                !.root = Len(deployments')]
                         ELSE NoCommand
<1>1. PICK executed \in 0 .. Len(script), failed \in BOOLEAN, taken \in BOOLEAN,
           input \in Inputs :
        deployments' = Append(deployments,
           [actions |-> script, mode |-> mode, executed |-> executed,
            input |-> input, failed |-> failed, taken |-> taken])
  BY DEF ExecuteDeployment
<1>2. PICK d : d = [actions |-> script, mode |-> mode, executed |-> executed,
                    input |-> input, failed |-> failed, taken |-> taken]
  OBVIOUS
<1>3. d \in Deployment
  <2>1. script \in Seq(Seq(Names))
    BY ArtifactsAssumption
  <2>2. executed \in Nat
    OBVIOUS
  <2> QED
    BY <1>2, <2>1, <2>2 DEF Deployment
<1>4. deployments' = Append(deployments, d)
  BY <1>1, <1>2
<1>5. /\ deployments' \in Seq(Deployment)
      /\ Len(deployments') = Len(deployments) + 1
      /\ Len(deployments') \in DOMAIN deployments'
      /\ \A root \in DOMAIN deployments :
            root \in DOMAIN deployments' /\ deployments'[root] = deployments[root]
  BY <1>3, <1>4 DEF DeploymentsOK
<1>6. PICK n : n = Len(deployments')
  OBVIOUS
<1>7. command' = IF mode # "Platform"
                 THEN [NoCommand EXCEPT !.pc = "read", !.mode = mode, !.root = n]
                 ELSE NoCommand
  BY <1>6 DEF ExecuteDeployment
<1>8. CommandOK'
  <2>1. CASE mode # "Platform"
    BY <1>5, <1>6, <1>7, <2>1 DEF CommandOK, NoCommand, CommandPhases
  <2>2. CASE mode = "Platform"
    BY <1>7, <2>2 DEF CommandOK, NoCommand, CommandPhases, ExecutionMode
  <2> QED
    BY <2>1, <2>2
<1> QED
  BY <1>5, <1>6, <1>7, <1>8 DEF DeploymentsOK, ExecuteDeployment

(* Deployments stay, and every step of a command leaves it a command. *)
LEMMA CommandStep ==
    ASSUME DeploymentsOK, CommandOK, [Next]_vars
    PROVE  DeploymentsOK' /\ CommandOK'
<1> USE DEF DeploymentsOK
<1>1. CASE UNCHANGED <<deployments, command>>
  BY <1>1 DEF CommandOK
<1>2. ASSUME NEW mode \in ExecutionMode, NEW script \in Scripts,
             ExecuteDeployment(mode, script)
      PROVE  DeploymentsOK' /\ CommandOK'
  BY <1>2, ExecuteDeploymentKeeps
<1>3. CASE UNCHANGED deployments /\ command' = NoCommand
  BY <1>3 DEF CommandOK, NoCommand, CommandPhases, ExecutionMode
<1>4. ASSUME UNCHANGED deployments, command.pc # "idle",
             NEW pc \in CommandPhases \ {"idle"}, NEW record, NEW todo,
             command' = [command EXCEPT !.pc = pc, !.record = record, !.todo = todo]
      PROVE  DeploymentsOK' /\ CommandOK'
  BY <1>4 DEF CommandOK
<1>5. CASE readDeploymentArtifactsForNetwork
  <2>1. CASE command' = NoCommand
    BY <1>3, <1>5, <2>1 DEF readDeploymentArtifactsForNetwork
  <2>2. PICK files : files = disk[Directory]
    OBVIOUS
  <2>3. CASE command' = [command EXCEPT !.pc = "make", !.record = files]
    <3>1. command' = [command EXCEPT !.pc = "make", !.record = files, !.todo = command.todo]
      BY <2>3 DEF CommandOK
    <3> QED
      BY <1>4, <1>5, <3>1 DEF readDeploymentArtifactsForNetwork, CommandPhases
  <2> QED
    BY <1>5, <2>1, <2>2, <2>3 DEF readDeploymentArtifactsForNetwork
<1>6. CASE MakeArtifacts
  <2>1. PICK record, todo :
          command' = [command EXCEPT !.pc = "write", !.record = record, !.todo = todo]
    BY <1>6 DEF MakeArtifacts
  <2>2. UNCHANGED deployments /\ command.pc = "make"
    BY <1>6 DEF MakeArtifacts
  <2> QED
    BY <1>4, <2>1, <2>2 DEF CommandPhases
<1>7. CASE fetchRemoteArtifacts
  <2>1. PICK record, todo :
          command' = [NoCommand EXCEPT !.pc = "write", !.record = record, !.todo = todo]
    BY <1>7 DEF fetchRemoteArtifacts
  <2> QED
    BY <1>7, <2>1 DEF fetchRemoteArtifacts, CommandOK, NoCommand, CommandPhases, ExecutionMode
<1>8. CASE writeDeploymentArtifacts
  <2>1. PICK todo : todo = Tail(command.todo)
    OBVIOUS
  <2>2. PICK pc \in {"write", "recorded"} :
          command' = [command EXCEPT !.todo = todo, !.pc = pc]
    BY <1>8, <2>1 DEF writeDeploymentArtifacts
  <2>3. command' = [command EXCEPT !.pc = pc, !.record = command.record, !.todo = todo]
    BY <2>2 DEF CommandOK
  <2>4. UNCHANGED deployments /\ command.pc # "idle" /\ pc \in CommandPhases \ {"idle"}
    BY <1>8 DEF writeDeploymentArtifacts, CommandPhases
  <2> QED
    BY <1>4, <2>3, <2>4
<1>9. CASE VerifyDeployment
  <2>1. command' = [command EXCEPT !.pc = "verify", !.record = command.record,
                                   !.todo = command.todo]
    BY <1>9 DEF VerifyDeployment, CommandOK
  <2>2. UNCHANGED deployments /\ command.pc # "idle" /\ "verify" \in CommandPhases \ {"idle"}
    BY <1>9 DEF VerifyDeployment, CommandPhases
  <2> QED
    BY <1>4, <2>1, <2>2
<1>10. ASSUME NEW root \in DOMAIN deployments,
              WebsiteRecords(root) \/ VerifyOnPlatform(root)
       PROVE  DeploymentsOK' /\ CommandOK'
  BY <1>1, <1>10 DEF WebsiteRecords, VerifyOnPlatform, artifactVars
<1>11. ASSUME NEW directory, NEW kind, NEW name, RemoveTorn(directory, kind, name)
       PROVE  DeploymentsOK' /\ CommandOK'
  BY <1>1, <1>11 DEF RemoveTorn
<1>12. CASE Exit
  BY <1>3, <1>12 DEF Exit
<1>13. CASE EndCommand
  BY <1>3, <1>13 DEF EndCommand
<1>14. CASE EndVerification
  BY <1>1, <1>3, <1>14 DEF EndVerification
<1>15. CASE VerifySystem
  BY <1>1, <1>15 DEF VerifySystem, artifactVars
<1>16. CASE UNCHANGED artifactVars
  BY <1>1, <1>16 DEF artifactVars
<1>17. CASE UNCHANGED vars
  BY <1>1, <1>17 DEF vars, artifactVars
<1> QED
  BY <1>2, <1>5, <1>6, <1>7, <1>8, <1>9, <1>10, <1>11, <1>12, <1>13, <1>14, <1>15,
     <1>16, <1>17 DEF Next

-----------------------------------------------------------------------------
(* Verification *)

(* The contracts of a deployment, each with the place of its address. *)
Contract(d) ==
    UNION {{[action |-> i, address |-> <<i, k>>, name |-> d.actions[i][k]] :
               k \in DOMAIN d.actions[i]} : i \in DOMAIN d.actions}

(* What a contract of a deployment is. *)
LEMMA ContractFacts ==
    ASSUME NEW d \in Deployment, NEW c \in Contract(d)
    PROVE  /\ c = [action |-> c.address[1], address |-> c.address,
                   name |-> d.actions[c.address[1]][c.address[2]]]
           /\ c.action = c.address[1] /\ c.name = d.actions[c.address[1]][c.address[2]]
           /\ c.address \in Nat \X Nat /\ c.name \in Names
           /\ c.action \in 1 .. Len(d.actions) /\ Len(d.actions) \in Nat
<1>1. PICK i \in DOMAIN d.actions : \E k \in DOMAIN d.actions[i] :
        c = [action |-> i, address |-> <<i, k>>, name |-> d.actions[i][k]]
  BY DEF Contract
<1>2. PICK k \in DOMAIN d.actions[i] :
        c = [action |-> i, address |-> <<i, k>>, name |-> d.actions[i][k]]
  BY <1>1
<1>3. /\ c.address = <<i, k>> /\ c.address[1] = i /\ c.address[2] = k
      /\ c.action = i /\ c.name = d.actions[i][k]
  BY <1>2
<1>4. d.actions \in Seq(Seq(Names))
  BY DEF Deployment
<1>5. d.actions[i] \in Seq(Names) /\ i \in 1 .. Len(d.actions) /\ Len(d.actions) \in Nat
  BY <1>4
<1>6. k \in Nat /\ i \in Nat /\ d.actions[i][k] \in Names
  BY <1>5
<1> QED
  BY <1>2, <1>3, <1>5, <1>6

AddressBefore(a, b) == a[1] < b[1] \/ (a[1] = b[1] /\ a[2] < b[2])

ContractOrder(d) ==
    {e \in Contract(d) \X Contract(d) : AddressBefore(e[1].address, e[2].address)}

(* The contracts of a deployment are in the order of their addresses.      *)
LEMMA ContractsInOrder ==
    ASSUME NEW d \in Deployment
    PROVE  Contracts(d) \in Seq(Contract(d)) /\ InOrder(Contracts(d), ContractOrder(d))
<1> DEFINE of(i) == [k \in DOMAIN d.actions[i] |->
                        [action |-> i, address |-> <<i, k>>, name |-> d.actions[i][k]]]
           seqs == [i \in DOMAIN d.actions |-> of(i)]
<1>1. d.actions \in Seq(Seq(Names))
  BY DEF Deployment
<1>2. ASSUME NEW i \in DOMAIN d.actions
      PROVE  /\ DOMAIN seqs[i] = DOMAIN d.actions[i] /\ seqs[i] \in Seq(Contract(d))
             /\ \A k \in DOMAIN seqs[i] : seqs[i][k].address = <<i, k>>
  <2>1. d.actions[i] \in Seq(Names)
    BY <1>1
  <2>2. ASSUME NEW k \in DOMAIN d.actions[i]
        PROVE  [action |-> i, address |-> <<i, k>>, name |-> d.actions[i][k]] \in Contract(d)
    BY DEF Contract
  <2>3. DOMAIN d.actions[i] = 1 .. Len(d.actions[i]) /\ Len(d.actions[i]) \in Nat
    BY <2>1
  <2>4. of(i) \in Seq(Contract(d))
    BY <2>2, <2>3
  <2> QED
    BY <2>4
<1>3. DOMAIN seqs = DOMAIN d.actions /\ Contracts(d) = FlattenSeq(seqs)
  BY DEF Contracts
<1> HIDE DEF seqs
<1>4. seqs \in Seq(Seq(Contract(d)))
  <2>1. DOMAIN d.actions = 1 .. Len(d.actions) /\ Len(d.actions) \in Nat
    BY <1>1
  <2>2. seqs = [i \in 1 .. Len(d.actions) |-> seqs[i]]
    BY <1>3, <2>1 DEF seqs
  <2> QED
    BY <1>2, <1>3, <2>1, <2>2
<1>5. ASSUME NEW i \in DOMAIN seqs, NEW j \in DOMAIN seqs,
             NEW a \in DOMAIN seqs[i], NEW b \in DOMAIN seqs[j], i < j \/ (i = j /\ a < b)
      PROVE  <<seqs[i][a], seqs[j][b]>> \in ContractOrder(d)
  <2>1. /\ seqs[i] \in Seq(Contract(d)) /\ seqs[j] \in Seq(Contract(d))
        /\ seqs[i][a].address = <<i, a>> /\ seqs[j][b].address = <<j, b>>
    BY <1>2, <1>3
  <2>2. seqs[i][a] \in Contract(d) /\ seqs[j][b] \in Contract(d)
    BY <2>1
  <2>3. AddressBefore(<<i, a>>, <<j, b>>)
    BY <1>5 DEF AddressBefore
  <2> QED
    BY <2>1, <2>2, <2>3 DEF ContractOrder
<1> QED
  BY <1>3, <1>4, <1>5, FlattenInOrder, FlattenType

LEMMA ToVerifyType ==
    ASSUME DeploymentsOK, NEW root \in DOMAIN deployments
    PROVE  /\ ToVerify(root) \in Seq(Checked)
           /\ \A i, j \in DOMAIN ToVerify(root) :
                 ToVerify(root)[i].id = ToVerify(root)[j].id => i = j
<1> DEFINE d == deployments[root]
           contracts == Contracts(d)
<1>1. d \in Deployment /\ root \in Nat
  BY DEF DeploymentsOK
<1>2. contracts \in Seq(Contract(d))
  BY <1>1, ContractsInOrder
<1>3. DOMAIN contracts = 1 .. Len(contracts) /\ Len(contracts) \in Nat
  BY <1>2
<1>4. ASSUME NEW k \in DOMAIN contracts
      PROVE  [id |-> <<root, k>>, deployed |-> HasCode(d, contracts[k])] \in Checked
  <2>1. k \in Nat
    BY <1>3
  <2>2. HasCode(d, contracts[k]) \in BOOLEAN
    BY Zenon DEF HasCode
  <2>3. PICK has \in BOOLEAN : has = HasCode(d, contracts[k])
    BY <2>2
  <2>4. [id |-> <<root, k>>, deployed |-> has] \in Checked
    BY <1>1, <2>1 DEF Checked
  <2> QED
    BY <2>3, <2>4
<1>5. ToVerify(root) = [k \in DOMAIN contracts |->
                           [id |-> <<root, k>>, deployed |-> HasCode(d, contracts[k])]]
  BY DEF ToVerify
<1> HIDE DEF contracts, d
<1> DEFINE checked(k) == [id |-> <<root, k>>, deployed |-> HasCode(d, contracts[k])]
<1>6. ToVerify(root) = [k \in 1 .. Len(contracts) |-> checked(k)]
  BY <1>3, <1>5
<1>7. \A k : checked(k).id = <<root, k>>
  OBVIOUS
<1>9. \A k \in 1 .. Len(contracts) : checked(k) \in Checked
  BY <1>3, <1>4
<1> HIDE DEF checked
<1>8. ASSUME NEW i \in DOMAIN ToVerify(root), NEW j \in DOMAIN ToVerify(root),
             ToVerify(root)[i].id = ToVerify(root)[j].id
      PROVE  i = j
  <2>1. <<root, i>> = <<root, j>>
    BY <1>3, <1>6, <1>7, <1>8
  <2> QED
    BY <2>1
<1> QED
  BY <1>3, <1>6, <1>8, <1>9

(* A loop starts with the first contract and no attempt. *)
LEMMA StartLoopKeeps ==
    ASSUME NEW caller \in Callers, NEW contracts \in Seq(Checked),
           \A i, j \in DOMAIN contracts : contracts[i].id = contracts[j].id => i = j,
           StartLoop(caller, contracts), NEW verified
    PROVE  LoopOK(loop)' /\ NoneSkipped(loop)' /\ Truthful(loop', verified)
<1>1. PICK tries : tries = [k \in DOMAIN contracts |-> 0]
  OBVIOUS
<1>2. DOMAIN contracts = 1 .. Len(contracts) /\ Len(contracts) \in Nat
  OBVIOUS
<1>3. tries \in Seq(Nat) /\ Len(tries) = Len(contracts)
      /\ \A k \in 1 .. Len(contracts) : tries[k] = 0
  BY <1>1, <1>2
<1>4. PICK pc : pc = IF contracts = <<>> THEN "done" ELSE "attempt"
  OBVIOUS
<1>5. loop' = [pc |-> pc, caller |-> caller, contracts |-> contracts, k |-> 1,
               tries |-> tries, succeeded |-> {}]
  BY <1>1, <1>4 DEF StartLoop, NoLoop
<1>6. loop' \in LoopType
  BY <1>3, <1>4, <1>5 DEF LoopType
<1>7. /\ pc = "attempt" => Len(contracts) > 0
      /\ pc = "done" => Len(contracts) = 0
      /\ pc \in {"attempt", "done"}
  BY <1>4
<1>8. LoopOK(loop)'
  BY SMTT(20), <1>2, <1>3, <1>5, <1>6, <1>7 DEF LoopOK
<1>9. NoneSkipped(loop)'
  BY <1>2, <1>3, <1>5, <1>7, VerificationAssumption DEF NoneSkipped
<1> QED
  BY <1>5, <1>8, <1>9 DEF Truthful

(* Every step keeps the loop in order and its results true. *)
LEMMA VerificationStep ==
    ASSUME DeploymentsOK, CommandOK, VerificationInv, [Next]_vars
    PROVE  VerificationInv'
<1> USE DEF VerificationInv
<1> DEFINE Answers == [submitted : SUBSET (Nat \X Nat), verified : SUBSET (Nat \X Nat)]
<1>1. CASE UNCHANGED verificationVars
  BY <1>1 DEF verificationVars
<1>2. ASSUME NEW caller \in Callers, NEW contracts \in Seq(Checked),
             \A i, j \in DOMAIN contracts : contracts[i].id = contracts[j].id => i = j,
             StartLoop(caller, contracts), UNCHANGED explorer
      PROVE  VerificationInv'
  BY <1>2, StartLoopKeeps
<1>3. ASSUME loop.pc \in {"attempt", "poll"}, explorer' \in Answers,
             explorer.verified \subseteq explorer'.verified,
             \/ loop' = Failure
             \/ loop' = Success /\ (~Current.deployed \/ Current.id \in explorer.verified)
      PROVE  VerificationInv'
  <2>1. LoopOK(loop)' /\ NoneSkipped(loop)' /\ Truthful(loop', explorer.verified)
    BY <1>3, SuccessKeeps, FailureKeeps
  <2> QED
    BY <1>3, <2>1 DEF Truthful
<1>4. loop.pc \in {"attempt", "poll"} => Current \in Checked
  BY DEF LoopOK, LoopType, Current
<1>5. CASE SkipContract
  BY <1>3, <1>5 DEF SkipContract
<1>6. CASE Submit
  <2>1. PICK id : id = Current.id
    OBVIOUS
  <2>2. id \in Nat \X Nat
    BY <1>4, <1>6, <2>1 DEF Submit, Checked
  <2>3. PICK submitted : submitted = explorer.submitted \cup {id}
    OBVIOUS
  <2>4. [explorer EXCEPT !.submitted = submitted] \in Answers
        /\ [explorer EXCEPT !.submitted = submitted].verified = explorer.verified
    BY <2>2, <2>3
  <2>5. explorer' = explorer \/ explorer' = [explorer EXCEPT !.submitted = submitted]
    BY <1>6, <2>1, <2>3 DEF Submit
  <2>6. explorer' \in Answers /\ explorer'.verified = explorer.verified
    BY <2>4, <2>5
  <2>7. CASE loop' = [loop EXCEPT !.pc = "poll"]
    <3>1. loop.pc = "attempt" /\ Current.deployed
      BY <1>6 DEF Submit
    <3>2. /\ loop' \in LoopType /\ loop'.pc = "poll"
          /\ loop'.caller = loop.caller /\ loop'.contracts = loop.contracts
          /\ loop'.k = loop.k /\ loop'.tries = loop.tries
          /\ loop'.succeeded = loop.succeeded
      BY <2>7 DEF LoopOK, LoopType
    <3>3. LoopOK(loop)'
      BY <3>1, <3>2 DEF LoopOK, Current
    <3>4. NoneSkipped(loop)'
      BY <3>1, <3>2 DEF NoneSkipped, Settled
    <3> QED
      BY <2>6, <3>2, <3>3, <3>4 DEF Truthful
  <2>8. CASE loop' = Success /\ Current.id \in explorer.verified
    BY <1>3, <1>6, <2>6, <2>8 DEF Submit
  <2>9. CASE loop' = Failure
    BY <1>3, <1>6, <2>6, <2>9 DEF Submit
  <2> QED
    BY <1>6, <2>7, <2>8, <2>9 DEF Submit, handleAlreadyVerifiedResponse
<1>7. CASE Poll
  <2>1. CASE loop' = Success /\ Current.id \in explorer.verified
    BY <1>3, <1>7, <2>1 DEF Poll
  <2>2. CASE loop' = Failure
    BY <1>3, <1>7, <2>2 DEF Poll
  <2>3. CASE loop' = [Tried EXCEPT !.pc = IF loop.caller = "verifySphinxSystem"
                                          THEN "done" ELSE "threw"]
    <3>1. PICK pc : pc = IF loop.caller = "verifySphinxSystem" THEN "done" ELSE "threw"
      OBVIOUS
    <3>2. loop.pc \in {"attempt", "poll"}
      BY <1>7 DEF Poll
    <3>3. /\ Tried \in LoopType
          /\ Tried.caller = loop.caller /\ Tried.contracts = loop.contracts
          /\ Tried.k = loop.k /\ Tried.succeeded = loop.succeeded
          /\ Len(Tried.tries) = Len(loop.contracts)
      BY <3>2, TriedEffect
    <3>4. /\ loop' \in LoopType /\ loop'.pc = pc
          /\ loop'.caller = loop.caller /\ loop'.contracts = loop.contracts
          /\ loop'.k = loop.k /\ loop'.succeeded = loop.succeeded
          /\ loop'.tries = Tried.tries
      BY <2>3, <3>1, <3>3 DEF LoopType
    <3>5. LoopOK(loop)'
      BY <3>1, <3>3, <3>4 DEF LoopOK
    <3>6. NoneSkipped(loop)'
      BY <3>1, <3>4 DEF NoneSkipped, Settled
    <3> QED
      BY <1>7, <3>4, <3>5, <3>6 DEF Poll, Truthful
  <2> QED
    BY <1>7, <2>1, <2>2, <2>3 DEF Poll, handleAlreadyVerifiedResponse
<1>8. ASSUME NEW k \in DOMAIN loop.contracts,
             Verifies(loop.contracts[k].id) \/ Refuses(loop.contracts[k].id)
      PROVE  VerificationInv'
  <2>1. PICK id : id = loop.contracts[k].id
    OBVIOUS
  <2>2. id \in Nat \X Nat
    <3>1. loop.contracts \in Seq(Checked)
      BY DEF LoopOK, LoopType
    <3>2. loop.contracts[k] \in Checked
      BY <3>1
    <3> QED
      BY <2>1, <3>2 DEF Checked
  <2>3. PICK verified, submitted :
          verified = explorer.verified \cup {id} /\ submitted = explorer.submitted \ {id}
    OBVIOUS
  <2>4. explorer.submitted \subseteq Nat \X Nat /\ explorer.verified \subseteq Nat \X Nat
    OBVIOUS
  <2>5. /\ submitted \in SUBSET (Nat \X Nat) /\ verified \in SUBSET (Nat \X Nat)
        /\ explorer.verified \subseteq verified
    BY <2>2, <2>3, <2>4
  <2>6. \/ explorer' = [explorer EXCEPT !.verified = verified, !.submitted = submitted]
        \/ explorer' = [explorer EXCEPT !.submitted = submitted]
    BY <1>8, <2>1, <2>3 DEF Verifies, Refuses
  <2>7. explorer' \in Answers /\ explorer.verified \subseteq explorer'.verified
    BY <2>5, <2>6
  <2>8. UNCHANGED loop
    BY <1>8 DEF Verifies, Refuses
  <2> QED
    BY <2>7, <2>8 DEF Truthful
<1>9. CASE VerifyDeployment
  <2>1. command.root \in DOMAIN deployments
    BY <1>9 DEF VerifyDeployment, CommandOK
  <2>2. "verifyDeploymentWithRetries" \in Callers
    BY DEF Callers
  <2> QED
    BY <1>2, <1>9, <2>1, <2>2, ToVerifyType DEF VerifyDeployment
<1>10. ASSUME NEW root \in DOMAIN deployments, VerifyOnPlatform(root)
       PROVE  VerificationInv'
  <2>1. "verifySphinxConfig" \in Callers
    BY DEF Callers
  <2> QED
    BY <1>2, <1>10, <2>1, ToVerifyType DEF VerifyOnPlatform
<1>11. CASE VerifySystem
  <2> DEFINE contracts == <<[id |-> <<0, 1>>, deployed |-> FALSE],
                            [id |-> <<0, 2>>, deployed |-> TRUE]>>
  <2>1. "verifySphinxSystem" \in Callers
    BY DEF Callers
  <2>2. contracts \in Seq(Checked)
    BY DEF Checked
  <2>3. \A i, j \in DOMAIN contracts : contracts[i].id = contracts[j].id => i = j
    OBVIOUS
  <2> QED
    BY <1>2, <1>11, <2>1, <2>2, <2>3 DEF VerifySystem
<1>12. CASE EndVerification
  <2>1. explorer' \in Answers
    BY <1>12 DEF EndVerification, NothingKnown
  <2>2. loop' = NoLoop
    BY <1>12 DEF EndVerification
  <2> QED
    BY <2>1, <2>2 DEF NoLoop, LoopOK, LoopType, Callers, NoneSkipped, Truthful
<1>13. CASE UNCHANGED vars
  BY <1>1, <1>13 DEF vars
<1>14. CASE EndCommand
  BY <1>1, <1>14 DEF EndCommand
<1>15. CASE NoLoopRuns
  BY <1>1, <1>15 DEF NoLoopRuns
<1> QED
  BY <1>5, <1>6, <1>7, <1>8, <1>9, <1>10, <1>11, <1>12, <1>13, <1>14, <1>15 DEF Next

-----------------------------------------------------------------------------
(* Records *)

ReceiptType == [root : Nat, n : Int, succeeded : SUBSET Nat]
Artifact == [root : Nat, address : Nat \X Nat, name : Names, receipt : ReceiptType]

ArtifactOrder == {e \in Artifact \X Artifact : isDeployedEarlier(e[1], e[2])}

(* An artifact in the file `name` tells of what the deployments did. *)
TrueArtifact(ds, name, a) ==
    /\ a \in Artifact /\ a.root \in DOMAIN ds
    /\ a.address[1] <= ds[a.root].executed
    /\ name = a.name \/ name = Numbered(a.name, Last(name.numbers))
    /\ ds[a.root].actions[a.address[1]][a.address[2]] = a.name
    /\ a.receipt.root = a.root /\ a.address[1] \in a.receipt.succeeded

TrueFile(ds, name, file) ==
    /\ file.history \in Seq(Artifact) /\ file.artifact \in Artifact
    /\ \A k \in DOMAIN Known(file) :
          /\ TrueArtifact(ds, name, Known(file)[k])
          /\ k > 1 => isDeployedEarlier(Known(file)[k - 1], Known(file)[k])

TrueFiles(ds, files) ==
    /\ IsFiniteSet(DOMAIN files)
    /\ \A name \in DOMAIN files : files[name].whole => TrueFile(ds, name, files[name])

AllWhole(files) == \A name \in DOMAIN files : files[name].whole

(* The files are of deployments before `root`. *)
Before(files, root) ==
    \A name \in DOMAIN files : files[name].whole =>
       \A a \in ToSet(Known(files[name])) : a.root < root

(* What a file of `old` knows, that of `new` knows. *)
Keeps(old, new) ==
    \A name \in DOMAIN old : old[name].whole =>
        name \in DOMAIN new /\ IsPrefix(Known(old[name]), Known(new[name]))

(* Receipts of the deployment `root`. *)
ReceiptsOf(root, d, receipts) ==
    /\ receipts \in Seq(ReceiptType)
    /\ \A k \in DOMAIN receipts :
          receipts[k].root = root /\ receipts[k].succeeded \subseteq 1 .. d.executed

(* A sequence is a prefix of itself. *)
LEMMA PrefixOfItself ==
    ASSUME NEW T, NEW s \in Seq(T)
    PROVE  IsPrefix(s, s)
<1>1. Len(s) \in Nat
  OBVIOUS
<1> QED
  BY <1>1 DEF IsPrefix

(* A sequence is a prefix of what it is continued to. *)
LEMMA PrefixOfMore ==
    ASSUME NEW T, NEW s \in Seq(T), NEW t \in Seq(T)
    PROVE  IsPrefix(s, s \o t)
<1>1. PICK u : u = s \o t
  OBVIOUS
<1>2. Len(s) \in Nat /\ Len(t) \in Nat /\ Len(u) = Len(s) + Len(t)
      /\ \A i \in 1 .. Len(s) : u[i] = s[i]
  BY <1>1
<1>3. SubSeq(u, 1, Len(s)) = SubSeq(s, 1, Len(s))
  BY <1>2
<1> QED
  BY <1>1, <1>2, <1>3 DEF IsPrefix

(* A sequence that is not empty is all but its last element, and this.     *)
LEMMA FrontAndLast ==
    ASSUME NEW T, NEW s \in Seq(T), s # <<>>
    PROVE  /\ Front(s) \in Seq(T) /\ Last(s) \in T /\ Last(s) \in ToSet(s)
           /\ Append(Front(s), Last(s)) = s
<1>1. Len(s) \in Nat /\ Len(s) > 0 /\ DOMAIN s = 1 .. Len(s)
  OBVIOUS
<1>2. Last(s) = s[Len(s)] /\ Len(s) \in DOMAIN s
  BY <1>1 DEF Last
<1>3. PICK f : f = Front(s)
  OBVIOUS
<1>4. /\ f \in Seq(T) /\ Len(f) = Len(s) - 1
      /\ \A i \in 1 .. Len(s) - 1 : f[i] = s[i]
  BY <1>1, <1>3 DEF Front
<1>5. PICK e \in T : e = s[Len(s)]
  BY <1>2
<1>6. PICK t : t = Append(f, e)
  OBVIOUS
<1>7. /\ t \in Seq(T) /\ Len(t) = Len(s)
      /\ \A i \in 1 .. Len(s) : t[i] = s[i]
  <2>1. t \in Seq(T) /\ Len(t) = Len(f) + 1
        /\ t[Len(f) + 1] = e /\ \A i \in 1 .. Len(f) : t[i] = f[i]
    BY <1>4, <1>6
  <2> QED
    BY <1>1, <1>4, <1>5, <2>1
<1>8. t = s
  BY <1>7
<1> QED
  BY <1>2, <1>3, <1>4, <1>5, <1>6, <1>8 DEF ToSet

(* The receipts of a deployment, and those that a later attempt finds. *)
LEMMA ReceiptsType ==
    ASSUME NEW root \in Nat, NEW d \in Deployment
    PROVE  ReceiptsOf(root, d, Receipts(root, d))
<1> DEFINE n == (Attempted(d) + BatchSize - 1) \div BatchSize + 1
           all == Receipts(root, d)
<1>1. d.executed \in Nat /\ Attempted(d) \in Nat
  BY DEF Deployment, Attempted
<1>2. n \in Nat
  BY <1>1, ArtifactsAssumption
<1>3. ASSUME NEW k \in 1 .. n
      PROVE  /\ Receipt(root, d, k - 1) \in ReceiptType
             /\ Receipt(root, d, k - 1).root = root
             /\ Receipt(root, d, k - 1).succeeded \subseteq 1 .. d.executed
  <2>1. PICK m \in Int : m = k - 1
    BY <1>2
  <2>2. PICK S \in SUBSET (1 .. d.executed) :
          S = {action \in 1 .. d.executed :
                 (m - 1) * BatchSize < action /\ action <= m * BatchSize}
    OBVIOUS
  <2>3. Receipt(root, d, m) = [root |-> root, n |-> m, succeeded |-> S]
    BY <2>2 DEF Receipt
  <2>4. S \in SUBSET Nat
    BY <1>1
  <2>5. Receipt(root, d, m) \in ReceiptType
    <3>1. [root |-> root, n |-> m, succeeded |-> S] \in ReceiptType
      BY <2>4 DEF ReceiptType
    <3> QED
      BY <2>3, <3>1
  <2>6. Receipt(root, d, m).root = root /\ Receipt(root, d, m).succeeded = S
    BY <2>3
  <2>7. S \subseteq 1 .. d.executed
    OBVIOUS
  <2> QED
    BY <2>1, <2>5, <2>6, <2>7
<1>4. all = [k \in 1 .. n |-> Receipt(root, d, k - 1)]
  BY DEF Receipts
<1> HIDE DEF n, all
<1>5. all \in Seq(ReceiptType)
  BY <1>2, <1>3, <1>4
<1>6. \A k \in DOMAIN all : all[k].root = root /\ all[k].succeeded \subseteq 1 .. d.executed
  BY <1>3, <1>4
<1> QED
  BY <1>5, <1>6 DEF ReceiptsOf, all

LEMMA FoundReceipts ==
    ASSUME NEW root, NEW d, NEW receipts, ReceiptsOf(root, d, receipts),
           NEW first \in 1 .. Len(receipts), NEW recent
    PROVE  ReceiptsOf(root, d,
              fetchExecutionTransactionReceipts(SubSeq(receipts, first, Len(receipts)),
                                                receipts, recent))
<1> DEFINE S == ToSet(receipts)
           tracked == SubSeq(receipts, first, Len(receipts))
           found == fetchExecutionTransactionReceipts(tracked, receipts, recent)
<1>1. receipts \in Seq(ReceiptType)
  BY DEF ReceiptsOf
<1>2. receipts \in Seq(S)
  BY <1>1 DEF ToSet
<1>3. tracked \in Seq(S)
  BY <1>2
<1>4. ASSUME NEW U \in SUBSET S PROVE SelectIn(receipts, U) \in Seq(S)
  <2>1. SelectIn(receipts, U) \in Seq(U)
    BY <1>1, SelectInType
  <2> QED
    BY <2>1
<1> DEFINE missing == {r \in S : r.n \in recent /\ r \notin ToSet(tracked)}
           approved == {r \in missing : r.n = 0}
           failed == {r \in missing : r.n # 0 /\ r = Last(receipts) /\ r.succeeded = {}}
           succeeded == {r \in missing : r.succeeded # {}}
<1>5. found = tracked \o SelectIn(receipts, approved) \o SelectIn(receipts, failed)
                      \o SelectIn(receipts, succeeded)
  BY DEF fetchExecutionTransactionReceipts
<1>6. approved \in SUBSET S /\ failed \in SUBSET S /\ succeeded \in SUBSET S
  OBVIOUS
<1> HIDE DEF found, tracked, approved, failed, succeeded
<1>7. found \in Seq(S)
  <2>1. /\ SelectIn(receipts, approved) \in Seq(S) /\ SelectIn(receipts, failed) \in Seq(S)
        /\ SelectIn(receipts, succeeded) \in Seq(S)
    BY <1>4, <1>6
  <2> QED
    BY <1>3, <1>5, <2>1
<1>8. ASSUME NEW r \in S
      PROVE  /\ r \in ReceiptType /\ r.root = root
             /\ r.succeeded \subseteq 1 .. d.executed
  BY <1>8 DEF ToSet, ReceiptsOf
<1> HIDE DEF S
<1>9. \A k \in DOMAIN found : found[k] \in S
  BY <1>7
<1>10. found \in Seq(ReceiptType)
  BY <1>7, <1>8
<1> QED
  BY <1>8, <1>9, <1>10 DEF ReceiptsOf, found, tracked

(* A name and a number can be read off the numbered name.                  *)
LEMMA NumberedFacts ==
    ASSUME NEW name \in Names, NEW n \in Nat
    PROVE  /\ Numbered(name, n) \in Names /\ Last(Numbered(name, n).numbers) = n
           /\ \A other \in Names : \A m \in Nat :
                 Numbered(name, n) = Numbered(other, m) => name = other /\ n = m
<1>1. ASSUME NEW x \in Names, NEW i \in Nat
      PROVE  /\ Numbered(x, i) \in Names
             /\ Numbered(x, i).base = x.base /\ Numbered(x, i).numbers = Append(x.numbers, i)
  <2>1. x.numbers \in Seq(Nat) /\ x = [base |-> x.base, numbers |-> x.numbers]
    BY DEF Names
  <2>2. Append(x.numbers, i) \in Seq(Nat)
    BY <2>1
  <2> QED
    BY <2>1, <2>2 DEF Numbered, Names
<1>2. ASSUME NEW s \in Seq(Nat), NEW t \in Seq(Nat), NEW i \in Nat, NEW j \in Nat,
             Append(s, i) = Append(t, j)
      PROVE  s = t /\ i = j
  <2>1. /\ Len(Append(s, i)) = Len(s) + 1 /\ Len(Append(t, j)) = Len(t) + 1
        /\ Len(s) \in Nat /\ Len(t) \in Nat
    OBVIOUS
  <2>2. Len(s) = Len(t)
    BY <1>2, <2>1
  <2>3. Append(s, i)[Len(s) + 1] = i /\ Append(t, j)[Len(t) + 1] = j
    OBVIOUS
  <2>4. \A k \in 1 .. Len(s) : Append(s, i)[k] = s[k] /\ Append(t, j)[k] = t[k]
    BY <2>2
  <2>5. \A k \in 1 .. Len(s) : s[k] = t[k]
    BY <1>2, <2>4
  <2>6. PICK u, m : u = Append(s, i) /\ u = Append(t, j) /\ m = Len(s) + 1 /\ m = Len(t) + 1
    BY <1>2, <2>2
  <2>7. u[m] = i /\ u[m] = j
    BY <2>3, <2>6
  <2> QED
    BY <2>2, <2>5, <2>7
<1>3. Last(Numbered(name, n).numbers) = n
  <2>1. name.numbers \in Seq(Nat)
    BY DEF Names
  <2>2. /\ Len(Append(name.numbers, n)) = Len(name.numbers) + 1
        /\ Append(name.numbers, n)[Len(name.numbers) + 1] = n
    BY <2>1
  <2> QED
    BY <1>1, <2>2 DEF Last
<1>4. ASSUME NEW other \in Names, NEW m \in Nat, Numbered(name, n) = Numbered(other, m)
      PROVE  name = other /\ n = m
  <2>1. name.base = other.base /\ Append(name.numbers, n) = Append(other.numbers, m)
    <3>1. PICK x : x = Numbered(name, n) /\ x = Numbered(other, m)
      BY <1>4
    <3>2. x.base = name.base /\ x.numbers = Append(name.numbers, n)
      BY <1>1, <3>1
    <3>3. x.base = other.base /\ x.numbers = Append(other.numbers, m)
      BY <1>1, <3>1
    <3> QED
      BY <3>2, <3>3
  <2>2. name.numbers \in Seq(Nat) /\ other.numbers \in Seq(Nat)
    BY DEF Names
  <2>3. name.numbers = other.numbers /\ n = m
    <3>1. PICK s \in Seq(Nat), t \in Seq(Nat) : s = name.numbers /\ t = other.numbers
      BY <2>2
    <3>2. Append(s, n) = Append(t, m)
      BY <2>1, <3>1
    <3>3. s = t /\ n = m
      BY <1>2, <3>2
    <3> QED
      BY <3>1, <3>3
  <2> QED
    BY <2>1, <2>3 DEF Names
<1> QED
  BY <1>1, <1>3, <1>4

(* A contract's file has its name, or its name with a number below its     *)
(* place.                                                                  *)
SameBefore(contracts, k) == {j \in 1 .. k - 1 : contracts[j].name = contracts[k].name}

LEMMA FileNameFacts ==
    ASSUME NEW contracts, NEW k \in Nat \ {0}
    PROVE  /\ IsFiniteSet(SameBefore(contracts, k))
           /\ Cardinality(SameBefore(contracts, k)) \in 0 .. k - 1
           /\ FileName(contracts, k) =
                 IF Cardinality(SameBefore(contracts, k)) = 0 THEN contracts[k].name
                 ELSE Numbered(contracts[k].name, Cardinality(SameBefore(contracts, k)))
<1>1. 1 \in Int /\ k - 1 \in Int /\ k - 1 \in Nat
  OBVIOUS
<1>2. IsFiniteSet(1 .. k - 1) /\ Cardinality(1 .. k - 1) = k - 1
  <2>1. /\ IsFiniteSet(1 .. k - 1)
        /\ Cardinality(1 .. k - 1) = IF 1 > k - 1 THEN 0 ELSE (k - 1) - 1 + 1
    BY <1>1, FS_Interval
  <2> QED
    BY <1>1, <2>1
<1>3. SameBefore(contracts, k) \in SUBSET (1 .. k - 1)
  BY DEF SameBefore
<1>4. /\ IsFiniteSet(SameBefore(contracts, k))
      /\ Cardinality(SameBefore(contracts, k)) <= k - 1
      /\ Cardinality(SameBefore(contracts, k)) \in Nat
  BY <1>2, <1>3, FS_Subset, FS_CardinalityType
<1> QED
  BY <1>1, <1>4 DEF FileName, SameBefore

(* The contracts with code are in the order of their addresses; if every   *)
(* action was executed, they are all.                                      *)
LEMMA WithCodeFacts ==
    ASSUME NEW d \in Deployment
    PROVE  /\ WithCode(d) \in Seq(Contract(d)) /\ InOrder(WithCode(d), ContractOrder(d))
           /\ \A k \in DOMAIN WithCode(d) :
                 WithCode(d)[k] \in ToSet(Contracts(d)) /\ HasCode(d, WithCode(d)[k])
           /\ d.executed = Len(d.actions) => WithCode(d) = Contracts(d)
<1> DEFINE with == {c \in ToSet(Contracts(d)) : HasCode(d, c)}
<1>1. PICK contracts : contracts = Contracts(d)
  OBVIOUS
<1>2. contracts \in Seq(Contract(d)) /\ InOrder(contracts, ContractOrder(d))
  BY <1>1, ContractsInOrder
<1>3. PICK present : present = SelectIn(contracts, with)
  OBVIOUS
<1>4. WithCode(d) = present
  BY <1>1, <1>3 DEF WithCode
<1>5. present \in Seq(with)
  BY <1>2, <1>3, SelectInType
<1>6. InOrder(present, ContractOrder(d))
  BY <1>2, <1>3, SelectInKeepsOrder
<1>7. \A k \in DOMAIN present : present[k] \in with
  BY <1>5
<1>8. with \subseteq Contract(d)
  BY <1>1, <1>2 DEF ToSet
<1>9. present \in Seq(Contract(d))
  <2> HIDE DEF with
  <2> QED
    BY <1>5, <1>8
<1>10. ASSUME d.executed = Len(d.actions) PROVE present = contracts
  <2>1. ASSUME NEW k \in 1 .. Len(contracts) PROVE contracts[k] \in with
    <3>1. PICK c : c = contracts[k]
      OBVIOUS
    <3>2. c \in Contract(d) /\ c \in ToSet(contracts)
      BY <1>2, <3>1 DEF ToSet
    <3>3. c.action <= d.executed
      BY <1>10, <3>2, ContractFacts
    <3> QED
      BY <1>1, <3>1, <3>2, <3>3 DEF HasCode
  <2> HIDE DEF with
  <2>2. /\ Len(present) = Len(contracts)
        /\ \A k \in 1 .. Len(contracts) : present[k] = contracts[k]
    BY <1>2, <1>3, <2>1, SelectAll
  <2> QED
    BY <1>2, <1>9, <2>2
<1> QED
  BY <1>1, <1>4, <1>6, <1>7, <1>9, <1>10

(* The artifacts of a deployment tell what happened, in this order.        *)
LEMMA NewArtifactsAreTrue ==
    ASSUME DeploymentsOK, NEW root \in DOMAIN deployments, NEW receipts,
           ReceiptsOf(root, deployments[root], receipts),
           CanMakeArtifacts(deployments[root], receipts)
    PROVE  LET present == WithCode(deployments[root])
               artifacts == NewArtifacts(root, deployments[root], receipts)
           IN /\ artifacts \in Seq(Artifact) /\ DOMAIN artifacts = DOMAIN present
              /\ InOrder(artifacts, ArtifactOrder)
              /\ \A k \in DOMAIN artifacts :
                    /\ artifacts[k].root = root /\ artifacts[k].address = present[k].address
                    /\ TrueArtifact(deployments, FileName(present, k), artifacts[k])
<1>1. PICK d : d = deployments[root]
  OBVIOUS
<1>2. d \in Deployment /\ root \in Nat
  BY <1>1 DEF DeploymentsOK
<1>3. PICK present : present = WithCode(d)
  OBVIOUS
<1>4. /\ present \in Seq(Contract(d)) /\ InOrder(present, ContractOrder(d))
      /\ \A k \in DOMAIN present : present[k] \in ToSet(Contracts(d)) /\ HasCode(d, present[k])
  BY <1>2, <1>3, WithCodeFacts
<1>5. DOMAIN present = 1 .. Len(present) /\ Len(present) \in Nat
  BY <1>4
<1> DEFINE artifact(k) == [root |-> root, address |-> present[k].address,
                           name |-> present[k].name,
                           receipt |-> ReceiptOf(receipts, present[k])]
<1>6. PICK artifacts : artifacts = NewArtifacts(root, d, receipts)
  OBVIOUS
<1>7. artifacts = [k \in DOMAIN present |-> artifact(k)]
  BY <1>3, <1>6 DEF NewArtifacts
<1>8. ASSUME NEW k \in DOMAIN present
      PROVE  /\ artifact(k) \in Artifact /\ artifact(k).root = root
             /\ artifact(k).address = present[k].address
             /\ TrueArtifact(deployments, FileName(present, k), artifact(k))
  <2>1. PICK c : c = present[k]
    OBVIOUS
  <2>2. c \in Contract(d) /\ c \in ToSet(Contracts(d)) /\ HasCode(d, c)
    BY <1>4, <2>1
  <2>3. PICK r \in ToSet(receipts) : c.action \in r.succeeded
    BY <1>1, <2>2 DEF CanMakeArtifacts
  <2>4. \E j \in DOMAIN receipts : c.action \in receipts[j].succeeded
    BY <2>3 DEF ToSet
  <2>5. PICK j \in DOMAIN receipts :
          ReceiptOf(receipts, c) = receipts[j] /\ c.action \in receipts[j].succeeded
    BY <2>4 DEF ReceiptOf
  <2>6. /\ receipts[j] \in ReceiptType /\ receipts[j].root = root
        /\ receipts[j].succeeded \subseteq 1 .. d.executed
    BY <1>1, <2>5 DEF ReceiptsOf
  <2>7. /\ c.action = c.address[1] /\ c.name = d.actions[c.address[1]][c.address[2]]
        /\ c.address \in Nat \X Nat /\ c.name \in Names
    BY <1>2, <2>2, ContractFacts
  <2>8. PICK a : a = artifact(k)
    OBVIOUS
  <2>9. a = [root |-> root, address |-> c.address, name |-> c.name, receipt |-> receipts[j]]
    BY <2>1, <2>5, <2>8
  <2>10. a \in Artifact
    BY <1>2, <2>6, <2>7, <2>9 DEF Artifact
  <2>11. a.root = root /\ a.address = c.address /\ a.name = c.name /\ a.receipt = receipts[j]
    BY <2>9
  <2>12. c.action <= d.executed
    <3>1. c.action \in 1 .. d.executed
      BY <2>5, <2>6
    <3> QED
      BY <3>1
  <2>13. FileName(present, k) = c.name
         \/ FileName(present, k) = Numbered(c.name, Last(FileName(present, k).numbers))
    <3>1. PICK n : n = Cardinality(SameBefore(present, k))
      OBVIOUS
    <3>2. k \in Nat \ {0}
      BY <1>5
    <3>3. /\ n \in Nat
          /\ FileName(present, k) = IF n = 0 THEN c.name ELSE Numbered(c.name, n)
      BY <2>1, <3>1, <3>2, FileNameFacts
    <3>4. Last(Numbered(c.name, n).numbers) = n
      BY <2>7, <3>3, NumberedFacts
    <3> QED
      BY <3>3, <3>4
  <2>14. TrueArtifact(deployments, FileName(present, k), a)
    BY <1>1, <2>5, <2>6, <2>7, <2>10, <2>11, <2>12, <2>13 DEF TrueArtifact
  <2> QED
    BY <2>1, <2>8, <2>10, <2>11, <2>14
<1> HIDE DEF artifact
<1>9. artifacts \in Seq(Artifact) /\ DOMAIN artifacts = DOMAIN present
      /\ \A k \in DOMAIN present : artifacts[k] = artifact(k)
  BY <1>5, <1>7, <1>8
<1>10. ASSUME NEW p \in DOMAIN artifacts, NEW q \in DOMAIN artifacts, p < q
       PROVE  <<artifacts[p], artifacts[q]>> \in ArtifactOrder
  <2>1. <<present[p], present[q]>> \in ContractOrder(d)
    BY <1>4, <1>9, <1>10 DEF InOrder
  <2>2. AddressBefore(present[p].address, present[q].address)
    BY <2>1 DEF ContractOrder
  <2>3. PICK a, b : a = artifacts[p] /\ b = artifacts[q]
    OBVIOUS
  <2>4. /\ a \in Artifact /\ b \in Artifact /\ a.root = root /\ b.root = root
        /\ a.address = present[p].address /\ b.address = present[q].address
    BY <1>8, <1>9, <2>3
  <2>5. isDeployedEarlier(a, b)
    BY <2>2, <2>4 DEF isDeployedEarlier, AddressBefore
  <2> QED
    BY <2>3, <2>4, <2>5 DEF ArtifactOrder
<1>11. InOrder(artifacts, ArtifactOrder)
  BY <1>10 DEF InOrder
<1> QED
  BY <1>1, <1>3, <1>6, <1>8, <1>9, <1>11

(* What is put on top of a file.                                           *)
LEMMA AddedFacts ==
    ASSUME DeploymentsOK, NEW root \in DOMAIN deployments, NEW receipts,
           ReceiptsOf(root, deployments[root], receipts),
           CanMakeArtifacts(deployments[root], receipts), NEW name
    PROVE  LET present == WithCode(deployments[root])
               artifacts == NewArtifacts(root, deployments[root], receipts)
               added == AddedTo(name, root, deployments[root], receipts)
           IN /\ added \in Seq(Artifact) /\ InOrder(added, ArtifactOrder)
              /\ \A a \in ToSet(added) : TrueArtifact(deployments, name, a) /\ a.root = root
              /\ \A a \in ToSet(added) : \E k \in DOMAIN present :
                    FileName(present, k) = name /\ a = artifacts[k]
              /\ \A k \in DOMAIN present :
                    FileName(present, k) = name => artifacts[k] \in ToSet(added)
              /\ name \in NewFileNames(deployments[root]) => added # <<>>
<1>1. PICK present, artifacts : /\ present = WithCode(deployments[root])
                                /\ artifacts = NewArtifacts(root, deployments[root], receipts)
  OBVIOUS
<1>2. /\ artifacts \in Seq(Artifact) /\ DOMAIN artifacts = DOMAIN present
      /\ InOrder(artifacts, ArtifactOrder)
      /\ \A k \in DOMAIN artifacts :
            /\ artifacts[k].root = root
            /\ TrueArtifact(deployments, FileName(present, k), artifacts[k])
  BY <1>1, NewArtifactsAreTrue
<1>3. PICK S : S = {artifacts[k] : k \in {j \in DOMAIN artifacts : FileName(present, j) = name}}
  OBVIOUS
<1>4. PICK added : added = SelectIn(artifacts, S)
  OBVIOUS
<1>5. AddedTo(name, root, deployments[root], receipts) = added
  BY <1>1, <1>3, <1>4 DEF AddedTo
<1>6. S \subseteq Artifact
  BY <1>2, <1>3
<1>7. added \in Seq(Artifact)
  <2>1. added \in Seq(S)
    BY <1>2, <1>4, SelectInType
  <2> QED
    BY <1>6, <2>1
<1>8. InOrder(added, ArtifactOrder)
  BY <1>2, <1>4, SelectInKeepsOrder
<1>9. ToSet(added) = S
  <2>1. ToSet(added) = ToSet(artifacts) \cap S
    BY <1>2, <1>4, SelectInElements
  <2>2. S \subseteq ToSet(artifacts)
    BY <1>3 DEF ToSet
  <2> QED
    BY <2>1, <2>2
<1>10. ASSUME NEW a \in S
       PROVE  /\ TrueArtifact(deployments, name, a) /\ a.root = root
              /\ \E k \in DOMAIN present : FileName(present, k) = name /\ a = artifacts[k]
  BY <1>2, <1>3
<1>11. ASSUME NEW k \in DOMAIN present, FileName(present, k) = name
       PROVE  artifacts[k] \in S
  BY <1>2, <1>3, <1>11
<1>12. ASSUME name \in NewFileNames(deployments[root]) PROVE added # <<>>
  <2>1. PICK k \in DOMAIN present : FileName(present, k) = name
    BY <1>1, <1>12 DEF NewFileNames
  <2>2. artifacts[k] \in ToSet(added)
    BY <1>9, <1>11, <2>1
  <2> QED
    BY <2>2 DEF ToSet
<1> QED
  BY <1>1, <1>5, <1>7, <1>8, <1>9, <1>10, <1>11, <1>12

Earlier(files, name) == IF name \in DOMAIN files THEN Known(files[name]) ELSE <<>>

(* A file that gets artifacts knows them after those that it knew.         *)
LEMMA FileGrows ==
    ASSUME DeploymentsOK, NEW root \in DOMAIN deployments, NEW receipts,
           ReceiptsOf(root, deployments[root], receipts),
           CanMakeArtifacts(deployments[root], receipts),
           NEW files, TrueFiles(deployments, files), AllWhole(files),
           NEW name \in NewFileNames(deployments[root])
    PROVE  LET d == deployments[root]
               file == makeContractDeploymentArtifacts(root, d, receipts, files)[name]
               added == AddedTo(name, root, d, receipts)
           IN /\ file.whole /\ Known(file) = Earlier(files, name) \o added
              /\ file.history \in Seq(Artifact) /\ file.artifact \in Artifact
              /\ Earlier(files, name) \in Seq(Artifact)
              /\ file.artifact = Last(Earlier(files, name) \o added)
<1>1. PICK d, added : d = deployments[root] /\ added = AddedTo(name, root, d, receipts)
  OBVIOUS
<1>2. added \in Seq(Artifact) /\ added # <<>>
  BY <1>1, AddedFacts
<1>3. PICK earlier : earlier = Earlier(files, name)
  OBVIOUS
<1>4. earlier \in Seq(Artifact)
  <2>1. CASE name \in DOMAIN files
    <3>1. TrueFile(deployments, name, files[name])
      BY <2>1 DEF TrueFiles, AllWhole
    <3>2. files[name].history \in Seq(Artifact) /\ files[name].artifact \in Artifact
      BY <3>1 DEF TrueFile
    <3> QED
      BY <1>3, <2>1, <3>2 DEF Earlier, Known
  <2>2. CASE name \notin DOMAIN files
    BY <1>3, <2>2 DEF Earlier
  <2> QED
    BY <2>1, <2>2
<1>5. PICK known : known = earlier \o added
  OBVIOUS
<1>6. known \in Seq(Artifact) /\ known # <<>>
  <2>1. known \in Seq(Artifact) /\ Len(known) = Len(earlier) + Len(added)
        /\ Len(earlier) \in Nat /\ Len(added) \in Nat /\ Len(added) # 0
    BY <1>2, <1>4, <1>5
  <2> QED
    BY <2>1
<1>7. (IF name \in DOMAIN files THEN NewHistory(files[name]) ELSE <<>>)
         \o AddedTo(name, root, d, receipts) = known
  BY <1>1, <1>3, <1>5 DEF Earlier, NewHistory, Known
<1>8. PICK file : file = makeContractDeploymentArtifacts(root, d, receipts, files)[name]
  OBVIOUS
<1>9. file = [whole |-> TRUE, artifact |-> Last(known), history |-> Front(known)]
  BY <1>1, <1>7, <1>8 DEF makeContractDeploymentArtifacts
<1>10. file.whole /\ file.artifact = Last(known) /\ file.history = Front(known)
  BY <1>9
<1>11. /\ Front(known) \in Seq(Artifact) /\ Last(known) \in Artifact
       /\ Append(Front(known), Last(known)) = known
  BY <1>6, FrontAndLast
<1>12. Known(file) = known
  BY <1>10, <1>11 DEF Known
<1> QED
  BY <1>1, <1>3, <1>4, <1>5, <1>8, <1>10, <1>11, <1>12

(* What it knows then is true and in the order of deployment.              *)
LEMMA GrownFileIsTrue ==
    ASSUME DeploymentsOK, NEW root \in DOMAIN deployments, NEW receipts,
           ReceiptsOf(root, deployments[root], receipts),
           CanMakeArtifacts(deployments[root], receipts),
           NEW files, TrueFiles(deployments, files), AllWhole(files), Before(files, root),
           NEW name \in NewFileNames(deployments[root])
    PROVE  LET new == makeContractDeploymentArtifacts(root, deployments[root], receipts, files)
           IN /\ new[name].whole /\ TrueFile(deployments, name, new[name])
              /\ name \in DOMAIN files => IsPrefix(Known(files[name]), Known(new[name]))
              /\ \A a \in ToSet(Known(new[name])) :
                    a.root = root \/ (name \in DOMAIN files /\ a \in ToSet(Known(files[name])))
<1>1. PICK file, earlier, added, known :
        /\ file = makeContractDeploymentArtifacts(root, deployments[root], receipts, files)[name]
        /\ earlier = Earlier(files, name)
        /\ added = AddedTo(name, root, deployments[root], receipts)
        /\ known = earlier \o added
  OBVIOUS
<1>2. /\ file.whole /\ Known(file) = known /\ earlier \in Seq(Artifact)
      /\ file.history \in Seq(Artifact) /\ file.artifact \in Artifact
  BY <1>1, FileGrows
<1>3. /\ added \in Seq(Artifact) /\ InOrder(added, ArtifactOrder)
      /\ \A a \in ToSet(added) : TrueArtifact(deployments, name, a) /\ a.root = root
  BY <1>1, AddedFacts
<1>4. /\ Len(earlier) \in Nat /\ Len(added) \in Nat /\ Len(known) = Len(earlier) + Len(added)
      /\ DOMAIN known = 1 .. Len(earlier) + Len(added)
      /\ DOMAIN added = 1 .. Len(added) /\ DOMAIN earlier = 1 .. Len(earlier)
      /\ \A i \in 1 .. Len(earlier) : known[i] = earlier[i]
      /\ \A i \in 1 .. Len(added) : known[Len(earlier) + i] = added[i]
  BY <1>1, <1>2, <1>3
<1>5. \A i \in 1 .. Len(earlier) :
         /\ TrueArtifact(deployments, name, earlier[i]) /\ earlier[i].root < root
         /\ i > 1 => isDeployedEarlier(earlier[i - 1], earlier[i])
  <2>1. CASE name \in DOMAIN files
    <3>1. TrueFile(deployments, name, files[name]) /\ earlier = Known(files[name])
          /\ \A a \in ToSet(Known(files[name])) : a.root < root
      BY <1>1, <2>1 DEF TrueFiles, AllWhole, Before, Earlier
    <3> QED
      BY <1>4, <3>1 DEF TrueFile, ToSet
  <2>2. CASE name \notin DOMAIN files
    BY <1>1, <2>2 DEF Earlier
  <2> QED
    BY <2>1, <2>2
<1>6. ASSUME NEW i \in 1 .. Len(added)
      PROVE  /\ TrueArtifact(deployments, name, added[i]) /\ added[i].root = root
             /\ i > 1 => isDeployedEarlier(added[i - 1], added[i])
  <2>1. added[i] \in ToSet(added)
    BY <1>4 DEF ToSet
  <2>2. ASSUME i > 1 PROVE isDeployedEarlier(added[i - 1], added[i])
    <3>1. i - 1 \in DOMAIN added /\ i \in DOMAIN added /\ i - 1 < i
      BY <1>4, <2>2
    <3>2. <<added[i - 1], added[i]>> \in ArtifactOrder
      BY <1>3, <3>1 DEF InOrder
    <3> QED
      BY <3>2 DEF ArtifactOrder
  <2> QED
    BY <1>3, <2>1, <2>2
<1>7. ASSUME NEW k \in DOMAIN known
      PROVE  /\ TrueArtifact(deployments, name, known[k])
             /\ k > 1 => isDeployedEarlier(known[k - 1], known[k])
             /\ known[k].root = root \/ (k \in DOMAIN earlier /\ known[k] = earlier[k])
  <2>1. CASE k <= Len(earlier)
    <3>1. k \in 1 .. Len(earlier) /\ (k > 1 => k - 1 \in 1 .. Len(earlier))
      BY <1>4, <2>1
    <3> QED
      BY <1>4, <1>5, <3>1
  <2>2. CASE k = Len(earlier) + 1
    <3>1. known[k] = added[1] /\ 1 \in 1 .. Len(added)
      BY <1>4, <2>2
    <3>2. k > 1 => known[k - 1] = earlier[Len(earlier)] /\ Len(earlier) \in 1 .. Len(earlier)
      BY <1>4, <2>2
    <3>3. k > 1 => known[k - 1].root < known[k].root
      BY <1>5, <1>6, <3>1, <3>2
    <3> QED
      BY <1>6, <3>1, <3>3 DEF isDeployedEarlier
  <2>3. CASE k > Len(earlier) + 1
    <3>1. PICK i \in 1 .. Len(added) : i = k - Len(earlier) /\ i > 1
      BY <1>4, <2>3
    <3>2. i - 1 \in 1 .. Len(added) /\ Len(earlier) + i = k /\ Len(earlier) + (i - 1) = k - 1
      <4>1. PICK m, n : m = Len(earlier) /\ n = Len(added)
        OBVIOUS
      <4>2. m \in Nat /\ n \in Nat /\ k \in Nat
        BY <1>4, <4>1
      <4>3. i \in 1 .. n /\ i = k - m /\ i > 1
        BY <3>1, <4>1
      <4>4. i - 1 \in 1 .. n /\ m + i = k /\ m + (i - 1) = k - 1
        BY <4>2, <4>3
      <4> QED
        BY <4>1, <4>4
    <3>3. known[k] = added[i] /\ known[k - 1] = added[i - 1]
      BY <1>4, <3>1, <3>2
    <3> QED
      BY <1>6, <3>1, <3>3
  <2> QED
    BY <1>4, <2>1, <2>2, <2>3
<1>8. TrueFile(deployments, name, file)
  BY <1>2, <1>7 DEF TrueFile
<1>9. name \in DOMAIN files => IsPrefix(Known(files[name]), known)
  BY <1>1, <1>2, <1>3, PrefixOfMore DEF Earlier
<1>10. ASSUME NEW a \in ToSet(known)
       PROVE  a.root = root \/ (name \in DOMAIN files /\ a \in ToSet(Known(files[name])))
  <2>1. PICK k \in DOMAIN known : a = known[k]
    BY DEF ToSet
  <2>2. CASE a.root = root
    BY <2>2
  <2>3. CASE k \in DOMAIN earlier /\ a = earlier[k]
    <3>1. earlier # <<>>
      BY <1>4, <2>3
    <3>2. name \in DOMAIN files /\ earlier = Known(files[name])
      BY <1>1, <3>1 DEF Earlier
    <3> QED
      BY <2>3, <3>2 DEF ToSet
  <2> QED
    BY <1>7, <2>1, <2>2, <2>3
<1> QED
  BY <1>1, <1>2, <1>8, <1>9, <1>10

(* The files of a new record: everything in them is true, and what the     *)
(* files before knew they know.                                            *)
LEMMA NewFiles ==
    ASSUME DeploymentsOK, NEW root \in DOMAIN deployments, NEW receipts,
           ReceiptsOf(root, deployments[root], receipts),
           CanMakeArtifacts(deployments[root], receipts),
           NEW files, TrueFiles(deployments, files), AllWhole(files), Before(files, root)
    PROVE  LET new == makeContractDeploymentArtifacts(root, deployments[root], receipts, files)
           IN /\ TrueFiles(deployments, new) /\ AllWhole(new) /\ Keeps(files, new)
              /\ \A name \in DOMAIN new : \A a \in ToSet(Known(new[name])) :
                    a.root = root \/ (name \in DOMAIN files /\ a \in ToSet(Known(files[name])))
<1>1. PICK new, names, d :
        /\ d = deployments[root] /\ names = NewFileNames(d)
        /\ new = makeContractDeploymentArtifacts(root, d, receipts, files)
  OBVIOUS
<1>2. /\ DOMAIN new = DOMAIN files \cup names
      /\ \A name \in DOMAIN files : name \notin names => new[name] = files[name]
  BY <1>1 DEF makeContractDeploymentArtifacts
<1>3. IsFiniteSet(DOMAIN new)
  <2>1. d \in Deployment
    BY <1>1 DEF DeploymentsOK
  <2>2. PICK present : present = WithCode(d)
    OBVIOUS
  <2>3. present \in Seq(Contract(d))
    BY <2>1, <2>2, WithCodeFacts
  <2>4. DOMAIN present = 1 .. Len(present) /\ Len(present) \in Nat
    BY <2>3
  <2>5. IsFiniteSet(DOMAIN present)
    BY <2>4, FS_Interval
  <2>6. names = {FileName(present, k) : k \in DOMAIN present}
    BY <1>1, <2>2 DEF NewFileNames
  <2>7. IsFiniteSet(names)
    <3> DEFINE f == [k \in DOMAIN present |-> FileName(present, k)]
    <3>1. f \in [DOMAIN present -> names] /\ \A y \in names : \E k \in DOMAIN present : f[k] = y
      BY <2>6
    <3> HIDE DEF f
    <3> QED
      BY <2>5, <3>1, FiniteRange
  <2>8. IsFiniteSet(DOMAIN files)
    BY DEF TrueFiles
  <2> QED
    BY <1>2, <2>7, <2>8, FS_Union
<1>4. ASSUME NEW name \in names
      PROVE  /\ new[name].whole /\ TrueFile(deployments, name, new[name])
             /\ name \in DOMAIN files => IsPrefix(Known(files[name]), Known(new[name]))
             /\ \A a \in ToSet(Known(new[name])) :
                   a.root = root \/ (name \in DOMAIN files /\ a \in ToSet(Known(files[name])))
  BY <1>1, <1>4, GrownFileIsTrue
<1>5. ASSUME NEW name \in DOMAIN files
      PROVE  /\ files[name].whole /\ TrueFile(deployments, name, files[name])
             /\ IsPrefix(Known(files[name]), Known(files[name]))
  <2>1. files[name].whole /\ TrueFile(deployments, name, files[name])
    BY DEF AllWhole, TrueFiles
  <2>2. Known(files[name]) \in Seq(Artifact)
    BY <2>1 DEF TrueFile, Known
  <2> QED
    BY <2>1, <2>2, PrefixOfItself
<1>6. TrueFiles(deployments, new)
  BY <1>2, <1>3, <1>4, <1>5 DEF TrueFiles
<1>7. AllWhole(new)
  BY <1>2, <1>4, <1>5 DEF AllWhole
<1>8. Keeps(files, new)
  BY <1>2, <1>4, <1>5 DEF Keeps
<1>9. \A name \in DOMAIN new : \A a \in ToSet(Known(new[name])) :
         a.root = root \/ (name \in DOMAIN files /\ a \in ToSet(Known(files[name])))
  BY <1>2, <1>4
<1> QED
  BY <1>1, <1>6, <1>7, <1>8, <1>9

-----------------------------------------------------------------------------
(* The record on the disk and the platform's *)

RecordOK(ds, record) ==
    /\ record = [contracts |-> record.contracts, execution |-> record.execution]
    /\ TrueFiles(ds, record.contracts) /\ IsFiniteSet(DOMAIN record.execution)

(* The files that a command writes. *)
Items(record) ==
    {<<"execution", root>> : root \in DOMAIN record.execution}
    \cup {<<"contracts", name>> : name \in DOMAIN record.contracts}
    \cup {<<"inputs", i>> : i \in Inputs}

DiskOK ==
    /\ disk = [directory \in {"live", "local"} |-> disk[directory]]
    /\ \A directory \in {"live", "local"} : RecordOK(deployments, disk[directory])

(* The platform records its deployments in their order. *)
WebsiteOK ==
    /\ RecordOK(deployments, website) /\ AllWhole(website.contracts)
    /\ website = NoFiles \/ DOMAIN website.execution # {}
    /\ \A name \in DOMAIN website.contracts : \A a \in ToSet(Known(website.contracts[name])) :
          a.root \in DOMAIN website.execution
    /\ \A root \in DOMAIN website.execution :
          /\ root \in DOMAIN deployments
          /\ \A r \in 1 .. root :
                deployments[r].mode = "Platform" => r \in DOMAIN website.execution

(* `sphinx deploy` reads files of earlier deployments, keeps what it reads *)
(* and writes what it has made of it.                                      *)
RunOK ==
    /\ command.pc \in {"read", "make"} =>
          command.mode # "Platform" /\ Before(disk[Directory].contracts, command.root)
    /\ command.pc = "make" =>
          command.record = disk[Directory] /\ AllWhole(command.record.contracts)
    /\ command.pc = "write" =>
          /\ RecordOK(deployments, command.record) /\ AllWhole(command.record.contracts)
          /\ command.todo \in Seq(Items(command.record)) /\ command.todo # <<>>
    /\ command.pc = "write" /\ command.mode # "Platform" =>
          Keeps(disk[Directory].contracts, command.record.contracts)

RecordsInv == DiskOK /\ WebsiteOK /\ RunOK

(* What is true of the deployments stays true when there are more. *)
LEMMA TrueOfMore ==
    ASSUME NEW ds, NEW more, NEW files, TrueFiles(ds, files),
           \A root \in DOMAIN ds : root \in DOMAIN more /\ more[root] = ds[root]
    PROVE  TrueFiles(more, files)
<1>1. ASSUME NEW name, NEW a, TrueArtifact(ds, name, a)
      PROVE  TrueArtifact(more, name, a)
  BY <1>1 DEF TrueArtifact
<1>2. ASSUME NEW name \in DOMAIN files, files[name].whole
      PROVE  TrueFile(more, name, files[name])
  BY <1>1, <1>2 DEF TrueFiles, TrueFile
<1> QED
  BY <1>2 DEF TrueFiles

(* The elements of a finite set as a sequence. *)
LEMMA SetToSeqType ==
    ASSUME NEW S, IsFiniteSet(S)
    PROVE  SetToSeq(S) \in Seq(S) /\ Len(SetToSeq(S)) = Cardinality(S)
<1>1. Cardinality(S) \in Nat /\ ExistsBijection(1 .. Cardinality(S), S)
  BY FS_NatBijection, FS_CardinalityType
<1>2. PICK f \in Bijection(1 .. Cardinality(S), S) : TRUE
  BY <1>1 DEF ExistsBijection
<1>3. f \in [1 .. Cardinality(S) -> S] /\ IsInjective(f)
  BY <1>2 DEF Bijection, Injection, IsInjective
<1>4. SetToSeq(S) \in [1 .. Cardinality(S) -> S]
  BY <1>3 DEF SetToSeq
<1> QED
  BY <1>1, <1>4

(* A command has each file of its record to write. *)
LEMMA WritesType ==
    ASSUME NEW record, NEW input \in SUBSET Inputs,
           IsFiniteSet(DOMAIN record.contracts), IsFiniteSet(DOMAIN record.execution),
           IsFiniteSet(input), DOMAIN record.execution # {}
    PROVE  Writes(record, input) \in Seq(Items(record)) /\ Writes(record, input) # <<>>
<1> DEFINE E == {<<"execution", root>> : root \in DOMAIN record.execution}
           C == {<<"contracts", name>> : name \in DOMAIN record.contracts}
           I == {<<"inputs", i>> : i \in input}
<1>1. IsFiniteSet(E)
  <2> DEFINE f == [root \in DOMAIN record.execution |-> <<"execution", root>>]
  <2>1. f \in [DOMAIN record.execution -> E]
        /\ \A y \in E : \E x \in DOMAIN record.execution : f[x] = y
    OBVIOUS
  <2> HIDE DEF f, E
  <2> QED
    BY <2>1, FiniteRange
<1>2. IsFiniteSet(C)
  <2> DEFINE f == [name \in DOMAIN record.contracts |-> <<"contracts", name>>]
  <2>1. f \in [DOMAIN record.contracts -> C]
        /\ \A y \in C : \E x \in DOMAIN record.contracts : f[x] = y
    OBVIOUS
  <2> HIDE DEF f, C
  <2> QED
    BY <2>1, FiniteRange
<1>3. IsFiniteSet(I)
  <2> DEFINE f == [i \in input |-> <<"inputs", i>>]
  <2>1. f \in [input -> I] /\ \A y \in I : \E x \in input : f[x] = y
    OBVIOUS
  <2> HIDE DEF f, I
  <2> QED
    BY <2>1, FiniteRange
<1>4. E \subseteq Items(record) /\ C \subseteq Items(record) /\ I \subseteq Items(record)
  BY DEF Items
<1>5. E # {}
  OBVIOUS
<1>6. Writes(record, input) = SetToSeq(E) \o SetToSeq(C) \o SetToSeq(I)
  BY DEF Writes
<1> HIDE DEF E, C, I
<1>7. /\ SetToSeq(E) \in Seq(Items(record)) /\ SetToSeq(C) \in Seq(Items(record))
      /\ SetToSeq(I) \in Seq(Items(record))
  <2>1. SetToSeq(E) \in Seq(E) /\ SetToSeq(C) \in Seq(C) /\ SetToSeq(I) \in Seq(I)
    BY <1>1, <1>2, <1>3, SetToSeqType
  <2> QED
    BY <1>4, <2>1
<1>8. Len(SetToSeq(E)) > 0
  <2>1. Cardinality(E) \in Nat /\ Cardinality(E) # 0
    BY <1>1, <1>5, FS_CardinalityType, FS_EmptySet
  <2> QED
    BY <1>1, <2>1, SetToSeqType
<1> QED
  BY <1>6, <1>7, <1>8

(* One kind of files of a directory changes. *)
LEMMA DirectoryChanges ==
    ASSUME DiskOK, NEW directory \in {"live", "local"}, NEW kind \in {"contracts", "execution"},
           NEW files, IsFiniteSet(DOMAIN files),
           kind = "contracts" => TrueFiles(deployments, files),
           disk' = [disk EXCEPT ![directory][kind] = files], UNCHANGED deployments
    PROVE  /\ DiskOK'
           /\ \A other \in {"live", "local"} :
                 disk'[other].contracts = IF other = directory /\ kind = "contracts"
                                          THEN files ELSE disk[other].contracts
<1>1. PICK old : old = disk[directory]
  OBVIOUS
<1>2. /\ old = [contracts |-> old.contracts, execution |-> old.execution]
      /\ TrueFiles(deployments, old.contracts) /\ IsFiniteSet(DOMAIN old.execution)
  BY <1>1 DEF DiskOK, RecordOK
<1>3. PICK new : new = [old EXCEPT ![kind] = files]
  OBVIOUS
<1>4. /\ new = [contracts |-> new.contracts, execution |-> new.execution]
      /\ new.contracts = IF kind = "contracts" THEN files ELSE old.contracts
      /\ new.execution = IF kind = "execution" THEN files ELSE old.execution
  <2>1. CASE kind = "contracts"
    <3>1. new = [contracts |-> files, execution |-> old.execution]
      BY <1>2, <1>3, <2>1
    <3> QED
      BY <2>1, <3>1
  <2>2. CASE kind = "execution"
    <3>1. new = [contracts |-> old.contracts, execution |-> files]
      BY <1>2, <1>3, <2>2
    <3> QED
      BY <2>2, <3>1
  <2> QED
    BY <2>1, <2>2
<1>5. RecordOK(deployments, new)
  BY <1>2, <1>4 DEF RecordOK
<1>6. disk' = [disk EXCEPT ![directory] = new]
  BY <1>1, <1>3
<1>7. /\ disk' = [other \in {"live", "local"} |-> disk'[other]]
      /\ \A other \in {"live", "local"} :
            disk'[other] = IF other = directory THEN new ELSE disk[other]
  BY <1>6 DEF DiskOK
<1>8. DiskOK'
  BY <1>5, <1>7 DEF DiskOK
<1> QED
  BY <1>1, <1>4, <1>7, <1>8

(* A file of the record is written; its file name may have been there.     *)
LEMMA WriteEffect ==
    ASSUME DiskOK, CommandOK, RunOK, command.pc = "write",
           NEW torn \in BOOLEAN, Write(torn), UNCHANGED deployments
    PROVE  /\ DiskOK'
           /\ Directory \in {"live", "local"}
           /\ \A other \in {"live", "local"} :
                 \/ disk'[other].contracts = disk[other].contracts
                 \/ \E name \in DOMAIN command.record.contracts :
                       /\ other = Directory
                       /\ disk'[other].contracts =
                             With(disk[other].contracts, name,
                                  IF torn THEN Torn ELSE command.record.contracts[name])
<1> DEFINE record == command.record
<1>1. Directory \in {"live", "local"}
  BY DEF Directory, getNetworkNameDirectory
<1>2. PICK item : item = Head(command.todo)
  OBVIOUS
<1>3. item \in Items(record)
  BY <1>2 DEF RunOK
<1>4. RecordOK(deployments, record) /\ AllWhole(record.contracts)
  BY DEF RunOK
<1>5. PICK old : old = disk[Directory]
  OBVIOUS
<1>6. TrueFiles(deployments, old.contracts) /\ IsFiniteSet(DOMAIN old.execution)
      /\ IsFiniteSet(DOMAIN old.contracts)
  BY <1>1, <1>5 DEF DiskOK, RecordOK, TrueFiles
<1>7. CASE item[1] = "inputs"
  <2>1. UNCHANGED disk
    BY <1>2, <1>7 DEF Write
  <2> QED
    BY <1>1, <2>1 DEF DiskOK
<1>8. ASSUME item[1] # "inputs"
      PROVE  /\ item[1] \in {"contracts", "execution"}
             /\ disk' = [disk EXCEPT ![Directory][item[1]] =
                   With(old[item[1]], item[2], IF torn THEN Torn ELSE record[item[1]][item[2]])]
  <2>1. item[1] \in {"contracts", "execution"}
    BY <1>3, <1>8 DEF Items
  <2> QED
    BY <1>2, <1>5, <1>8, <2>1 DEF Write
<1>9. ASSUME NEW files, IsFiniteSet(DOMAIN files), NEW name, NEW content
      PROVE  IsFiniteSet(DOMAIN With(files, name, content))
  <2>1. DOMAIN With(files, name, content) = DOMAIN files \cup {name}
    BY DEF With
  <2> QED
    BY <1>9, <2>1, FS_AddElement
<1>10. CASE item[1] = "execution"
  <2>1. PICK files :
          files = With(old.execution, item[2], IF torn THEN Torn ELSE record.execution[item[2]])
    OBVIOUS
  <2>2. disk' = [disk EXCEPT ![Directory]["execution"] = files]
    BY <1>8, <1>10, <2>1
  <2>3. IsFiniteSet(DOMAIN files)
    BY <1>6, <1>9, <2>1
  <2> QED
    BY <1>1, <2>2, <2>3, DirectoryChanges
<1>11. CASE item[1] = "contracts"
  <2>1. PICK name \in DOMAIN record.contracts : item[2] = name
    BY <1>3, <1>11 DEF Items
  <2>2. PICK content : content = IF torn THEN Torn ELSE record.contracts[name]
    OBVIOUS
  <2>3. PICK files : files = With(old.contracts, name, content)
    OBVIOUS
  <2>4. disk' = [disk EXCEPT ![Directory]["contracts"] = files]
    BY <1>8, <1>11, <2>1, <2>2, <2>3
  <2>5. IsFiniteSet(DOMAIN files)
    BY <1>6, <1>9, <2>3
  <2>6. content.whole => TrueFile(deployments, name, content)
    <3>1. CASE torn
      BY <2>2, <3>1 DEF Torn
    <3>2. CASE ~torn
      BY <1>4, <2>2, <3>2 DEF RecordOK, TrueFiles
    <3> QED
      BY <3>1, <3>2
  <2>7. TrueFiles(deployments, files)
    BY <1>6, <2>3, <2>5, <2>6 DEF TrueFiles, With
  <2>8. /\ DiskOK'
        /\ \A other \in {"live", "local"} :
              disk'[other].contracts = IF other = Directory THEN files ELSE disk[other].contracts
    BY <1>1, <2>4, <2>5, <2>7, DirectoryChanges
  <2> QED
    BY <1>1, <1>5, <2>2, <2>3, <2>8
<1>12. item[1] \in {"contracts", "execution", "inputs"}
  BY <1>3 DEF Items
<1> QED
  BY <1>7, <1>10, <1>11, <1>12

(* Every step keeps what is recorded true. *)
LEMMA RecordsStep ==
    ASSUME DeploymentsOK, CommandOK, RecordsInv, [Next]_vars
    PROVE  RecordsInv'
<1> USE DEF RecordsInv
<1>1. Directory \in {"live", "local"}
  BY DEF Directory, getNetworkNameDirectory
<1>2. ASSUME UNCHANGED <<deployments, disk, website>>, command'.pc \notin {"read", "make", "write"}
      PROVE  RecordsInv'
  <2>1. DiskOK'
    BY <1>2 DEF DiskOK
  <2>2. WebsiteOK'
    BY <1>2 DEF WebsiteOK
  <2>3. RunOK'
    BY <1>2 DEF RunOK
  <2> QED
    BY <2>1, <2>2, <2>3
<1>3. CASE UNCHANGED artifactVars
  <2>1. UNCHANGED <<deployments, disk, website, command>>
    BY <1>3 DEF artifactVars
  <2>2. DiskOK'
    BY <2>1 DEF DiskOK
  <2>3. WebsiteOK'
    BY <2>1 DEF WebsiteOK
  <2>4. UNCHANGED Directory
    BY <2>1 DEF Directory
  <2>5. RunOK'
    BY <2>1, <2>4 DEF RunOK
  <2> QED
    BY <2>2, <2>3, <2>5
<1>4. ASSUME NEW mode \in ExecutionMode, NEW script \in Scripts,
             ExecuteDeployment(mode, script)
      PROVE  RecordsInv'
  <2>1. /\ command.pc = "idle"
        /\ Len(deployments') = Len(deployments) + 1 /\ Len(deployments) \in Nat
        /\ \A root \in DOMAIN deployments :
              root \in DOMAIN deployments' /\ deployments'[root] = deployments[root]
        /\ DOMAIN deployments = 1 .. Len(deployments)
    <3>1. Len(deployments) \in Nat /\ DOMAIN deployments = 1 .. Len(deployments)
      BY DEF DeploymentsOK
    <3> QED
      BY <1>4, <3>1, ExecuteDeploymentKeeps
  <2>2. UNCHANGED <<disk, website>>
    BY <1>4 DEF ExecuteDeployment
  <2>3. ASSUME NEW record, RecordOK(deployments, record)
        PROVE  RecordOK(deployments', record)
    BY <2>1, <2>3, TrueOfMore DEF RecordOK
  <2>4. DiskOK'
    BY <2>2, <2>3 DEF DiskOK
  <2>5. WebsiteOK'
    <3>1. ASSUME NEW root \in DOMAIN website.execution, NEW r \in 1 .. root,
                 deployments'[r].mode = "Platform"
          PROVE  root \in DOMAIN deployments' /\ r \in DOMAIN website.execution
      <4>1. root \in DOMAIN deployments /\ r \in DOMAIN deployments
        BY <2>1 DEF WebsiteOK
      <4> QED
        BY <2>1, <3>1, <4>1 DEF WebsiteOK
    <3>2. \A root \in DOMAIN website.execution : root \in DOMAIN deployments'
      BY <2>1 DEF WebsiteOK
    <3> QED
      BY <2>2, <2>3, <3>1, <3>2 DEF WebsiteOK
  <2>6. PICK n : n = Len(deployments')
    OBVIOUS
  <2>7. command' = IF mode # "Platform"
                   THEN [NoCommand EXCEPT !.pc = "read", !.mode = mode, !.root = n]
                   ELSE NoCommand
    BY <1>4, <2>6, ExecuteDeploymentKeeps
  <2>8. command'.pc \in {"idle", "read"}
        /\ (command'.pc = "read" => command'.mode # "Platform" /\ command'.root = n)
    BY <2>7 DEF NoCommand
  <2>9. ASSUME NEW directory \in {"live", "local"}
        PROVE  Before(disk[directory].contracts, n)
    <3>1. TrueFiles(deployments, disk[directory].contracts)
      BY DEF DiskOK, RecordOK
    <3>2. ASSUME NEW name \in DOMAIN disk[directory].contracts,
                 disk[directory].contracts[name].whole
          PROVE  \A a \in ToSet(Known(disk[directory].contracts[name])) : a.root < n
      <4>1. TrueFile(deployments, name, disk[directory].contracts[name])
        BY <3>1, <3>2 DEF TrueFiles
      <4>2. \A a \in ToSet(Known(disk[directory].contracts[name])) : a.root \in DOMAIN deployments
        BY <4>1 DEF TrueFile, TrueArtifact, ToSet
      <4> QED
        BY <2>1, <2>6, <4>2
    <3> QED
      BY <3>2 DEF Before
  <2>10. Directory' \in {"live", "local"}
    BY DEF Directory, getNetworkNameDirectory
  <2>11. RunOK'
    BY <2>2, <2>8, <2>9, <2>10 DEF RunOK
  <2> QED
    BY <2>4, <2>5, <2>11
<1>5. ASSUME NEW root \in DOMAIN deployments, WebsiteRecords(root)
      PROVE  RecordsInv'
  <2> DEFINE d == deployments[root]
             receipts == Receipts(root, d)
             execution == website.execution
  <2>1. d \in Deployment /\ root \in Nat
    BY DEF DeploymentsOK
  <2>2. PICK first \in 1 .. Len(receipts), oldest \in 1 .. Len(receipts) :
          LET found == fetchExecutionTransactionReceipts(
                          SubSeq(receipts, first, Len(receipts)), receipts,
                          {receipts[k].n : k \in oldest .. Len(receipts)})
          IN /\ CanMakeArtifacts(d, found)
             /\ website' = makeDeploymentArtifacts(root, found, website)
    BY <1>5 DEF WebsiteRecords
  <2>3. PICK found :
          /\ ReceiptsOf(root, d, found) /\ CanMakeArtifacts(d, found)
          /\ website' = makeDeploymentArtifacts(root, found, website)
    <3>1. ReceiptsOf(root, d, receipts)
      BY <2>1, ReceiptsType
    <3> HIDE DEF receipts
    <3> QED
      BY <2>2, <3>1, FoundReceipts
  <2>4. /\ UNCHANGED <<deployments, disk, command>> /\ command.pc = "idle"
        /\ deployments[root].mode = "Platform" /\ root \notin DOMAIN execution
        /\ \A r \in 1 .. root - 1 :
              deployments[r].mode = "Platform" => r \in DOMAIN execution
    BY <1>5 DEF WebsiteRecords
  <2>5. Before(website.contracts, root)
    <3>1. ASSUME NEW r \in DOMAIN execution PROVE r < root
      <4>1. r \in Nat
        BY DEF WebsiteOK, DeploymentsOK
      <4>2. root \in 1 .. r => root \in DOMAIN execution
        BY <2>4 DEF WebsiteOK
      <4>3. root > 0
        BY DEF DeploymentsOK
      <4> QED
        BY <2>1, <2>4, <4>1, <4>2, <4>3
    <3> QED
      BY <3>1 DEF WebsiteOK, Before
  <2>6. PICK new : new = makeContractDeploymentArtifacts(root, d, found, website.contracts)
    OBVIOUS
  <2>7. /\ TrueFiles(deployments, new) /\ AllWhole(new)
        /\ \A name \in DOMAIN new : \A a \in ToSet(Known(new[name])) :
              \/ a.root = root
              \/ /\ name \in DOMAIN website.contracts
                 /\ a \in ToSet(Known(website.contracts[name]))
    BY <2>3, <2>5, <2>6, NewFiles DEF WebsiteOK, RecordOK
  <2>8. PICK after : after = [r \in DOMAIN execution \cup {root} |->
                                IF r = root THEN makeExecutionArtifact(root, found)
                                ELSE execution[r]]
    OBVIOUS
  <2>9. website' = [contracts |-> new, execution |-> after]
    BY <2>3, <2>6, <2>8 DEF makeDeploymentArtifacts
  <2>10. website'.contracts = new /\ website'.execution = after
         /\ DOMAIN after = DOMAIN execution \cup {root}
    BY <2>8, <2>9
  <2>11. IsFiniteSet(DOMAIN after)
    BY <2>10, FS_AddElement DEF WebsiteOK, RecordOK
  <2>12. RecordOK(deployments, website)'
    BY <2>4, <2>7, <2>9, <2>10, <2>11 DEF RecordOK
  <2>13. \A name \in DOMAIN new : \A a \in ToSet(Known(new[name])) : a.root \in DOMAIN after
    BY <2>7, <2>10 DEF WebsiteOK
  <2>14. ASSUME NEW r \in DOMAIN after
         PROVE  /\ r \in DOMAIN deployments
                /\ \A s \in 1 .. r : deployments[s].mode = "Platform" => s \in DOMAIN after
    <3>1. CASE r = root
      <4>1. ASSUME NEW s \in 1 .. root, deployments[s].mode = "Platform"
            PROVE  s = root \/ s \in DOMAIN execution
        <5>1. s # root => s \in 1 .. root - 1
          BY <2>1
        <5> QED
          BY <2>4, <4>1, <5>1
      <4> QED
        BY <2>10, <3>1, <4>1
    <3>2. CASE r \in DOMAIN execution
      BY <2>10, <3>2 DEF WebsiteOK
    <3> QED
      BY <2>10, <3>1, <3>2
  <2>15. WebsiteOK'
    BY <2>4, <2>7, <2>10, <2>12, <2>13, <2>14 DEF WebsiteOK
  <2>16. DiskOK'
    BY <2>4 DEF DiskOK
  <2>17. RunOK'
    BY <2>4 DEF RunOK
  <2> QED
    BY <2>15, <2>16, <2>17
<1>6. CASE readDeploymentArtifactsForNetwork
  <2>1. UNCHANGED <<deployments, disk, website>> /\ command.pc = "read"
    BY <1>6 DEF readDeploymentArtifactsForNetwork
  <2>2. CASE command' = NoCommand
    BY <1>2, <2>1, <2>2 DEF NoCommand
  <2>3. PICK files : files = disk[Directory]
    OBVIOUS
  <2>4. CASE /\ command' = [command EXCEPT !.pc = "make", !.record = files]
             /\ \A name \in DOMAIN files.contracts : files.contracts[name].whole
    <3>1. command'.pc = "make" /\ command'.record = files
          /\ command'.mode = command.mode /\ command'.root = command.root
      BY <2>4 DEF CommandOK
    <3>2. UNCHANGED Directory
      BY <3>1 DEF Directory
    <3>3. RunOK'
      BY <2>1, <2>3, <2>4, <3>1, <3>2 DEF RunOK, AllWhole
    <3>4. DiskOK'
      BY <2>1 DEF DiskOK
    <3>5. WebsiteOK'
      BY <2>1 DEF WebsiteOK
    <3> QED
      BY <3>3, <3>4, <3>5
  <2>5. \/ command' = NoCommand
        \/ /\ command' = [command EXCEPT !.pc = "make", !.record = files]
           /\ \A name \in DOMAIN files.contracts : files.contracts[name].whole
    <3> DEFINE names == {<<"contracts", n>> : n \in DOMAIN files.contracts}
                        \cup {<<"execution", r>> : r \in DOMAIN files.execution}
    <3>1. \/ command' = NoCommand
          \/ /\ command' = [command EXCEPT !.pc = "make", !.record = files]
             /\ \A f \in names : files[f[1]][f[2]].whole
      BY <1>6, <2>3 DEF readDeploymentArtifactsForNetwork
    <3>2. \A n \in DOMAIN files.contracts : <<"contracts", n>> \in names
      OBVIOUS
    <3> HIDE DEF names
    <3>3. (\A f \in names : files[f[1]][f[2]].whole) =>
             \A n \in DOMAIN files.contracts : files.contracts[n].whole
      <4>1. SUFFICES ASSUME \A f \in names : files[f[1]][f[2]].whole,
                            NEW n \in DOMAIN files.contracts
                     PROVE  files.contracts[n].whole
        OBVIOUS
      <4>2. files[<<"contracts", n>>[1]][<<"contracts", n>>[2]].whole
        BY <3>2, <4>1
      <4> QED
        BY <4>2
    <3> QED
      BY <3>1, <3>3
  <2> QED
    BY <2>2, <2>4, <2>5
<1>7. CASE MakeArtifacts
  <2> DEFINE root == command.root
             d == deployments[root]
             receipts == Receipts(root, d)
             old == disk[Directory]
  <2>1. /\ UNCHANGED <<deployments, disk, website>> /\ command.pc = "make"
        /\ CanMakeArtifacts(d, receipts)
    BY <1>7 DEF MakeArtifacts
  <2>2. /\ command.mode # "Platform" /\ root \in DOMAIN deployments
        /\ Before(old.contracts, root) /\ command.record = old
        /\ AllWhole(old.contracts) /\ RecordOK(deployments, old)
    BY <1>1, <2>1 DEF RunOK, CommandOK, DiskOK
  <2>3. d \in Deployment /\ root \in Nat
    BY <2>2 DEF DeploymentsOK
  <2>4. ReceiptsOf(root, d, receipts)
    BY <2>3, ReceiptsType
  <2>5. PICK new : new = makeContractDeploymentArtifacts(root, d, receipts, old.contracts)
    OBVIOUS
  <2>6. TrueFiles(deployments, new) /\ AllWhole(new) /\ Keeps(old.contracts, new)
    BY <2>1, <2>2, <2>4, <2>5, NewFiles DEF RecordOK
  <2>7. PICK after : after = [r \in DOMAIN old.execution \cup {root} |->
                                IF r = root THEN makeExecutionArtifact(root, receipts)
                                ELSE old.execution[r]]
    OBVIOUS
  <2>8. DOMAIN after = DOMAIN old.execution \cup {root} /\ IsFiniteSet(DOMAIN after)
    BY <2>2, <2>7, FS_AddElement DEF RecordOK
  <2>9. PICK record : record = [contracts |-> new, execution |-> after]
    OBVIOUS
  <2>10. makeDeploymentArtifacts(root, receipts, command.record) = record
    BY <2>2, <2>5, <2>7, <2>9 DEF makeDeploymentArtifacts
  <2>11. PICK todo : todo = Writes(record, {d.input})
    OBVIOUS
  <2>12. command' = [command EXCEPT !.pc = "write", !.record = record, !.todo = todo]
    BY <1>7, <2>10, <2>11 DEF MakeArtifacts
  <2>13. /\ command'.pc = "write" /\ command'.record = record /\ command'.todo = todo
         /\ command'.mode = command.mode
    BY <2>12 DEF CommandOK
  <2>14. RecordOK(deployments, record) /\ AllWhole(record.contracts)
         /\ Keeps(old.contracts, record.contracts) /\ DOMAIN record.execution # {}
    BY <2>6, <2>8, <2>9 DEF RecordOK
  <2>15. todo \in Seq(Items(record)) /\ todo # <<>>
    <3>1. {d.input} \in SUBSET Inputs /\ IsFiniteSet({d.input})
      BY <2>3, FS_Singleton DEF Deployment
    <3> QED
      BY <2>11, <2>14, <3>1, WritesType DEF RecordOK, TrueFiles
  <2>16. UNCHANGED Directory
    BY <2>13 DEF Directory
  <2> HIDE DEF old
  <2>17. RunOK'
    BY <2>1, <2>13, <2>14, <2>15, <2>16 DEF RunOK, old
  <2>18. DiskOK'
    BY <2>1 DEF DiskOK
  <2>19. WebsiteOK'
    BY <2>1 DEF WebsiteOK
  <2> QED
    BY <2>17, <2>18, <2>19
<1>8. CASE fetchRemoteArtifacts
  <2>1. UNCHANGED <<deployments, disk, website>> /\ website # NoFiles
    BY <1>8 DEF fetchRemoteArtifacts
  <2>2. PICK input : input = {deployments[r].input : r \in DOMAIN website.execution}
    OBVIOUS
  <2>3. PICK todo : todo = Writes(website, input)
    OBVIOUS
  <2>4. command' = [NoCommand EXCEPT !.pc = "write", !.record = website, !.todo = todo]
    BY <1>8, <2>2, <2>3 DEF fetchRemoteArtifacts
  <2>5. /\ command'.pc = "write" /\ command'.record = website /\ command'.todo = todo
        /\ command'.mode = "Platform"
    BY <2>4 DEF NoCommand
  <2>6. /\ RecordOK(deployments, website) /\ AllWhole(website.contracts)
        /\ DOMAIN website.execution # {}
    BY <2>1 DEF WebsiteOK
  <2>7. input \in SUBSET Inputs /\ IsFiniteSet(input)
    <3>1. \A r \in DOMAIN website.execution : deployments[r].input \in Inputs
      <4>1. \A r \in DOMAIN website.execution : r \in DOMAIN deployments
        BY DEF WebsiteOK
      <4>2. \A r \in DOMAIN deployments : deployments[r] \in Deployment
        BY DEF DeploymentsOK
      <4> QED
        BY <4>1, <4>2 DEF Deployment
    <3> DEFINE f == [r \in DOMAIN website.execution |-> deployments[r].input]
    <3>2. f \in [DOMAIN website.execution -> input]
          /\ \A y \in input : \E x \in DOMAIN website.execution : f[x] = y
      BY <2>2
    <3>3. IsFiniteSet(DOMAIN website.execution)
      BY <2>6 DEF RecordOK
    <3> HIDE DEF f
    <3> QED
      BY <2>2, <3>1, <3>2, <3>3, FiniteRange
  <2>8. todo \in Seq(Items(website)) /\ todo # <<>>
    BY <2>3, <2>6, <2>7, WritesType DEF RecordOK, TrueFiles
  <2>9. RunOK'
    BY <2>1, <2>5, <2>6, <2>8 DEF RunOK
  <2>10. DiskOK'
    BY <2>1 DEF DiskOK
  <2>11. WebsiteOK'
    BY <2>1 DEF WebsiteOK
  <2> QED
    BY <2>9, <2>10, <2>11
<1>9. CASE writeDeploymentArtifacts
  <2>1. UNCHANGED <<deployments, website>> /\ command.pc = "write" /\ Write(FALSE)
    BY <1>9 DEF writeDeploymentArtifacts
  <2>2. /\ DiskOK'
        /\ \/ disk'[Directory].contracts = disk[Directory].contracts
           \/ \E name \in DOMAIN command.record.contracts :
                 disk'[Directory].contracts =
                    With(disk[Directory].contracts, name, command.record.contracts[name])
    BY <1>1, <2>1, WriteEffect
  <2>3. PICK todo : todo = Tail(command.todo)
    OBVIOUS
  <2>4. PICK pc : pc = IF Len(command.todo) = 1 THEN "recorded" ELSE command.pc
    OBVIOUS
  <2>5. command' = [command EXCEPT !.todo = todo, !.pc = pc]
    BY <1>9, <2>3, <2>4 DEF writeDeploymentArtifacts
  <2>6. /\ command'.pc = pc /\ command'.record = command.record /\ command'.todo = todo
        /\ command'.mode = command.mode
    BY <2>5 DEF CommandOK
  <2>7. UNCHANGED Directory
    BY <2>6 DEF Directory
  <2>8. RecordOK(deployments, command.record) /\ AllWhole(command.record.contracts)
    BY <2>1 DEF RunOK
  <2>9. pc \in {"write", "recorded"}
        /\ (pc = "write" => todo \in Seq(Items(command.record)) /\ todo # <<>>)
    <3>1. PICK all, T : all = command.todo /\ T = Items(command.record)
      OBVIOUS
    <3>2. all \in Seq(T) /\ all # <<>>
      BY <2>1, <3>1 DEF RunOK
    <3>3. /\ Len(all) \in Nat /\ Len(all) # 0
          /\ Tail(all) \in Seq(T) /\ Len(Tail(all)) = Len(all) - 1
      BY <3>2
    <3>4. pc = "write" => Len(Tail(all)) # 0
      BY <2>4, <3>1, <3>3
    <3> QED
      BY <2>1, <2>3, <2>4, <3>1, <3>3, <3>4
  <2>10. ASSUME command.mode # "Platform"
         PROVE  Keeps(disk'[Directory].contracts, command.record.contracts)
    <3>1. Keeps(disk[Directory].contracts, command.record.contracts)
      BY <2>1, <2>10 DEF RunOK
    <3>2. ASSUME NEW name \in DOMAIN command.record.contracts
          PROVE  IsPrefix(Known(command.record.contracts[name]),
                          Known(command.record.contracts[name]))
      <4>1. TrueFile(deployments, name, command.record.contracts[name])
        BY <2>8 DEF RecordOK, TrueFiles, AllWhole
      <4>2. Known(command.record.contracts[name]) \in Seq(Artifact)
        BY <4>1 DEF TrueFile, Known
      <4> QED
        BY <4>2, PrefixOfItself
    <3>3. ASSUME NEW written \in DOMAIN command.record.contracts,
                 disk'[Directory].contracts =
                    With(disk[Directory].contracts, written, command.record.contracts[written])
          PROVE  Keeps(disk'[Directory].contracts, command.record.contracts)
      <4> DEFINE new == command.record.contracts
                 old == disk[Directory].contracts
                 after == With(old, written, new[written])
      <4>1. /\ DOMAIN after = DOMAIN old \cup {written}
            /\ after[written] = new[written]
            /\ \A name \in DOMAIN after : name # written =>
                  name \in DOMAIN old /\ after[name] = old[name]
        BY DEF With
      <4> HIDE DEF after
      <4>2. ASSUME NEW name \in DOMAIN after, after[name].whole
            PROVE  name \in DOMAIN new /\ IsPrefix(Known(after[name]), Known(new[name]))
        <5>1. CASE name = written
          BY <3>2, <4>1, <5>1
        <5>2. CASE name # written
          BY <3>1, <4>1, <4>2, <5>2 DEF Keeps
        <5> QED
          BY <5>1, <5>2
      <4>3. Keeps(after, new)
        BY <4>2 DEF Keeps
      <4> QED
        BY <3>3, <4>3 DEF after
    <3>4. CASE disk'[Directory].contracts = disk[Directory].contracts
      BY <3>1, <3>4
    <3> QED
      BY <2>2, <3>3, <3>4
  <2>11. RunOK'
    BY <2>1, <2>6, <2>7, <2>8, <2>9, <2>10 DEF RunOK
  <2>12. WebsiteOK'
    BY <2>1 DEF WebsiteOK
  <2> QED
    BY <2>2, <2>11, <2>12
<1>10. CASE Exit
  <2>1. UNCHANGED <<deployments, website>> /\ command.pc = "write" /\ command' = NoCommand
    BY <1>10 DEF Exit
  <2>2. UNCHANGED disk \/ Write(TRUE)
    BY <1>10 DEF Exit
  <2>3. DiskOK'
    <3>1. CASE UNCHANGED disk
      BY <2>1, <3>1 DEF DiskOK
    <3>2. CASE Write(TRUE)
      BY <2>1, <3>2, WriteEffect
    <3> QED
      BY <2>2, <3>1, <3>2
  <2>4. WebsiteOK'
    BY <2>1 DEF WebsiteOK
  <2>5. RunOK'
    BY <2>1 DEF RunOK, NoCommand
  <2> QED
    BY <2>3, <2>4, <2>5
<1>11. ASSUME NEW directory \in DOMAIN disk, NEW kind \in {"contracts", "execution"},
              NEW name, RemoveTorn(directory, kind, name)
       PROVE  RecordsInv'
  <2>1. /\ UNCHANGED <<deployments, website, command>> /\ command.pc = "idle"
        /\ directory \in {"live", "local"}
    BY <1>11 DEF RemoveTorn, DiskOK
  <2>2. PICK old : old = disk[directory][kind]
    OBVIOUS
  <2>3. PICK files : files = [n \in DOMAIN old \ {name} |-> old[n]]
    OBVIOUS
  <2>4. disk' = [disk EXCEPT ![directory][kind] = files]
    BY <1>11, <2>2, <2>3 DEF RemoveTorn
  <2>5. IsFiniteSet(DOMAIN old)
    BY <2>1, <2>2 DEF DiskOK, RecordOK, TrueFiles
  <2>6. DOMAIN files = DOMAIN old \ {name} /\ \A n \in DOMAIN files : files[n] = old[n]
    BY <2>3
  <2>7. IsFiniteSet(DOMAIN files)
    BY <2>5, <2>6, FS_Subset
  <2>8. kind = "contracts" => TrueFiles(deployments, files)
    BY <2>1, <2>2, <2>6, <2>7 DEF DiskOK, RecordOK, TrueFiles
  <2>9. DiskOK'
    BY <2>1, <2>4, <2>7, <2>8, DirectoryChanges
  <2>10. WebsiteOK'
    BY <2>1 DEF WebsiteOK
  <2>11. RunOK'
    BY <2>1 DEF RunOK
  <2> QED
    BY <2>9, <2>10, <2>11
<1>12. CASE EndCommand
  BY <1>2, <1>12 DEF EndCommand, NoCommand
<1>13. CASE VerifyDeployment
  <2>1. command' = [command EXCEPT !.pc = "verify"] /\ UNCHANGED <<deployments, disk, website>>
    BY <1>13 DEF VerifyDeployment
  <2>2. command'.pc = "verify"
    BY <2>1 DEF CommandOK
  <2> QED
    BY <1>2, <2>1, <2>2
<1>14. ASSUME NEW root \in DOMAIN deployments, VerifyOnPlatform(root)
       PROVE  RecordsInv'
  BY <1>3, <1>14 DEF VerifyOnPlatform
<1>15. CASE VerifySystem
  BY <1>3, <1>15 DEF VerifySystem
<1>16. CASE EndVerification
  <2>1. UNCHANGED <<deployments, disk, inputs, website, exits>>
        /\ (UNCHANGED command \/ command' = NoCommand)
    BY <1>16 DEF EndVerification
  <2>2. CASE UNCHANGED command
    BY <1>3, <2>1, <2>2 DEF artifactVars
  <2>3. CASE command' = NoCommand
    BY <1>2, <2>1, <2>3 DEF NoCommand
  <2> QED
    BY <2>1, <2>2, <2>3
<1>17. CASE UNCHANGED vars
  BY <1>3, <1>17 DEF vars
<1> QED
  BY <1>3, <1>4, <1>5, <1>6, <1>7, <1>8, <1>9, <1>10, <1>11, <1>12, <1>13, <1>14, <1>15,
     <1>16, <1>17 DEF Next

-----------------------------------------------------------------------------
(* Complete records *)

(* Unless a name is another with a number, the files that the contracts of *)
(* a deployment go to differ.                                              *)
LEMMA FileNamesDiffer ==
    ASSUME NEW T, NEW contracts \in Seq(T), \A e \in T : e.name \in Names,
           ~ Ambiguous(contracts), NEW j \in DOMAIN contracts, NEW k \in DOMAIN contracts,
           FileName(contracts, j) = FileName(contracts, k)
    PROVE  j = k
<1> DEFINE n(i) == Cardinality(SameBefore(contracts, i))
<1>1. \A i \in DOMAIN contracts : i \in Nat \ {0} /\ contracts[i].name \in Names
  OBVIOUS
<1>2. ASSUME NEW i \in DOMAIN contracts
      PROVE  /\ IsFiniteSet(SameBefore(contracts, i)) /\ n(i) \in 0 .. i - 1
             /\ FileName(contracts, i) = IF n(i) = 0 THEN contracts[i].name
                                         ELSE Numbered(contracts[i].name, n(i))
  BY <1>1, FileNameFacts
<1>3. ASSUME NEW i \in DOMAIN contracts, NEW l \in DOMAIN contracts, n(l) # 0
      PROVE  contracts[i].name # Numbered(contracts[l].name, n(l))
  <2>1. n(l) \in 0 .. l - 1
    BY <1>2
  <2>2. n(l) \in DOMAIN contracts
    <3>1. PICK m : m = n(l)
      OBVIOUS
    <3> HIDE DEF n
    <3>2. m \in 1 .. l - 1
      BY <1>1, <1>3, <2>1, <3>1
    <3>3. m \in DOMAIN contracts
      BY <3>2
    <3> QED
      BY <3>1, <3>3
  <2> QED
    BY <2>2 DEF Ambiguous
<1>4. ASSUME NEW i \in DOMAIN contracts, NEW l \in DOMAIN contracts,
             contracts[i].name = contracts[l].name, i < l
      PROVE  n(i) < n(l)
  <2>1. SameBefore(contracts, i) \cup {i} \in SUBSET SameBefore(contracts, l)
    BY <1>1, <1>4 DEF SameBefore
  <2>2. i \notin SameBefore(contracts, i)
    BY <1>1 DEF SameBefore
  <2>3. Cardinality(SameBefore(contracts, i) \cup {i}) = n(i) + 1
    BY <1>2, <2>2, FS_AddElement
  <2>4. Cardinality(SameBefore(contracts, i) \cup {i}) <= n(l)
    BY <1>2, <2>1, FS_Subset
  <2>5. n(i) \in Nat /\ n(l) \in Nat
    BY <1>2
  <2> QED
    BY <2>3, <2>4, <2>5
<1> HIDE DEF n
<1>5. n(j) \in Nat /\ n(k) \in Nat
  BY <1>2
<1>6. contracts[j].name = contracts[k].name /\ n(j) = n(k)
  <2>1. CASE n(j) = 0 /\ n(k) = 0
    BY <1>2, <2>1
  <2>2. CASE n(j) = 0 /\ n(k) # 0
    BY <1>2, <1>3, <2>2
  <2>3. CASE n(j) # 0 /\ n(k) = 0
    BY <1>2, <1>3, <2>3
  <2>4. CASE n(j) # 0 /\ n(k) # 0
    <3>1. Numbered(contracts[j].name, n(j)) = Numbered(contracts[k].name, n(k))
      BY <1>2, <2>4
    <3>2. PICK x \in Names, y \in Names, a \in Nat, b \in Nat :
            x = contracts[j].name /\ y = contracts[k].name /\ a = n(j) /\ b = n(k)
      BY <1>1, <1>5
    <3>3. Numbered(x, a) = Numbered(y, b)
      BY <3>1, <3>2
    <3>4. x = y /\ a = b
      BY <3>3, NumberedFacts
    <3> QED
      BY <3>2, <3>4
  <2> QED
    BY <2>1, <2>2, <2>3, <2>4
<1>7. ~ (j < k) /\ ~ (k < j)
  BY <1>4, <1>5, <1>6
<1> QED
  BY <1>1, <1>7

(* The receipts of an execution are in the order in which they were mined. *)
LEMMA ReceiptsAreSorted ==
    ASSUME NEW root \in Nat, NEW d \in Deployment
    PROVE  Sorted(Receipts(root, d)) = Receipts(root, d)
<1> DEFINE receipts == Receipts(root, d)
           n == Len(receipts)
           earlier(i) == {j \in DOMAIN receipts : isReceiptEarlier(receipts[j], receipts[i])}
<1>1. DOMAIN receipts = 1 .. n /\ n \in Nat /\ receipts \in Seq(ReceiptType)
  <2>1. receipts \in Seq(ReceiptType)
    BY ReceiptsType DEF ReceiptsOf
  <2> HIDE DEF receipts
  <2> QED
    BY <2>1
<1>2. ASSUME NEW i \in 1 .. n
      PROVE  receipts[i].root = root /\ receipts[i].n = i - 1
  BY <1>1 DEF Receipts, Receipt
<1> HIDE DEF receipts
<1>3. ASSUME NEW i \in 1 .. n
      PROVE  Cardinality(earlier(i)) = i - 1
  <2>1. ASSUME NEW j \in 1 .. n
        PROVE  isReceiptEarlier(receipts[j], receipts[i]) <=> j < i
    <3>1. /\ receipts[i].root = root /\ receipts[i].n = i - 1
          /\ receipts[j].root = root /\ receipts[j].n = j - 1
      BY <1>2
    <3> QED
      BY <1>1, <3>1 DEF isReceiptEarlier
  <2>2. earlier(i) = 1 .. i - 1
    BY <1>1, <2>1
  <2>3. Cardinality(1 .. i - 1) = i - 1
    <3>1. 1 \in Int /\ i - 1 \in Int /\ (1 > i - 1 => i - 1 = 0)
      BY <1>1
    <3>2. Cardinality(1 .. i - 1) = IF 1 > i - 1 THEN 0 ELSE (i - 1) - 1 + 1
      BY <3>1, FS_Interval
    <3> QED
      BY <3>1, <3>2
  <2> QED
    BY <2>2, <2>3
<1>4. Sorted(receipts) =
         [k \in DOMAIN receipts |->
            receipts[CHOOSE i \in DOMAIN receipts : Cardinality(earlier(i)) = k - 1]]
  BY DEF Sorted
<1> HIDE DEF earlier
<1>5. ASSUME NEW k \in 1 .. n
      PROVE  (CHOOSE i \in DOMAIN receipts : Cardinality(earlier(i)) = k - 1) = k
  <2>1. \A i \in 1 .. n : Cardinality(earlier(i)) = k - 1 <=> i = k
    BY <1>1, <1>3
  <2> QED
    BY <1>1, <2>1
<1>6. Sorted(receipts) = [k \in DOMAIN receipts |-> receipts[k]]
  BY <1>1, <1>4, <1>5
<1>7. receipts = [k \in DOMAIN receipts |-> receipts[k]]
  BY <1>1
<1> QED
  BY <1>6, <1>7 DEF receipts

(* The sequence of a set's elements has them all.                          *)
LEMMA SetToSeqElements ==
    ASSUME NEW S, IsFiniteSet(S)
    PROVE  ToSet(SetToSeq(S)) = S
<1>1. Cardinality(S) \in Nat /\ ExistsBijection(1 .. Cardinality(S), S)
  BY FS_NatBijection, FS_CardinalityType
<1>2. PICK f \in Bijection(1 .. Cardinality(S), S) : TRUE
  BY <1>1 DEF ExistsBijection
<1>3. f \in [1 .. Cardinality(S) -> S] /\ IsInjective(f)
  BY <1>2 DEF Bijection, Injection, IsInjective
<1>4. PICK s : s = SetToSeq(S)
  OBVIOUS
<1>5. s \in [1 .. Cardinality(S) -> S] /\ IsInjective(s)
  BY <1>3, <1>4 DEF SetToSeq
<1>6. s \in Seq(S) /\ Len(s) = Cardinality(S)
  BY <1>4, SetToSeqType
<1>7. \A i, j \in DOMAIN s : s[i] = s[j] => i = j
  BY <1>5 DEF IsInjective
<1>8. Cardinality(ToSet(s)) = Cardinality(S)
  BY <1>6, <1>7, DistinctCardinality
<1>9. ToSet(s) \in SUBSET S
  BY <1>6 DEF ToSet
<1> QED
  BY <1>4, <1>8, <1>9, FS_Subset

(* A command has every file of its record to write.                        *)
LEMMA WritesElements ==
    ASSUME NEW record, NEW input, IsFiniteSet(DOMAIN record.contracts),
           IsFiniteSet(DOMAIN record.execution), IsFiniteSet(input)
    PROVE  /\ \A root \in DOMAIN record.execution :
                 <<"execution", root>> \in ToSet(Writes(record, input))
           /\ \A name \in DOMAIN record.contracts :
                 <<"contracts", name>> \in ToSet(Writes(record, input))
           /\ \A i \in input : <<"inputs", i>> \in ToSet(Writes(record, input))
<1> DEFINE E == {<<"execution", root>> : root \in DOMAIN record.execution}
           C == {<<"contracts", name>> : name \in DOMAIN record.contracts}
           I == {<<"inputs", i>> : i \in input}
<1>1. IsFiniteSet(E)
  <2> DEFINE f == [root \in DOMAIN record.execution |-> <<"execution", root>>]
  <2>1. f \in [DOMAIN record.execution -> E]
        /\ \A y \in E : \E x \in DOMAIN record.execution : f[x] = y
    OBVIOUS
  <2> HIDE DEF f, E
  <2> QED
    BY <2>1, FiniteRange
<1>2. IsFiniteSet(C)
  <2> DEFINE f == [name \in DOMAIN record.contracts |-> <<"contracts", name>>]
  <2>1. f \in [DOMAIN record.contracts -> C]
        /\ \A y \in C : \E x \in DOMAIN record.contracts : f[x] = y
    OBVIOUS
  <2> HIDE DEF f, C
  <2> QED
    BY <2>1, FiniteRange
<1>3. IsFiniteSet(I)
  <2> DEFINE f == [i \in input |-> <<"inputs", i>>]
  <2>1. f \in [input -> I] /\ \A y \in I : \E x \in input : f[x] = y
    OBVIOUS
  <2> HIDE DEF f, I
  <2> QED
    BY <2>1, FiniteRange
<1>4. /\ \A root \in DOMAIN record.execution : <<"execution", root>> \in E
      /\ \A name \in DOMAIN record.contracts : <<"contracts", name>> \in C
      /\ \A i \in input : <<"inputs", i>> \in I
  OBVIOUS
<1>5. Writes(record, input) = SetToSeq(E) \o SetToSeq(C) \o SetToSeq(I)
  BY DEF Writes
<1> HIDE DEF E, C, I
<1>6. PICK e, c, i : e = SetToSeq(E) /\ c = SetToSeq(C) /\ i = SetToSeq(I)
  OBVIOUS
<1>7. /\ e \in Seq(E) /\ ToSet(e) = E /\ c \in Seq(C) /\ ToSet(c) = C
      /\ i \in Seq(I) /\ ToSet(i) = I
  BY <1>1, <1>2, <1>3, <1>6, SetToSeqType, SetToSeqElements
<1>8. ASSUME NEW S, NEW T, NEW s \in Seq(S), NEW t \in Seq(T)
      PROVE  s \o t \in Seq(S \cup T) /\ ToSet(s) \cup ToSet(t) \subseteq ToSet(s \o t)
  <2>1. PICK u : u = s \o t
    OBVIOUS
  <2>2. /\ s \in Seq(S \cup T) /\ t \in Seq(S \cup T)
        /\ Len(s) \in Nat /\ Len(t) \in Nat /\ DOMAIN s = 1 .. Len(s) /\ DOMAIN t = 1 .. Len(t)
    OBVIOUS
  <2>3. /\ u \in Seq(S \cup T) /\ DOMAIN u = 1 .. Len(s) + Len(t)
        /\ \A p \in 1 .. Len(s) : u[p] = s[p]
        /\ \A p \in 1 .. Len(t) : u[Len(s) + p] = t[p]
    BY <2>1, <2>2
  <2>4. \A p \in DOMAIN s : \E q \in DOMAIN u : u[q] = s[p]
    BY <2>2, <2>3
  <2>5. ASSUME NEW p \in DOMAIN t PROVE Len(s) + p \in DOMAIN u /\ u[Len(s) + p] = t[p]
    BY <2>2, <2>3
  <2>6. ToSet(s) \subseteq ToSet(u) /\ ToSet(t) \subseteq ToSet(u)
    BY <2>4, <2>5 DEF ToSet
  <2>7. u \in Seq(S \cup T)
    BY <2>3
  <2> QED
    BY <2>1, <2>6, <2>7, Zenon
<1>9. PICK ec : ec = e \o c
  OBVIOUS
<1>10. ec \in Seq(E \cup C) /\ ToSet(e) \cup ToSet(c) \subseteq ToSet(ec)
  BY <1>7, <1>8, <1>9
<1>11. ToSet(ec) \cup ToSet(i) \subseteq ToSet(ec \o i)
  BY <1>7, <1>8, <1>10
<1>12. Writes(record, input) = ec \o i
  BY <1>5, <1>6, <1>9
<1> QED
  BY <1>4, <1>7, <1>10, <1>11, <1>12

(* All contracts of a deployment that succeeded are in a file, and on top  *)
(* of one unless a name is another with a number.                          *)
LEMMA AllRecorded ==
    ASSUME DeploymentsOK, NEW root \in DOMAIN deployments, NEW receipts,
           ReceiptsOf(root, deployments[root], receipts),
           CanMakeArtifacts(deployments[root], receipts),
           deployments[root].executed = Len(deployments[root].actions),
           NEW files, TrueFiles(deployments, files), AllWhole(files), Before(files, root)
    PROVE  LET d == deployments[root]
               new == makeContractDeploymentArtifacts(root, d, receipts, files)
               addresses == {c.address : c \in ToSet(Contracts(d))}
           IN /\ DOMAIN files \subseteq DOMAIN new
              /\ AddressesOf(root, KnownIn(new)) = addresses
              /\ Ambiguous(Contracts(d)) \/ AddressesOf(root, LatestIn(new)) = addresses
<1>1. PICK d, new, contracts, artifacts :
        /\ d = deployments[root] /\ contracts = Contracts(d)
        /\ new = makeContractDeploymentArtifacts(root, d, receipts, files)
        /\ artifacts = NewArtifacts(root, d, receipts)
  OBVIOUS
<1>2. d \in Deployment /\ root \in Nat
  BY <1>1 DEF DeploymentsOK
<1>3. contracts \in Seq(Contract(d)) /\ WithCode(d) = contracts
  BY <1>1, <1>2, ContractsInOrder, WithCodeFacts
<1>4. /\ DOMAIN artifacts = DOMAIN contracts
      /\ \A k \in DOMAIN contracts :
            artifacts[k].root = root /\ artifacts[k].address = contracts[k].address
  BY <1>1, <1>3, NewArtifactsAreTrue
<1>5. DOMAIN new = DOMAIN files \cup NewFileNames(d)
  BY <1>1 DEF makeContractDeploymentArtifacts
<1>6. \A name \in DOMAIN new \ NewFileNames(d) : new[name] = files[name]
  BY <1>1 DEF makeContractDeploymentArtifacts
<1>7. \A k \in DOMAIN contracts : FileName(contracts, k) \in NewFileNames(d)
  BY <1>3 DEF NewFileNames
<1>8. ASSUME NEW name \in NewFileNames(d)
      PROVE  \E added \in Seq(Artifact) :
                /\ added = AddedTo(name, root, d, receipts) /\ added # <<>>
                /\ \A a \in ToSet(added) : \E k \in DOMAIN contracts :
                      FileName(contracts, k) = name /\ a = artifacts[k]
                /\ \A k \in DOMAIN contracts :
                      FileName(contracts, k) = name => artifacts[k] \in ToSet(added)
  BY <1>1, <1>3, <1>8, AddedFacts
<1>9. ASSUME NEW name \in NewFileNames(d)
      PROVE  \E earlier \in Seq(Artifact) :
                /\ earlier = Earlier(files, name)
                /\ Known(new[name]) = earlier \o AddedTo(name, root, d, receipts)
                /\ new[name].artifact = Last(earlier \o AddedTo(name, root, d, receipts))
  BY <1>1, <1>9, FileGrows
<1>10. ASSUME NEW name \in DOMAIN files, NEW a \in ToSet(Known(files[name]))
       PROVE  a.root < root
  BY DEF AllWhole, Before
<1>11. ASSUME NEW name \in DOMAIN new, NEW a \in ToSet(Known(new[name])), a.root = root
       PROVE  \E k \in DOMAIN contracts : a = artifacts[k] /\ FileName(contracts, k) = name
  <2>1. name \in NewFileNames(d)
    <3>1. SUFFICES ASSUME name \notin NewFileNames(d) PROVE FALSE
      OBVIOUS
    <3>2. name \in DOMAIN files /\ new[name] = files[name]
      BY <1>5, <1>6, <3>1
    <3> QED
      BY <1>2, <1>10, <1>11, <3>2
  <2>2. PICK added \in Seq(Artifact) :
          /\ added = AddedTo(name, root, d, receipts)
          /\ \A b \in ToSet(added) : \E k \in DOMAIN contracts :
                FileName(contracts, k) = name /\ b = artifacts[k]
    BY <1>8, <2>1
  <2>3. PICK earlier \in Seq(Artifact) :
          earlier = Earlier(files, name) /\ Known(new[name]) = earlier \o added
    BY <1>9, <2>1, <2>2
  <2>4. PICK known : known = earlier \o added
    OBVIOUS
  <2>5. PICK i \in DOMAIN known : a = known[i]
    BY <2>3, <2>4 DEF ToSet
  <2>6. CASE i \in DOMAIN earlier
    <3>1. a = earlier[i]
      BY <2>4, <2>5, <2>6
    <3>2. name \in DOMAIN files /\ earlier = Known(files[name])
      BY <2>3, <2>6 DEF Earlier
    <3>3. a.root < root
      BY <1>10, <2>6, <3>1, <3>2 DEF ToSet
    <3> QED
      BY <1>2, <1>11, <3>3
  <2>7. CASE i \notin DOMAIN earlier
    <3>1. i - Len(earlier) \in DOMAIN added /\ a = added[i - Len(earlier)]
      BY <2>4, <2>5, <2>7
    <3>2. a \in ToSet(added)
      BY <3>1 DEF ToSet
    <3> QED
      BY <2>2, <3>2
  <2> QED
    BY <2>6, <2>7
<1>12. ASSUME NEW k \in DOMAIN contracts
       PROVE  /\ FileName(contracts, k) \in DOMAIN new
              /\ artifacts[k] \in ToSet(Known(new[FileName(contracts, k)]))
  <2>1. PICK name \in NewFileNames(d) : name = FileName(contracts, k)
    BY <1>7
  <2>2. PICK added \in Seq(Artifact) :
          added = AddedTo(name, root, d, receipts) /\ artifacts[k] \in ToSet(added)
    BY <1>8, <2>1
  <2>3. PICK earlier \in Seq(Artifact) : Known(new[name]) = earlier \o added
    BY <1>9, <2>2
  <2>4. PICK i \in DOMAIN added : artifacts[k] = added[i]
    BY <2>2 DEF ToSet
  <2>5. /\ Len(earlier) + i \in DOMAIN (earlier \o added)
        /\ (earlier \o added)[Len(earlier) + i] = added[i]
    BY <2>4
  <2>6. artifacts[k] \in ToSet(earlier \o added)
    BY <2>4, <2>5 DEF ToSet
  <2> QED
    BY <1>5, <2>1, <2>3, <2>6
<1>13. ASSUME NEW name \in NewFileNames(d)
       PROVE  new[name].artifact \in ToSet(AddedTo(name, root, d, receipts))
  <2>1. PICK added \in Seq(Artifact) :
          added = AddedTo(name, root, d, receipts) /\ added # <<>>
    BY <1>8
  <2>2. PICK earlier \in Seq(Artifact) : new[name].artifact = Last(earlier \o added)
    BY <1>9, <2>1
  <2>3. /\ Len(earlier) \in Nat /\ Len(added) \in Nat /\ Len(added) > 0
        /\ Len(earlier \o added) = Len(earlier) + Len(added)
        /\ (earlier \o added)[Len(earlier) + Len(added)] = added[Len(added)]
        /\ Len(added) \in DOMAIN added
    BY <2>1
  <2> QED
    BY <2>1, <2>2, <2>3 DEF Last, ToSet
<1>14. ASSUME NEW name \in DOMAIN new
       PROVE  new[name].artifact \in ToSet(Known(new[name]))
  <2>1. TrueFiles(deployments, new) /\ AllWhole(new)
    BY <1>1, NewFiles
  <2>2. TrueFile(deployments, name, new[name])
    BY <2>1 DEF TrueFiles, AllWhole
  <2>3. new[name].history \in Seq(Artifact) /\ new[name].artifact \in Artifact
    BY <2>2 DEF TrueFile
  <2>4. PICK known, last : known = Known(new[name]) /\ last = Len(new[name].history) + 1
    OBVIOUS
  <2>5. last \in DOMAIN known /\ known[last] = new[name].artifact
    BY <2>3, <2>4 DEF Known
  <2> QED
    BY <2>4, <2>5 DEF ToSet
<1>15. \A k \in DOMAIN contracts : contracts[k] \in ToSet(contracts)
  BY DEF ToSet
<1> DEFINE addresses == {c.address : c \in ToSet(contracts)}
<1>16. ASSUME NEW name \in DOMAIN new,
              NEW a \in ToSet(Known(new[name])), a.root = root
       PROVE  a.address \in addresses
  <2>1. PICK k \in DOMAIN contracts : a = artifacts[k]
    BY <1>11, <1>16
  <2> QED
    BY <1>4, <1>15, <2>1
<1>17. AddressesOf(root, KnownIn(new)) \subseteq addresses
  <2>1. ASSUME NEW a \in KnownIn(new), a.root = root PROVE a.address \in addresses
    <3>1. PICK name \in DOMAIN new : a \in ToSet(Known(new[name]))
      BY <2>1 DEF KnownIn
    <3> QED
      BY <1>16, <2>1, <3>1
  <2> HIDE DEF addresses
  <2> QED
    BY <2>1 DEF AddressesOf
<1>18. addresses \subseteq AddressesOf(root, KnownIn(new))
  <2>1. ASSUME NEW c \in ToSet(contracts) PROVE c.address \in AddressesOf(root, KnownIn(new))
    <3>1. PICK k \in DOMAIN contracts : c = contracts[k]
      BY DEF ToSet
    <3>2. artifacts[k] \in KnownIn(new)
      BY <1>12 DEF KnownIn
    <3>3. artifacts[k].root = root /\ artifacts[k].address = c.address
      BY <1>4, <3>1
    <3> QED
      BY <3>2, <3>3 DEF AddressesOf
  <2> QED
    BY <2>1
<1>19. AddressesOf(root, LatestIn(new)) \subseteq addresses
  <2>1. ASSUME NEW a \in LatestIn(new), a.root = root PROVE a.address \in addresses
    <3>1. PICK name \in DOMAIN new : a = new[name].artifact
      BY <2>1 DEF LatestIn
    <3> QED
      BY <1>14, <1>16, <2>1, <3>1
  <2> HIDE DEF addresses
  <2> QED
    BY <2>1 DEF AddressesOf
<1>20. ASSUME ~ Ambiguous(contracts)
       PROVE  addresses \subseteq AddressesOf(root, LatestIn(new))
  <2>1. ASSUME NEW c \in ToSet(contracts) PROVE c.address \in AddressesOf(root, LatestIn(new))
    <3>1. PICK k \in DOMAIN contracts : c = contracts[k]
      BY DEF ToSet
    <3>2. PICK name \in NewFileNames(d) : name = FileName(contracts, k)
      BY <1>7
    <3>3. PICK j \in DOMAIN contracts :
            FileName(contracts, j) = name /\ new[name].artifact = artifacts[j]
      BY <1>8, <1>13
    <3>4. j = k
      <4>1. \A e \in Contract(d) : e.name \in Names
        BY <1>2, ContractFacts
      <4> QED
        BY <1>3, <1>20, <3>2, <3>3, <4>1, FileNamesDiffer
    <3>5. artifacts[k] \in LatestIn(new)
      BY <1>12, <3>2, <3>3, <3>4 DEF LatestIn
    <3>6. artifacts[k].root = root /\ artifacts[k].address = c.address
      BY <1>4, <3>1
    <3> QED
      BY <3>5, <3>6 DEF AddressesOf
  <2> QED
    BY <2>1
<1> HIDE DEF addresses
<1> QED
  BY <1>1, <1>5, <1>17, <1>18, <1>19, <1>20 DEF addresses

OnDisk(files, record, kind, name) ==
    name \in DOMAIN files[kind] /\ files[kind][name] = record[kind][name]

(* The contracts of a deployment are in the files. *)
Recorded(root, d, files) ==
    LET addresses == {c.address : c \in ToSet(Contracts(d))}
    IN /\ AddressesOf(root, KnownIn(files)) = addresses
       /\ Ambiguous(Contracts(d)) \/ AddressesOf(root, LatestIn(files)) = addresses

(* A record in which the deployment `root` is complete. *)
CompleteRecord(root, d, record) ==
    /\ Recorded(root, d, record.contracts)
    /\ root \in DOMAIN record.execution
    /\ record.execution[root].transactions = Receipts(root, d)

(* What is not on the disk yet is still to be written, and the disk has no *)
(* contract that the record does not have.                                 *)
WrittenSoFar(root, d, files, present, record, todo) ==
    /\ DOMAIN files.contracts \subseteq DOMAIN record.contracts
    /\ \A name \in DOMAIN record.contracts :
          <<"contracts", name>> \in ToSet(todo) \/ OnDisk(files, record, "contracts", name)
    /\ <<"execution", root>> \in ToSet(todo) \/ OnDisk(files, record, "execution", root)
    /\ <<"inputs", d.input>> \in ToSet(todo) \/ d.input \in present

InputDirectories == {"compiler-inputs-local", "compiler-inputs"}

(* What `sphinx deploy` records has succeeded, and the record is complete. *)
CompleteOK ==
    command.mode # "Platform" =>
       /\ deployments[command.root].executed = Len(deployments[command.root].actions)
       /\ command.pc \in {"write", "recorded"} =>
             /\ CompleteRecord(command.root, deployments[command.root], command.record)
             /\ WrittenSoFar(command.root, deployments[command.root], disk[Directory],
                             DOMAIN inputs[getCompilerInputDirName(command.mode)],
                             command.record, command.todo)
       /\ command.pc = "recorded" => command.todo = <<>>

CompleteInv ==
    /\ inputs = [directory \in InputDirectories |-> inputs[directory]]
    /\ CompleteOK

(* One file less is to be written and one more is on the disk.             *)
LEMMA WrittenMore ==
    ASSUME NEW root, NEW d, NEW record, NEW T, NEW todo \in Seq(T), todo # <<>>,
           NEW files, NEW present, WrittenSoFar(root, d, files, present, record, todo),
           NEW files1, NEW present1, present \subseteq present1,
           DOMAIN files1.contracts \subseteq DOMAIN record.contracts,
           \A kind \in {"contracts", "execution"} : \A name :
              OnDisk(files, record, kind, name) \/ Head(todo) = <<kind, name>> =>
                 OnDisk(files1, record, kind, name),
           \A i : Head(todo) = <<"inputs", i>> => i \in present1
    PROVE  WrittenSoFar(root, d, files1, present1, record, Tail(todo))
<1>1. ASSUME NEW item \in ToSet(todo), item # Head(todo)
      PROVE  item \in ToSet(Tail(todo))
  <2>1. PICK k \in DOMAIN todo : item = todo[k]
    BY DEF ToSet
  <2>2. k # 1
    BY <1>1, <2>1
  <2>3. k - 1 \in DOMAIN Tail(todo) /\ Tail(todo)[k - 1] = item
    BY <2>1, <2>2
  <2> QED
    BY <2>3 DEF ToSet
<1>2. ASSUME NEW name \in DOMAIN record.contracts
      PROVE  <<"contracts", name>> \in ToSet(Tail(todo))
             \/ OnDisk(files1, record, "contracts", name)
  <2>1. PICK item : item = <<"contracts", name>>
    OBVIOUS
  <2>2. item \in ToSet(todo) \/ OnDisk(files, record, "contracts", name)
    BY <2>1 DEF WrittenSoFar
  <2> QED
    BY <1>1, <2>1, <2>2
<1>3. <<"execution", root>> \in ToSet(Tail(todo)) \/ OnDisk(files1, record, "execution", root)
  <2>1. PICK item : item = <<"execution", root>>
    OBVIOUS
  <2>2. item \in ToSet(todo) \/ OnDisk(files, record, "execution", root)
    BY <2>1 DEF WrittenSoFar
  <2> QED
    BY <1>1, <2>1, <2>2
<1>4. <<"inputs", d.input>> \in ToSet(Tail(todo)) \/ d.input \in present1
  <2>1. PICK item : item = <<"inputs", d.input>>
    OBVIOUS
  <2>2. item \in ToSet(todo) \/ d.input \in present
    BY <2>1 DEF WrittenSoFar
  <2> QED
    BY <1>1, <2>1, <2>2
<1> QED
  BY <1>2, <1>3, <1>4 DEF WrittenSoFar

(* The directories stay, whatever is written to them.                      *)
LEMMA InputsStay ==
    ASSUME inputs = [directory \in InputDirectories |-> inputs[directory]],
           CommandOK, NEW torn \in BOOLEAN, Write(torn)
    PROVE  /\ inputs' = [directory \in InputDirectories |-> inputs'[directory]]
           /\ LET own == getCompilerInputDirName(command.mode)
              IN /\ DOMAIN inputs[own] \subseteq DOMAIN inputs'[own]
                 /\ Head(command.todo)[1] = "inputs" =>
                       Head(command.todo)[2] \in DOMAIN inputs'[own]
<1>1. PICK own \in InputDirectories : own = getCompilerInputDirName(command.mode)
  BY DEF InputDirectories, getCompilerInputDirName
<1>2. PICK kind, name : kind = Head(command.todo)[1] /\ name = Head(command.todo)[2]
  OBVIOUS
<1>3. CASE kind # "inputs"
  <2>1. UNCHANGED inputs
    BY <1>2, <1>3 DEF Write
  <2> QED
    BY <1>1, <1>2, <1>3, <2>1
<1>4. CASE kind = "inputs" /\ name \in DOMAIN inputs[own]
  <2>1. UNCHANGED inputs
    BY <1>1, <1>2, <1>4 DEF Write
  <2> QED
    BY <1>1, <1>2, <1>4, <2>1
<1>5. CASE kind = "inputs" /\ name \notin DOMAIN inputs[own]
  <2>1. PICK files : files = With(inputs[own], name, [whole |-> ~torn])
    OBVIOUS
  <2>2. inputs' = [inputs EXCEPT ![own] = files]
    BY <1>1, <1>2, <1>5, <2>1 DEF Write
  <2>3. DOMAIN files = DOMAIN inputs[own] \cup {name}
    BY <2>1 DEF With
  <2>4. /\ inputs' = [directory \in InputDirectories |-> inputs'[directory]]
        /\ inputs'[own] = files
    BY <1>1, <2>2
  <2> QED
    BY <1>1, <1>2, <2>3, <2>4
<1> QED
  BY <1>3, <1>4, <1>5

(* A compiler input is torn only if a command was interrupted.             *)
InputsOK ==
    /\ exits \in Nat
    /\ exits = 0 => \A directory \in InputDirectories :
                      \A i \in DOMAIN inputs[directory] : inputs[directory][i].whole

LEMMA InputsStep ==
    ASSUME CompleteInv, InputsOK, [Next]_vars
    PROVE  InputsOK'
<1>1. CASE UNCHANGED <<inputs, exits>>
  BY <1>1 DEF InputsOK
<1>2. CASE Exit
  BY <1>2 DEF Exit, InputsOK
<1>3. CASE writeDeploymentArtifacts
  <2>1. Write(FALSE) /\ UNCHANGED exits
    BY <1>3 DEF writeDeploymentArtifacts
  <2>2. PICK own \in InputDirectories : own = getCompilerInputDirName(command.mode)
    BY DEF InputDirectories, getCompilerInputDirName
  <2>3. PICK name : name = Head(command.todo)[2]
    OBVIOUS
  <2>4. UNCHANGED inputs
        \/ inputs' = [inputs EXCEPT ![own] = With(inputs[own], name, [whole |-> ~FALSE])]
    BY <2>1, <2>2, <2>3 DEF Write
  <2>5. CASE UNCHANGED inputs
    BY <1>1, <2>1, <2>5
  <2>6. CASE inputs' = [inputs EXCEPT ![own] = With(inputs[own], name, [whole |-> ~FALSE])]
    <3>1. PICK files : files = With(inputs[own], name, [whole |-> ~FALSE])
      OBVIOUS
    <3>2. \A i \in DOMAIN files : files[i].whole \/ (i \in DOMAIN inputs[own] /\ files[i] = inputs[own][i])
      BY <3>1 DEF With
    <3>3. /\ inputs'[own] = files
          /\ \A directory \in InputDirectories :
                directory # own => inputs'[directory] = inputs[directory]
      BY <2>2, <2>6, <3>1 DEF CompleteInv
    <3> QED
      BY <2>1, <3>2, <3>3 DEF InputsOK
  <2> QED
    BY <2>4, <2>5, <2>6
<1> QED
  BY <1>1, <1>2, <1>3
  DEF Next, vars, artifactVars, ExecuteDeployment, WebsiteRecords,
      readDeploymentArtifactsForNetwork, MakeArtifacts, fetchRemoteArtifacts, RemoveTorn,
      EndCommand, VerifyDeployment, VerifySystem, VerifyOnPlatform, EndVerification

(* The first file of the list is on the disk, and those that were there    *)
(* are as they were.                                                       *)
LEMMA FileWritten ==
    ASSUME DiskOK, CommandOK, RunOK, command.pc = "write", Write(FALSE),
           DOMAIN disk[Directory].contracts \subseteq DOMAIN command.record.contracts
    PROVE  /\ DOMAIN disk'[Directory].contracts \subseteq DOMAIN command.record.contracts
           /\ \A kind \in {"contracts", "execution"} : \A name :
                 OnDisk(disk[Directory], command.record, kind, name)
                 \/ Head(command.todo) = <<kind, name>> =>
                    OnDisk(disk'[Directory], command.record, kind, name)
<1>1. PICK own \in {"live", "local"} : own = Directory
  BY DEF Directory, getNetworkNameDirectory
<1>2. PICK record, item : record = command.record /\ item = Head(command.todo)
  OBVIOUS
<1>3. item \in Items(record)
  BY <1>2 DEF RunOK
<1>4. PICK old : old = disk[own]
  OBVIOUS
<1>5. old = [contracts |-> old.contracts, execution |-> old.execution]
  BY <1>1, <1>4 DEF DiskOK, RecordOK
<1>6. CASE item[1] = "inputs"
  <2>1. UNCHANGED disk
    BY <1>2, <1>6 DEF Write
  <2>2. ASSUME NEW kind \in {"contracts", "execution"}, NEW name, item = <<kind, name>>
        PROVE  FALSE
    BY <1>6, <2>2
  <2> QED
    BY <1>2, <2>1, <2>2
<1>7. ASSUME NEW kind \in {"contracts", "execution"}, NEW name, item = <<kind, name>>
      PROVE  /\ DOMAIN disk'[Directory].contracts \subseteq DOMAIN command.record.contracts
             /\ \A other \in {"contracts", "execution"} : \A n :
                   OnDisk(disk[Directory], command.record, other, n)
                   \/ item = <<other, n>> =>
                      OnDisk(disk'[Directory], command.record, other, n)
  <2>1. item[1] = kind /\ item[2] = name /\ kind # "inputs"
    BY <1>7
  <2>2. PICK files : files = With(old[kind], name, record[kind][name])
    OBVIOUS
  <2>3. disk' = [disk EXCEPT ![own][kind] = files]
    BY <1>1, <1>2, <1>4, <2>1, <2>2 DEF Write
  <2>4. PICK new : new = [old EXCEPT ![kind] = files]
    OBVIOUS
  <2>5. disk' = [disk EXCEPT ![own] = new]
    BY <1>4, <2>3, <2>4
  <2>6. disk'[own] = new
    BY <1>1, <2>5 DEF DiskOK
  <2>7. new[kind] = files /\ \A other \in {"contracts", "execution"} : other # kind => new[other] = old[other]
    BY <1>5, <2>4
  <2>8. /\ DOMAIN files = DOMAIN old[kind] \cup {name} /\ files[name] = record[kind][name]
        /\ \A n \in DOMAIN old[kind] : n # name => files[n] = old[kind][n]
    BY <2>2 DEF With
  <2>9. ASSUME NEW other \in {"contracts", "execution"}, NEW n,
               OnDisk(old, record, other, n) \/ item = <<other, n>>
        PROVE  OnDisk(new, record, other, n)
    <3>1. CASE other # kind
      <4>1. item # <<other, n>>
        BY <2>1, <3>1
      <4> QED
        BY <2>7, <2>9, <3>1, <4>1 DEF OnDisk
    <3>2. CASE other = kind /\ n = name
      BY <2>7, <2>8, <3>2 DEF OnDisk
    <3>3. CASE other = kind /\ n # name
      <4>1. item # <<other, n>>
        BY <2>1, <3>3
      <4>2. n \in DOMAIN old[kind] /\ old[kind][n] = record[kind][n]
        BY <2>9, <3>3, <4>1 DEF OnDisk
      <4>3. n \in DOMAIN files /\ files[n] = record[kind][n]
        BY <2>8, <3>3, <4>2
      <4> QED
        BY <2>7, <3>3, <4>3 DEF OnDisk
    <3> QED
      BY <3>1, <3>2, <3>3
  <2>10. DOMAIN new.contracts \subseteq DOMAIN record.contracts
    <3>1. DOMAIN old.contracts \subseteq DOMAIN record.contracts
      BY <1>1, <1>2, <1>4
    <3>2. CASE kind = "contracts"
      <4>1. name \in DOMAIN record.contracts
        BY <1>3, <2>1, <3>2 DEF Items
      <4> QED
        BY <2>7, <2>8, <3>1, <3>2, <4>1
    <3>3. CASE kind # "contracts"
      BY <2>7, <3>1, <3>3
    <3> QED
      BY <3>2, <3>3
  <2> QED
    BY <1>1, <1>2, <1>4, <2>6, <2>9, <2>10
<1>8. item[1] = "inputs" \/ \E kind \in {"contracts", "execution"} : \E name : item = <<kind, name>>
  BY <1>3 DEF Items
<1> QED
  BY <1>2, <1>6, <1>7, <1>8

(* A command of `sphinx deploy` has a complete record from when it makes   *)
(* it, and ends with all of it written.                                    *)
LEMMA CompleteStep ==
    ASSUME DeploymentsOK, CommandOK, RecordsInv, CompleteInv, [Next]_vars
    PROVE  CompleteInv'
<1> USE DEF CompleteInv
<1>1. ASSUME UNCHANGED inputs, command'.mode = "Platform"
      PROVE  CompleteInv'
  BY <1>1 DEF CompleteOK
<1>2. ASSUME UNCHANGED <<deployments, inputs>>, command'.mode = command.mode,
             command'.root = command.root, command'.pc \notin {"write", "recorded"}
      PROVE  CompleteInv'
  BY <1>2 DEF CompleteOK
<1>3. CASE UNCHANGED artifactVars
  <2>1. UNCHANGED <<deployments, disk, inputs, command>>
    BY <1>3 DEF artifactVars
  <2>2. UNCHANGED Directory
    BY <2>1 DEF Directory
  <2> QED
    BY <2>1, <2>2 DEF CompleteOK
<1>4. ASSUME NEW mode \in ExecutionMode, NEW script \in Scripts,
             ExecuteDeployment(mode, script)
      PROVE  CompleteInv'
  <2>1. UNCHANGED inputs
    BY <1>4 DEF ExecuteDeployment
  <2>2. PICK n : n = Len(deployments')
    OBVIOUS
  <2>3. command' = IF mode # "Platform"
                   THEN [NoCommand EXCEPT !.pc = "read", !.mode = mode, !.root = n]
                   ELSE NoCommand
    BY <1>4, <2>2, ExecuteDeploymentKeeps
  <2>4. CASE mode = "Platform"
    <3>1. command'.mode = "Platform"
      BY <2>3, <2>4 DEF NoCommand
    <3> QED
      BY <1>1, <2>1, <3>1
  <2>5. CASE mode # "Platform"
    <3>1. command'.pc = "read" /\ command'.root = n
      BY <2>3, <2>5 DEF NoCommand
    <3>2. PICK executed \in 0 .. Len(script), failed \in BOOLEAN, taken \in BOOLEAN,
               input \in Inputs :
            /\ failed <=> executed < Len(script)
            /\ failed => mode = "Platform"
            /\ deployments' = Append(deployments,
                 [actions |-> script, mode |-> mode, executed |-> executed,
                  input |-> input, failed |-> failed, taken |-> taken])
      BY <1>4 DEF ExecuteDeployment
    <3>3. PICK d : d = [actions |-> script, mode |-> mode, executed |-> executed,
                        input |-> input, failed |-> failed, taken |-> taken]
      OBVIOUS
    <3>4. script \in Seq(Seq(Names))
      BY ArtifactsAssumption
    <3>5. executed = Len(script)
      BY <2>5, <3>2, <3>4
    <3>6. d.executed = Len(d.actions)
      BY <3>3, <3>5
    <3>7. deployments' = Append(deployments, d)
      BY <3>2, <3>3
    <3>8. deployments'[n] = d
      <4>1. deployments \in Seq(Deployment)
        BY DEF DeploymentsOK
      <4> QED
        BY <2>2, <3>7, <4>1
    <3> QED
      BY <2>1, <3>1, <3>6, <3>8 DEF CompleteOK
  <2> QED
    BY <2>4, <2>5
<1>5. ASSUME UNCHANGED inputs, command' = NoCommand PROVE CompleteInv'
  BY <1>1, <1>5 DEF NoCommand
<1>6. ASSUME NEW root \in DOMAIN deployments, WebsiteRecords(root)
      PROVE  CompleteInv'
  <2>1. UNCHANGED <<inputs, command>> /\ command.pc = "idle"
    BY <1>6 DEF WebsiteRecords
  <2>2. command' = NoCommand
    BY <2>1 DEF CommandOK
  <2> QED
    BY <1>5, <2>1, <2>2
<1>7. CASE readDeploymentArtifactsForNetwork
  <2>1. UNCHANGED <<deployments, inputs>>
    BY <1>7 DEF readDeploymentArtifactsForNetwork
  <2>2. PICK files : files = disk[Directory]
    OBVIOUS
  <2>3. command' = NoCommand \/ command' = [command EXCEPT !.pc = "make", !.record = files]
    BY <1>7, <2>2 DEF readDeploymentArtifactsForNetwork
  <2>4. CASE command' = [command EXCEPT !.pc = "make", !.record = files]
    <3>1. command'.pc = "make" /\ command'.mode = command.mode /\ command'.root = command.root
      BY <2>4 DEF CommandOK
    <3> QED
      BY <1>2, <2>1, <3>1
  <2> QED
    BY <1>5, <2>1, <2>3, <2>4
<1>8. CASE MakeArtifacts
  <2> DEFINE root == command.root
             d == deployments[root]
             receipts == Receipts(root, d)
             old == disk[Directory]
  <2>1. UNCHANGED <<deployments, disk, inputs, website>> /\ command.pc = "make"
    BY <1>8 DEF MakeArtifacts
  <2>2. /\ command.mode # "Platform" /\ root \in DOMAIN deployments
        /\ Before(old.contracts, root) /\ command.record = old
        /\ AllWhole(old.contracts) /\ RecordOK(deployments, old)
    <3>1. Directory \in {"live", "local"}
      BY DEF Directory, getNetworkNameDirectory
    <3> QED
      BY <2>1, <3>1 DEF RecordsInv, RunOK, CommandOK, DiskOK
  <2>3. d \in Deployment /\ root \in Nat
    BY <2>2 DEF DeploymentsOK
  <2>4. d.executed = Len(d.actions)
    BY <2>2 DEF CompleteOK
  <2>5. PICK new : new = makeContractDeploymentArtifacts(root, d, receipts, old.contracts)
    OBVIOUS
  <2>6. PICK after : after = [r \in DOMAIN old.execution \cup {root} |->
                                IF r = root THEN makeExecutionArtifact(root, receipts)
                                ELSE old.execution[r]]
    OBVIOUS
  <2>7. PICK record : record = [contracts |-> new, execution |-> after]
    OBVIOUS
  <2>8. makeDeploymentArtifacts(root, receipts, command.record) = record
    BY <2>2, <2>5, <2>6, <2>7 DEF makeDeploymentArtifacts
  <2>9. PICK todo : todo = Writes(record, {d.input})
    OBVIOUS
  <2>10. command' = [command EXCEPT !.pc = "write", !.record = record, !.todo = todo]
    BY <1>8, <2>8, <2>9 DEF MakeArtifacts
  <2>11. /\ command'.pc = "write" /\ command'.record = record /\ command'.todo = todo
         /\ command'.mode = command.mode /\ command'.root = root
    BY <2>10 DEF CommandOK
  <2>12. UNCHANGED Directory
    BY <2>11 DEF Directory
  <2>13. record.contracts = new /\ record.execution = after
    BY <2>7
  <2>14. TrueFiles(deployments, old.contracts)
    BY <2>2 DEF RecordOK
  <2>15. /\ DOMAIN old.contracts \subseteq DOMAIN new
         /\ Recorded(root, d, new)
    <3>1. PICK r, rs, files : r = root /\ rs = receipts /\ files = old.contracts
      OBVIOUS
    <3>2. /\ r \in DOMAIN deployments /\ TrueFiles(deployments, files)
          /\ deployments[r].executed = Len(deployments[r].actions)
          /\ AllWhole(files) /\ Before(files, r)
          /\ ReceiptsOf(r, deployments[r], rs) /\ CanMakeArtifacts(deployments[r], rs)
      BY <1>8, <2>2, <2>3, <2>4, <2>14, <3>1, ReceiptsType DEF MakeArtifacts
    <3>3. new = makeContractDeploymentArtifacts(r, deployments[r], rs, files)
      BY <2>5, <3>1
    <3>4. /\ DOMAIN files \subseteq DOMAIN new
          /\ Recorded(r, deployments[r], new)
      BY <3>2, <3>3, AllRecorded DEF Recorded
    <3> QED
      BY <3>1, <3>4
  <2>16. IsFiniteSet(DOMAIN new)
    <3>1. ReceiptsOf(root, d, receipts) /\ CanMakeArtifacts(d, receipts)
      BY <1>8, <2>3, ReceiptsType DEF MakeArtifacts
    <3>2. TrueFiles(deployments, new)
      BY <2>2, <2>5, <2>14, <3>1, NewFiles
    <3> QED
      BY <3>2 DEF TrueFiles
  <2>17. IsFiniteSet(DOMAIN after) /\ root \in DOMAIN after
         /\ after[root] = makeExecutionArtifact(root, receipts)
    <3>1. DOMAIN after = DOMAIN old.execution \cup {root}
      BY <2>6
    <3> QED
      BY <2>2, <2>6, <3>1, FS_AddElement DEF RecordOK
  <2>18. after[root].transactions = Receipts(root, d)
    BY <2>3, <2>17, ReceiptsAreSorted DEF makeExecutionArtifact
  <2>19. CompleteRecord(root, d, record)
    BY <2>13, <2>15, <2>17, <2>18 DEF CompleteRecord
  <2>20. /\ \A name \in DOMAIN new : <<"contracts", name>> \in ToSet(todo)
         /\ <<"execution", root>> \in ToSet(todo) /\ <<"inputs", d.input>> \in ToSet(todo)
    <3>1. PICK I : I = {d.input}
      OBVIOUS
    <3>2. IsFiniteSet(I) /\ d.input \in I
      BY <3>1, FS_Singleton
    <3> QED
      BY <2>9, <2>13, <2>16, <2>17, <3>1, <3>2, WritesElements
  <2>21. \A present : WrittenSoFar(root, d, old, present, record, todo)
    BY <2>13, <2>15, <2>20 DEF WrittenSoFar
  <2>22. deployments'[command'.root] = d /\ disk'[Directory'] = old
    BY <2>1, <2>11, <2>12
  <2> HIDE DEF old, d, receipts
  <2>23. CompleteOK'
    BY <2>4, <2>11, <2>19, <2>21, <2>22 DEF CompleteOK
  <2> QED
    BY <2>1, <2>23
<1>9. CASE fetchRemoteArtifacts
  <2>1. PICK todo : command' = [NoCommand EXCEPT !.pc = "write", !.record = website, !.todo = todo]
    BY <1>9 DEF fetchRemoteArtifacts
  <2>2. command'.mode = "Platform" /\ UNCHANGED inputs
    BY <1>9, <2>1 DEF NoCommand, fetchRemoteArtifacts
  <2> QED
    BY <1>1, <2>2
<1>10. CASE writeDeploymentArtifacts
  <2>1. UNCHANGED <<deployments, website>> /\ command.pc = "write" /\ Write(FALSE)
    BY <1>10 DEF writeDeploymentArtifacts
  <2>2. PICK todo : todo = Tail(command.todo)
    OBVIOUS
  <2>3. PICK pc : pc = IF Len(command.todo) = 1 THEN "recorded" ELSE command.pc
    OBVIOUS
  <2>4. command' = [command EXCEPT !.todo = todo, !.pc = pc]
    BY <1>10, <2>2, <2>3 DEF writeDeploymentArtifacts
  <2>5. /\ command'.pc = pc /\ command'.record = command.record /\ command'.todo = todo
        /\ command'.mode = command.mode /\ command'.root = command.root
    BY <2>4 DEF CommandOK
  <2>6. UNCHANGED Directory
    BY <2>5 DEF Directory
  <2>7. PICK T, all : T = Items(command.record) /\ all = command.todo
    OBVIOUS
  <2>8. all \in Seq(T) /\ all # <<>>
    BY <2>1, <2>7 DEF RecordsInv, RunOK
  <2>9. pc = "recorded" => todo = <<>>
    <3>1. Len(all) = 1 => Tail(all) = <<>>
      <4>1. PICK rest : rest = Tail(all)
        OBVIOUS
      <4>2. rest \in Seq(T) /\ Len(rest) = Len(all) - 1
        BY <2>8, <4>1
      <4>3. Len(rest) = 0 => rest = <<>>
        BY <4>2
      <4> QED
        BY <4>1, <4>2, <4>3
    <3> QED
      BY <2>1, <2>2, <2>3, <2>7, <3>1
  <2>10. inputs' = [directory \in InputDirectories |-> inputs'[directory]]
    BY <2>1, InputsStay
  <2>11. ASSUME command.mode # "Platform"
         PROVE  WrittenSoFar(command.root, deployments[command.root], disk'[Directory],
                             DOMAIN inputs'[getCompilerInputDirName(command.mode)],
                             command.record, todo)
    <3> DEFINE root == command.root
               d == deployments[root]
               files == disk[Directory]
               files1 == disk'[Directory]
               record == command.record
    <3>1. PICK present, present1 :
            /\ present = DOMAIN inputs[getCompilerInputDirName(command.mode)]
            /\ present1 = DOMAIN inputs'[getCompilerInputDirName(command.mode)]
      OBVIOUS
    <3>2. WrittenSoFar(root, d, files, present, record, all)
      BY <2>1, <2>7, <2>11, <3>1 DEF CompleteOK
    <3>3. /\ DOMAIN files1.contracts \subseteq DOMAIN record.contracts
          /\ \A kind \in {"contracts", "execution"} : \A name :
                OnDisk(files, record, kind, name) \/ Head(all) = <<kind, name>> =>
                   OnDisk(files1, record, kind, name)
      <4>1. DOMAIN files.contracts \subseteq DOMAIN record.contracts
        BY <3>2 DEF WrittenSoFar
      <4> QED
        BY <2>1, <2>7, <4>1, FileWritten DEF RecordsInv
    <3>4. /\ present \subseteq present1
          /\ Head(all)[1] = "inputs" => Head(all)[2] \in present1
      BY <2>1, <2>7, <3>1, InputsStay
    <3>5. ASSUME NEW i, Head(all) = <<"inputs", i>> PROVE i \in present1
      <4>1. Head(all)[1] = "inputs" /\ Head(all)[2] = i
        BY <3>5
      <4> QED
        BY <3>4, <4>1
    <3> HIDE DEF files, files1, record, root, d
    <3>6. WrittenSoFar(root, d, files1, present1, record, Tail(all))
      BY <2>8, <3>2, <3>3, <3>4, <3>5, WrittenMore
    <3> QED
      BY <2>2, <2>7, <3>1, <3>6 DEF files1, record, root, d
  <2>12. pc \in {"write", "recorded"}
    BY <2>1, <2>3
  <2>13. CompleteOK'
    <3>1. SUFFICES ASSUME command.mode # "Platform"
                   PROVE  CompleteOK'
      BY <2>5 DEF CompleteOK
    <3>2. /\ deployments[command.root].executed = Len(deployments[command.root].actions)
          /\ CompleteRecord(command.root, deployments[command.root], command.record)
      BY <2>1, <3>1 DEF CompleteOK
    <3> QED
      BY <2>1, <2>5, <2>6, <2>9, <2>11, <3>1, <3>2 DEF CompleteOK
  <2> QED
    BY <2>10, <2>13
<1>11. CASE Exit
  <2>1. command' = NoCommand /\ (UNCHANGED inputs \/ Write(TRUE))
    BY <1>11 DEF Exit
  <2>2. inputs' = [directory \in InputDirectories |-> inputs'[directory]]
    BY <2>1, InputsStay
  <2>3. CompleteOK'
    BY <2>1 DEF CompleteOK, NoCommand
  <2> QED
    BY <2>2, <2>3
<1>12. ASSUME NEW directory \in DOMAIN disk, NEW kind \in {"contracts", "execution"},
              NEW name, RemoveTorn(directory, kind, name)
       PROVE  CompleteInv'
  <2>1. UNCHANGED <<inputs, command>> /\ command.pc = "idle"
    BY <1>12 DEF RemoveTorn
  <2>2. command' = NoCommand
    BY <2>1 DEF CommandOK
  <2> QED
    BY <1>5, <2>1, <2>2
<1>13. CASE EndCommand
  BY <1>5, <1>13 DEF EndCommand
<1>14. CASE VerifyDeployment
  <2>1. command' = [command EXCEPT !.pc = "verify"] /\ UNCHANGED <<deployments, inputs>>
    BY <1>14 DEF VerifyDeployment
  <2>2. command'.pc = "verify" /\ command'.mode = command.mode /\ command'.root = command.root
    BY <2>1 DEF CommandOK
  <2> QED
    BY <1>2, <2>1, <2>2
<1>15. ASSUME NEW root \in DOMAIN deployments, VerifyOnPlatform(root)
       PROVE  CompleteInv'
  BY <1>3, <1>15 DEF VerifyOnPlatform
<1>16. CASE VerifySystem
  BY <1>3, <1>16 DEF VerifySystem
<1>17. CASE EndVerification
  <2>1. UNCHANGED <<deployments, disk, inputs, website, exits>>
        /\ (UNCHANGED command \/ command' = NoCommand)
    BY <1>17 DEF EndVerification
  <2>2. CASE UNCHANGED command
    BY <1>3, <2>1, <2>2 DEF artifactVars
  <2> QED
    BY <1>5, <2>1, <2>2
<1>18. CASE UNCHANGED vars
  BY <1>3, <1>18 DEF vars
<1> QED
  BY <1>3, <1>4, <1>6, <1>7, <1>8, <1>9, <1>10, <1>11, <1>12, <1>13, <1>14, <1>15,
     <1>16, <1>17, <1>18 DEF Next

-----------------------------------------------------------------------------
(* Theorems *)

LEMMA InitEstablishes ==
    ASSUME Init
    PROVE  DeploymentsOK /\ CommandOK /\ VerificationInv /\ RecordsInv
<1> USE DEF Init, ArtifactsInit, VerificationInit
<1>1. DeploymentsOK
  BY DEF DeploymentsOK
<1>2. CommandOK
  BY DEF CommandOK, NoCommand, CommandPhases, ExecutionMode
<1>3. VerificationInv
  BY DEF VerificationInv, NothingKnown, NoLoop, LoopOK, LoopType, Callers, NoneSkipped, Truthful
<1>4. RecordOK(deployments, NoFiles) /\ AllWhole(NoFiles.contracts)
  BY FS_EmptySet DEF NoFiles, RecordOK, TrueFiles, AllWhole
<1>5. DiskOK
  BY <1>4 DEF DiskOK
<1>6. WebsiteOK
  BY <1>4 DEF WebsiteOK, NoFiles
<1>7. RunOK
  BY DEF RunOK, NoCommand
<1> QED
  BY <1>1, <1>2, <1>3, <1>5, <1>6, <1>7 DEF RecordsInv

(* Whatever the explorer answers, in whatever order, a contract that is    *)
(* reported as verified is verified or has no code.                        *)
THEOREM VerifiedAsReported == Spec => []ReportedAsVerified
<1>1. VerificationInv => ReportedAsVerified
  BY DEF VerificationInv, LoopOK, LoopType, Truthful, ReportedAsVerified
<1> QED
  BY <1>1, InitEstablishes, CommandStep, VerificationStep, PTL DEF Spec

(* A loop over any number of contracts that ends without throwing has      *)
(* verified each one or tried it as often as the caller promises.          *)
THEOREM NoContractSkipped == Spec => []NoContractIsLeftOut
<1>1. VerificationInv => NoContractIsLeftOut
  <2>1. ASSUME VerificationInv, loop.pc = "done"
        PROVE  \A k \in DOMAIN loop.contracts : Settled(loop, k)
    BY <2>1 DEF VerificationInv, NoneSkipped, LoopOK, LoopType
  <2> QED
    BY <2>1, Zenon DEF NoContractIsLeftOut, Settled
<1> QED
  BY <1>1, InitEstablishes, CommandStep, VerificationStep, PTL DEF Spec

(* What the project's directory and the platform say of a contract is what *)
(* happened: who deployed it, in which transaction, and in which order.    *)
THEOREM RecordsTellTheTruth == Spec => []RecordsAreTrue
<1>1. RecordsInv => RecordsAreTrue
  <2>1. SUFFICES ASSUME RecordsInv,
                        NEW files \in {disk["live"], disk["local"], website},
                        NEW name \in DOMAIN files.contracts, files.contracts[name].whole
                 PROVE  \A k \in DOMAIN Known(files.contracts[name]) :
                           LET known == Known(files.contracts[name])
                               d == deployments[known[k].root]
                               action == known[k].address[1]
                           IN /\ action <= d.executed
                              /\ d.actions[action][known[k].address[2]] = known[k].name
                              /\ \/ name = known[k].name
                                 \/ name = Numbered(known[k].name, Last(name.numbers))
                              /\ known[k].receipt.root = known[k].root
                              /\ action \in known[k].receipt.succeeded
                              /\ k > 1 => isDeployedEarlier(known[k - 1], known[k])
    BY DEF RecordsAreTrue
  <2>2. TrueFiles(deployments, files.contracts)
    BY <2>1 DEF RecordsInv, DiskOK, WebsiteOK, RecordOK
  <2>3. TrueFile(deployments, name, files.contracts[name])
    BY <2>1, <2>2 DEF TrueFiles
  <2> QED
    BY <2>3 DEF TrueFile, TrueArtifact
<1> QED
  BY <1>1, InitEstablishes, CommandStep, RecordsStep, PTL DEF Spec

(* No deployment makes `sphinx deploy` forget an earlier one.              *)
THEOREM HistoryIsKept == Spec => NothingForgotten
<1> DEFINE Kept == \A directory \in DOMAIN disk :
          \A name \in DOMAIN disk[directory].contracts :
             LET before == disk[directory].contracts[name]
                 after == disk'[directory].contracts[name]
             IN /\ command.pc = "write" /\ command.mode # "Platform"
                /\ before.whole /\ after.whole
                => IsPrefix(Known(before), Known(after))
<1>1. ASSUME DeploymentsOK, CommandOK, RecordsInv, [Next]_vars
      PROVE  [Kept]_artifactVars
  <2>1. SUFFICES ASSUME NEW directory \in DOMAIN disk,
                        NEW name \in DOMAIN disk[directory].contracts,
                        command.pc = "write", command.mode # "Platform",
                        disk[directory].contracts[name].whole,
                        disk'[directory].contracts[name].whole,
                        ~ UNCHANGED artifactVars
                 PROVE  IsPrefix(Known(disk[directory].contracts[name]),
                                 Known(disk'[directory].contracts[name]))
    BY Zenon
  <2>2. writeDeploymentArtifacts \/ Exit
    <3>1. ~ UNCHANGED vars
      BY <2>1 DEF vars
    <3> QED
      BY <1>1, <2>1, <3>1
      DEF Next, ExecuteDeployment, WebsiteRecords, readDeploymentArtifactsForNetwork,
          MakeArtifacts, fetchRemoteArtifacts, RemoveTorn, EndCommand, VerifyDeployment,
          VerifySystem, VerifyOnPlatform, EndVerification, artifactVars
  <2>3. PICK torn \in BOOLEAN : (UNCHANGED disk \/ Write(torn)) /\ UNCHANGED deployments
    BY <2>2 DEF writeDeploymentArtifacts, Exit
  <2>4. directory \in {"live", "local"} /\ DiskOK /\ RunOK
    BY <1>1 DEF RecordsInv, DiskOK
  <2>5. \A other \in {"live", "local"} : TrueFiles(deployments, disk[other].contracts)
    BY <2>4 DEF DiskOK, RecordOK
  <2>6. TrueFile(deployments, name, disk[directory].contracts[name])
    BY <2>1, <2>4, <2>5 DEF TrueFiles
  <2>7. IsPrefix(Known(disk[directory].contracts[name]), Known(disk[directory].contracts[name]))
    <3>1. Known(disk[directory].contracts[name]) \in Seq(Artifact)
      BY <2>6 DEF TrueFile, Known
    <3> QED
      BY <3>1, PrefixOfItself
  <2>8. CASE disk'[directory].contracts = disk[directory].contracts
    BY <2>7, <2>8
  <2>9. ASSUME NEW written \in DOMAIN command.record.contracts, directory = Directory,
               disk'[directory].contracts =
                  With(disk[directory].contracts, written,
                       IF torn THEN Torn ELSE command.record.contracts[written])
        PROVE  IsPrefix(Known(disk[directory].contracts[name]),
                        Known(disk'[directory].contracts[name]))
    <3>1. disk'[directory].contracts[name] =
             IF name = written THEN IF torn THEN Torn ELSE command.record.contracts[written]
             ELSE disk[directory].contracts[name]
      BY <2>9 DEF With
    <3>2. CASE name = written
      <4>1. ~torn
        BY <2>1, <3>1, <3>2 DEF Torn
      <4>2. Keeps(disk[directory].contracts, command.record.contracts)
        BY <2>1, <2>4, <2>9 DEF RunOK
      <4> QED
        BY <2>1, <3>1, <3>2, <4>1, <4>2 DEF Keeps
    <3>3. CASE name # written
      BY <2>7, <3>1, <3>3
    <3> QED
      BY <3>2, <3>3
  <2>10. CASE UNCHANGED disk
    BY <2>8, <2>10
  <2>11. CASE Write(torn)
    BY <1>1, <2>1, <2>3, <2>4, <2>8, <2>9, <2>11, WriteEffect
  <2> QED
    BY <2>3, <2>10, <2>11
<1> QED
  BY <1>1, InitEstablishes, CommandStep, RecordsStep, PTL DEF Spec, NothingForgotten

(* When `sphinx deploy` says that the artifacts are written, each contract *)
(* of the deployment, however many share a name, is in a file, and on top  *)
(* of one if no name is another with a number; the transactions are all    *)
(* there as they were mined, after any interruptions of earlier commands;  *)
(* and so is the compiler input, in full unless there was an interruption. *)
THEOREM NothingIsMissing == Spec => []RecordsAreComplete
<1>1. Init => CompleteInv /\ InputsOK
  BY DEF Init, ArtifactsInit, NoCommand, CompleteInv, CompleteOK, InputsOK, InputDirectories
<1>2. CompleteInv /\ InputsOK => RecordsAreComplete
  <2>1. SUFFICES ASSUME CompleteInv, InputsOK, command.pc = "recorded", command.mode # "Platform"
                 PROVE  RecordsAreComplete
    BY DEF RecordsAreComplete
  <2> DEFINE root == command.root
             d == deployments[root]
             files == disk[Directory]
             record == command.record
             present == DOMAIN inputs[getCompilerInputDirName(command.mode)]
  <2>2. /\ CompleteRecord(root, d, record)
        /\ WrittenSoFar(root, d, files, present, record, command.todo)
        /\ command.todo = <<>>
    BY <2>1 DEF CompleteInv, CompleteOK
  <2>3. ToSet(command.todo) = {}
    BY <2>2 DEF ToSet
  <2> HIDE DEF files, record, present, d, root
  <2>4. /\ DOMAIN files.contracts \subseteq DOMAIN record.contracts
        /\ \A name \in DOMAIN record.contracts : OnDisk(files, record, "contracts", name)
        /\ OnDisk(files, record, "execution", root)
        /\ d.input \in present
    BY <2>2, <2>3 DEF WrittenSoFar
  <2>5. /\ DOMAIN files.contracts = DOMAIN record.contracts
        /\ \A name \in DOMAIN record.contracts :
              files.contracts[name] = record.contracts[name]
        /\ files.execution[root] = record.execution[root]
    BY <2>4 DEF OnDisk
  <2>6. /\ KnownIn(files.contracts) = KnownIn(record.contracts)
        /\ LatestIn(files.contracts) = LatestIn(record.contracts)
    BY <2>5 DEF KnownIn, LatestIn
  <2>7. /\ Recorded(root, d, files.contracts)
        /\ files.execution[root].transactions = Receipts(root, d)
    BY <2>2, <2>5, <2>6 DEF CompleteRecord, Recorded
  <2>8. inputs[getCompilerInputDirName(command.mode)][d.input].whole \/ exits > 0
    <3>1. getCompilerInputDirName(command.mode) \in InputDirectories
      BY DEF getCompilerInputDirName, InputDirectories
    <3> QED
      BY <2>1, <2>4, <3>1 DEF InputsOK, present
  <2> QED
    BY <2>4, <2>7, <2>8 DEF RecordsAreComplete, Recorded, files, record, present, d, root
<1> QED
  BY <1>1, <1>2, InitEstablishes, CommandStep, RecordsStep, CompleteStep, InputsStep, PTL DEF Spec

=============================================================================
