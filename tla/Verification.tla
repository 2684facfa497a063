----------------------------- MODULE Verification -----------------------------
(***************************************************************************)
(* Verification of contracts on a block explorer                           *)
(* (packages/core/src/etherscan.ts): three loops over contracts around one *)
(* attempt, which submits the sources and polls for the result.  The       *)
(* explorer answers with errors (it learns of contracts late), loses       *)
(* answers, and verifies some contracts by itself.                         *)
(***************************************************************************)
EXTENDS Naturals, FiniteSets, Sequences, SequencesExt

CONSTANTS
    maxAttempts \* of verifyDeploymentWithRetries

ASSUME VerificationAssumption == maxAttempts \in Nat \ {0}

VARIABLES
    explorer, \* [submitted, verified]: sets of contracts of the loop
    loop      \* the loop that runs: see NoLoop

verificationVars == <<explorer, loop>>

(* The callers: `sphinx deploy`, the platform, and the deployment of the   *)
(* system contracts.                                                       *)
Callers == {"verifyDeploymentWithRetries", "verifySphinxConfig", "verifySphinxSystem"}

(* contracts: a sequence of [id, deployed]; tries[k] attempts were made of *)
(* the k-th, succeeded those that an attempt reported as verified.         *)
NoLoop == [pc |-> "off", caller |-> "verifySphinxSystem", contracts |-> <<>>, k |-> 1,
           tries |-> <<>>, succeeded |-> {}]

(* What the explorer knows of contracts that no loop goes through is left  *)
(* out; at any time it may turn out to have verified them already.         *)
NothingKnown == [submitted |-> {}, verified |-> {}]

VerificationInit ==
    /\ explorer = NothingKnown
    /\ loop = NoLoop

Current == loop.contracts[loop.k]

StartLoop(caller, contracts) ==
    /\ loop.pc = "off"
    /\ loop' = [NoLoop EXCEPT !.pc = IF contracts = <<>> THEN "done" ELSE "attempt",
                              !.caller = caller, !.contracts = contracts,
                              !.tries = [k \in DOMAIN contracts |-> 0]]

(* The loop is over, as its caller sees it. *)
Ended == loop.pc \in {"done", "threw"}

-----------------------------------------------------------------------------
(* After an attempt *)

(* The loop with an attempt more of the current contract. *)
Tried == [loop EXCEPT !.tries[loop.k] = @ + 1]

NextContract(l) ==
    IF l.k < Len(l.contracts) THEN [l EXCEPT !.k = @ + 1, !.pc = "attempt"]
    ELSE [l EXCEPT !.pc = "done"]

Success == NextContract([Tried EXCEPT !.succeeded = @ \cup {Current.id}])

(* Mutants, each the body of the definition after it as a plausible bug    *)
(* would leave it; no action uses them.                                    *)
GivesUp ==
    IF Tried.tries[loop.k] < maxAttempts THEN [Tried EXCEPT !.pc = "attempt"]
    ELSE [Tried EXCEPT !.pc = "done"]

(* { success: false }: deploy tries again, the platform stops, and the     *)
(* system contracts get one attempt each.                                  *)
Failure ==
    CASE loop.caller = "verifyDeploymentWithRetries" ->
            IF Tried.tries[loop.k] < maxAttempts THEN [Tried EXCEPT !.pc = "attempt"]
            ELSE NextContract(Tried)
      [] loop.caller = "verifySphinxConfig" -> [Tried EXCEPT !.pc = "threw"]
      [] loop.caller = "verifySphinxSystem" -> NextContract(Tried)

AnyErrorWillDo(message) == loop' = Success

handleAlreadyVerifiedResponse(message) ==
    loop' = IF message = "already verified" THEN Success ELSE Failure

-----------------------------------------------------------------------------
(* attemptVerification *)

(* A contract without code counts as verified. *)
SkipContract ==
    /\ loop.pc = "attempt" /\ ~Current.deployed
    /\ loop' = Success
    /\ UNCHANGED explorer

(* etherscan.verify() returns a guid, also for sources that turn out wrong,*)
(* or throws; a request whose answer is lost may have arrived.             *)
Submit ==
    LET submitted == [explorer EXCEPT !.submitted = @ \cup {Current.id}]
    IN /\ loop.pc = "attempt" /\ Current.deployed
       /\ \/ /\ Current.id \notin explorer.verified
             /\ explorer' = submitted
             /\ \/ loop' = [loop EXCEPT !.pc = "poll"]
                \/ handleAlreadyVerifiedResponse("timeout")
          \/ /\ Current.id \in explorer.verified
             /\ handleAlreadyVerifiedResponse("already verified")
             /\ UNCHANGED explorer
          \/ /\ handleAlreadyVerifiedResponse("error")
             /\ UNCHANGED explorer

(* etherscan.getVerificationStatus(guid) waits while the job is pending.   *)
(* An answer that is neither a success nor a failure is thrown, and only   *)
(* verifySphinxSystem catches it.                                          *)
Poll ==
    /\ loop.pc = "poll"
    /\ \/ Current.id \in explorer.verified
          /\ \/ loop' = Success
             \/ handleAlreadyVerifiedResponse("already verified")
       \/ Current.id \notin explorer.submitted \cup explorer.verified /\ loop' = Failure
       \/ handleAlreadyVerifiedResponse("error")
       \/ loop' = [Tried EXCEPT !.pc = IF loop.caller = "verifySphinxSystem"
                                       THEN "done" ELSE "threw"]
    /\ UNCHANGED explorer

-----------------------------------------------------------------------------
(* The explorer *)

(* It finishes a job, or finds that the sources match another contract's.  *)
Verifies(id) ==
    /\ id \notin explorer.verified
    /\ explorer' = [explorer EXCEPT !.verified = @ \cup {id}, !.submitted = @ \ {id}]
    /\ UNCHANGED loop

Refuses(id) ==
    /\ id \in explorer.submitted
    /\ explorer' = [explorer EXCEPT !.submitted = @ \ {id}]
    /\ UNCHANGED loop

-----------------------------------------------------------------------------
(* A contract that is reported as verified is verified or has no code.     *)
ReportedAsVerified ==
    \A k \in DOMAIN loop.contracts :
        LET contract == loop.contracts[k]
        IN contract.id \in loop.succeeded =>
              ~contract.deployed \/ contract.id \in explorer.verified

(* A loop that ends without throwing left no contract out: each one was    *)
(* verified, or tried as often as the caller promises.  The platform only  *)
(* ends so when every contract is verified.                                *)
NoContractIsLeftOut ==
    loop.pc = "done" =>
        CASE loop.caller = "verifyDeploymentWithRetries" ->
                \A k \in DOMAIN loop.contracts :
                    \/ loop.contracts[k].id \in loop.succeeded
                    \/ loop.tries[k] = maxAttempts
          [] loop.caller = "verifySphinxConfig" ->
                \A k \in DOMAIN loop.contracts : loop.contracts[k].id \in loop.succeeded
          [] OTHER -> TRUE

=============================================================================
