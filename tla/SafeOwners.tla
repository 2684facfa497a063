------------------------------ MODULE SafeOwners ------------------------------
(***************************************************************************)
(* The owners of the Gnosis Safe on a local node (packages/core/src/       *)
(* utils.ts, addSphinxWalletsToGnosisSafeOwners and                        *)
(* removeSphinxWalletsFromGnosisSafeOwners, called by injectRoles and      *)
(* removeRoles of actions/execute.ts).                                     *)
(*                                                                         *)
(* The keys of a project's owners are not known on a local node, so an     *)
(* attempt makes wallets of its own owners of the Safe, has them approve   *)
(* the root and takes them out again, one awaited transaction after the    *)
(* other, before it executes the root; the transactions of the deployment  *)
(* may change the owners too.  The process may die after every step.       *)
(***************************************************************************)
EXTENDS Integers, Sequences, FiniteSets, SequencesExt

CONSTANTS
    Owners,            \* addresses that may be owners of the project's Safe
    InitialOwners,     \* the owners of the Safe on the node, head first
    InitialThreshold,  \* the threshold of the Safe on the node
    ConfigThreshold,   \* the threshold in the project's configuration
    Thresholds,        \* thresholds a deployment may set
    NumWallets,        \* bound: the number of auto-generated wallets
    WalletAddress,     \* WalletAddress[i]: the address of wallet i
    Signers,           \* the sets of wallets that may have signed a root
    MaxCrashes         \* bound: how often the process dies

SENTINEL_OWNERS == 1

Wallets == {WalletAddress[i] : i \in 0 .. NumWallets - 1}

ASSUME SafeOwnersAssumption ==
    /\ NumWallets \in Nat /\ MaxCrashes \in Nat
    /\ WalletAddress \in [0 .. NumWallets - 1 -> Nat] /\ IsInjective(WalletAddress)
    /\ Owners \subseteq Nat /\ Owners \cap Wallets = {}
    /\ SENTINEL_OWNERS \notin Owners \cup Wallets
    /\ Signers \subseteq SUBSET Wallets
    /\ IsInjective(InitialOwners) /\ InitialOwners \in Seq(Owners)
    /\ Thresholds \cup {InitialThreshold, ConfigThreshold} \subseteq 1 .. NumWallets
    /\ InitialThreshold <= Len(InitialOwners)

VARIABLES
    safe,       \* the Safe: [owners, threshold]; owners is its linked list
    balance,    \* the module's balance: "own" or "max"
    root,       \* status of the deployment's Merkle root
    signers,    \* the wallets that signed it
    attempt,    \* [pc, wallets, i, threshold, saved]
    report,     \* how the last attempt ended
    crashes,
    disturbed   \* history: an attempt was cut short after the approval

vars == <<safe, balance, root, signers, attempt, report, crashes, disturbed>>

-----------------------------------------------------------------------------
(* The Safe.  A call that reverts leaves it as it is, and                  *)
(* execTransactionFromModule returns false instead of reverting.           *)

IsOwner(a) == a \in ToSet(safe.owners)

(* addOwnerWithThreshold: at the head of the list. *)
AddOwner(owner, threshold) ==
    IF ~IsOwner(owner) /\ threshold \in 1 .. Len(safe.owners) + 1
    THEN [owners |-> <<owner>> \o safe.owners, threshold |-> threshold]
    ELSE safe

(* owners[prevOwner] = owner *)
Linked(prevOwner, owner) ==
    \E k \in DOMAIN safe.owners :
        /\ safe.owners[k] = owner
        /\ prevOwner = IF k = 1 THEN SENTINEL_OWNERS ELSE safe.owners[k - 1]

(* removeOwner *)
RemoveOwner(prevOwner, owner, threshold) ==
    IF Linked(prevOwner, owner) /\ threshold \in 1 .. Len(safe.owners) - 1
    THEN [owners |-> RemoveAt(safe.owners, CHOOSE k \in DOMAIN safe.owners :
                                              safe.owners[k] = owner),
          threshold |-> threshold]
    ELSE safe

(* changeThreshold *)
ChangeThreshold(threshold) ==
    IF threshold \in 1 .. Len(safe.owners)
    THEN [safe EXCEPT !.threshold = threshold]
    ELSE safe

-----------------------------------------------------------------------------
(* The addresses in ascending order. *)
Sorted(addresses) ==
    CHOOSE seq \in [1 .. Cardinality(addresses) -> addresses] :
        /\ ToSet(seq) = addresses
        /\ \A j, k \in DOMAIN seq : j < k => seq[j] < seq[k]

(* Mutants, each the body of the definition after it as a plausible bug    *)
(* would leave it; no action uses them.                                    *)
OneWalletShort(n) == Sorted({WalletAddress[i] : i \in 0 .. n - 2})
GrowingThreshold(i) == i
LeavesTheLast(i) == i >= attempt.threshold
SkipsOne(i) == attempt' = [attempt EXCEPT !.i = i + 2]

(* getSphinxWalletsSortedByAddress *)
SortedWallets(n) == Sorted({WalletAddress[i] : i \in 0 .. n - 1})

(* The threshold given to addOwnerWithThreshold with the i-th wallet. *)
ThresholdToKeep(i) == attempt.threshold

Idle == [pc |-> "idle", wallets |-> <<>>, i |-> 1, threshold |-> 1,
         saved |-> "own"]

Go(pc) == attempt' = [attempt EXCEPT !.pc = pc]

Continue(i) == attempt' = [attempt EXCEPT !.i = i + 1]

(* The first lines of both functions: the module is given funds, and the   *)
(* Safe's threshold is read.                                               *)
Impersonate(pc, wallets) ==
    /\ balance' = "max"
    /\ attempt' = [pc |-> pc, wallets |-> wallets, i |-> 1,
                   threshold |-> safe.threshold, saved |-> balance]

(* The caller has an answer and does not attempt this deployment again. *)
Answered == report \in {"success", "failure", "already"}

(* An exception: attemptDeployment hands it to handleError. *)
Throw(error) ==
    /\ report' = error
    /\ attempt' = Idle
    /\ disturbed' = (disturbed \/ root # "EMPTY")

Init ==
    /\ safe = [owners |-> InitialOwners, threshold |-> InitialThreshold]
    /\ balance = "own"
    /\ root = "EMPTY"
    /\ signers \in Signers
    /\ attempt = Idle
    /\ report = "none"
    /\ crashes = 0
    /\ disturbed = FALSE

-----------------------------------------------------------------------------
(* An attempt *)

(* The attempt of a deployment that has no answer yet reaches injectRoles. *)
InjectRoles ==
    /\ attempt.pc = "idle"
    /\ ~Answered
    /\ root # "COMPLETED"
    /\ Impersonate("add", SortedWallets(safe.threshold))
    /\ UNCHANGED <<safe, root, signers, report, crashes, disturbed>>

(* attemptDeployment: handleAlreadyExecutedDeployment. *)
AlreadyExecuted ==
    /\ attempt.pc = "idle"
    /\ ~Answered
    /\ root = "COMPLETED"
    /\ report' = "already"
    /\ UNCHANGED <<safe, balance, root, signers, attempt, crashes, disturbed>>

(* One iteration of the loop, with its sanity check. *)
AddWallet ==
    /\ attempt.pc = "add"
    /\ attempt.i <= Len(attempt.wallets)
    /\ LET wallet == attempt.wallets[attempt.i]
       IN /\ safe' = AddOwner(wallet, ThresholdToKeep(attempt.i))
          /\ IF wallet \in ToSet(safe'.owners)
             THEN Continue(attempt.i) /\ UNCHANGED <<report, disturbed>>
             ELSE Throw("Address is not owner")
    /\ UNCHANGED <<balance, root, signers, crashes>>

RolesInjected ==
    /\ attempt.pc = "add"
    /\ attempt.i > Len(attempt.wallets)
    /\ balance' = attempt.saved
    /\ Go("status")
    /\ UNCHANGED <<safe, root, signers, report, crashes, disturbed>>

(* The root's status decides: only a new root is approved. *)
ReadStatus ==
    /\ attempt.pc = "status"
    /\ CASE root = "EMPTY" -> Go("approve") /\ UNCHANGED report
         [] root = "APPROVED" -> Go("execute") /\ UNCHANGED report
         [] OTHER -> attempt' = Idle /\ report' = "failure"
    /\ UNCHANGED <<safe, balance, root, signers, crashes, disturbed>>

(* checkSignatures of the Safe, for the signatures in the order of their   *)
(* signers' addresses.                                                     *)
SignaturesSuffice ==
    LET sorted == Sorted(signers)
    IN /\ Len(sorted) >= safe.threshold
       /\ \A k \in 1 .. safe.threshold : IsOwner(sorted[k])

(* approveDeployment, then the beginning of removeRoles. *)
Approve ==
    /\ attempt.pc = "approve"
    /\ SignaturesSuffice
    /\ root' = "APPROVED"
    /\ Go("removeRoles")
    /\ UNCHANGED <<safe, balance, signers, report, crashes, disturbed>>

ApproveReverts ==
    /\ attempt.pc = "approve"
    /\ ~SignaturesSuffice
    /\ Throw("reverted")
    /\ UNCHANGED <<safe, balance, root, signers, crashes>>

RemoveRoles ==
    /\ attempt.pc = "removeRoles"
    /\ Impersonate("remove", SortedWallets(ConfigThreshold))
    /\ UNCHANGED <<safe, root, signers, report, crashes, disturbed>>

(* The loop over all wallets but the last, and the removal after it. *)
LoopIsOver(i) == i > attempt.threshold

(* In the list a wallet comes after the one that was added after it. *)
PrevOwner(i) ==
    IF i < attempt.threshold THEN attempt.wallets[i + 1] ELSE SENTINEL_OWNERS

(* sphinxWallets[i].address, or [i + 1], of undefined. *)
TypeErrorAt(i) ==
    (IF i < attempt.threshold THEN i + 1 ELSE i) > Len(attempt.wallets)

(* removeGnosisSafeOwnerViaSphinxModule for one wallet. *)
RemoveWallet ==
    /\ attempt.pc = "remove"
    /\ ~LoopIsOver(attempt.i)
    /\ IF TypeErrorAt(attempt.i)
       THEN Throw("TypeError") /\ UNCHANGED safe
       ELSE LET wallet == attempt.wallets[attempt.i]
            IN /\ safe' = RemoveOwner(PrevOwner(attempt.i), wallet,
                                      attempt.threshold)
               /\ IF wallet \in ToSet(safe'.owners)
                  THEN Throw("Owner was not removed")
                  ELSE Continue(attempt.i) /\ UNCHANGED <<report, disturbed>>
    /\ UNCHANGED <<balance, root, signers, crashes>>

RolesRemoved ==
    /\ attempt.pc = "remove"
    /\ LoopIsOver(attempt.i)
    /\ balance' = attempt.saved
    /\ Go("execute")
    /\ UNCHANGED <<safe, root, signers, report, crashes, disturbed>>

(* A transaction of the deployment by which the Safe changes its owners or *)
(* its threshold.                                                          *)
SafeChangesOwners ==
    /\ attempt.pc = "execute" /\ root = "APPROVED"
    /\ \/ \E owner \in Owners : safe' = AddOwner(owner, safe.threshold)
       \/ \E prevOwner \in Owners \cup {SENTINEL_OWNERS}, owner \in Owners :
             safe' = RemoveOwner(prevOwner, owner, safe.threshold)
       \/ \E threshold \in Thresholds : safe' = ChangeThreshold(threshold)
    /\ UNCHANGED <<balance, root, signers, attempt, report, crashes, disturbed>>

(* The last batch of the deployment. *)
ExecuteRoot ==
    /\ attempt.pc = "execute" /\ root = "APPROVED"
    /\ root' \in {"COMPLETED", "FAILED"}
    /\ UNCHANGED <<safe, balance, signers, attempt, report, crashes, disturbed>>

(* handleStatus on the final status. *)
Finish ==
    /\ attempt.pc = "execute" /\ root # "APPROVED"
    /\ report' = IF root = "COMPLETED" THEN "success" ELSE "failure"
    /\ attempt' = Idle
    /\ UNCHANGED <<safe, balance, root, signers, crashes, disturbed>>

-----------------------------------------------------------------------------
(* Environment *)

(* The process dies. *)
Crash ==
    /\ attempt.pc # "idle"
    /\ crashes < MaxCrashes
    /\ crashes' = crashes + 1
    /\ Throw("crashed")
    /\ UNCHANGED <<safe, balance, root, signers>>

(* The user deploys again, with a new root.  The module approves no root   *)
(* while another one is active, so the last one is over.                   *)
NewDeployment ==
    /\ attempt.pc = "idle"
    /\ root \in {"COMPLETED", "FAILED"}
    /\ root' = "EMPTY"
    /\ signers' \in Signers
    /\ report' = "none"
    /\ UNCHANGED <<safe, balance, attempt, crashes, disturbed>>

Next ==
    \/ InjectRoles \/ AlreadyExecuted \/ AddWallet \/ RolesInjected
    \/ ReadStatus \/ Approve \/ ApproveReverts \/ RemoveRoles
    \/ RemoveWallet \/ RolesRemoved \/ ExecuteRoot \/ Finish
    \/ SafeChangesOwners \/ Crash \/ NewDeployment

Spec == Init /\ [][Next]_vars

-----------------------------------------------------------------------------
(* Properties *)

(* The list of owners has no duplicates and enough entries for the         *)
(* threshold; an attempt's loop stays within its bounds.                   *)
TypeOK ==
    /\ safe \in [owners : Seq(Owners \cup Wallets), threshold : 1 .. NumWallets]
    /\ IsInjective(safe.owners) /\ safe.threshold <= Len(safe.owners)
    /\ balance \in {"own", "max"}
    /\ root \in {"EMPTY", "APPROVED", "COMPLETED", "FAILED"}
    /\ signers \in Signers
    /\ attempt \in [pc : {"idle", "add", "status", "approve", "removeRoles",
                          "remove", "execute"},
                    wallets : Seq(Wallets), i : 1 .. NumWallets + 1,
                    threshold : 1 .. NumWallets, saved : {"own", "max"}]
    /\ attempt.i <= attempt.threshold + 1
    /\ report \in {"none", "success", "failure", "already", "crashed",
                   "reverted", "TypeError", "Address is not owner",
                   "Owner was not removed"}
    /\ crashes \in 0 .. MaxCrashes /\ disturbed \in BOOLEAN

(* The owners that are not wallets, and their order in the list. *)
ProjectOwners(owners) == ToSet(owners) \ Wallets
ProjectOrder(owners) ==
    {pair \in ProjectOwners(owners) \X ProjectOwners(owners) :
        \E j, k \in DOMAIN owners :
            j < k /\ owners[j] = pair[1] /\ owners[k] = pair[2]}

(* Adding and removing the wallets never removes an owner of the project,  *)
(* never reorders the project's owners and never changes the threshold,    *)
(* whatever an earlier attempt left behind: the threshold passed to        *)
(* addOwnerWithThreshold and removeOwner is the Safe's, and a removal that *)
(* names a wrong predecessor does nothing.                                 *)
OnlyWalletsMove ==
    [][attempt.pc \in {"add", "remove"} =>
          /\ ProjectOwners(safe'.owners) = ProjectOwners(safe.owners)
          /\ ProjectOrder(safe'.owners) = ProjectOrder(safe.owners)
          /\ safe'.threshold = safe.threshold]_vars

(* When the root is approved, at least as many wallets as the threshold    *)
(* demands are owners: an attempt that resumes the injection of one that   *)
(* died ends with the same set.                                            *)
WalletsCanApprove ==
    attempt.pc \in {"status", "approve"} =>
        Cardinality(ToSet(safe.owners) \cap Wallets) >= safe.threshold

(* removeRoles finds the wallets where injectRoles has put them: unless an *)
(* earlier attempt was cut short after the approval, no wallet is an owner *)
(* when the deployment executes and when it is over, even if injections    *)
(* were cut short and resumed; and if no attempt was cut short at all, the *)
(* module has its own balance again.                                       *)
LeavesNoTrace ==
    (attempt.pc = "execute" \/ report \in {"success", "failure"})
    /\ ~disturbed
    => /\ ToSet(safe.owners) \cap Wallets = {}
       /\ crashes = 0 => balance = "own"

-----------------------------------------------------------------------------
(* What comments say *)

(* packages/plugins/src/cli/deploy.ts:282: the roles are injected into     *)
(* local deployments "so that they work even without the need for keys for *)
(* all Safe signers".                                                      *)
LocalDeploymentsWork == report # "reverted"

=============================================================================
