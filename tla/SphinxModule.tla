----------------------------- MODULE SphinxModule -----------------------------
(***************************************************************************)
(* The SphinxModule contract of one chain                                  *)
(* (packages/contracts/contracts/core/SphinxModule.sol), with the Gnosis   *)
(* Safe it is a module of.                                                 *)
(*                                                                         *)
(* A transaction of the EVM is atomic unless it calls out.  `approve` and  *)
(* `cancel` end with a read-only call (checkSignatures) and are one action *)
(* each.  `execute` hands control to the Safe once per Merkle leaf, and    *)
(* whatever the Safe runs may come back to the module: it is modelled as a *)
(* call frame that opens (ExecuteStart), calls (ExecuteLeaf), returns      *)
(* (SafeReturn) and commits (ExecuteFinish) or reverts (ExecuteRevert).    *)
(*                                                                         *)
(* Hashes are injective: a Merkle root is a model value and "the proof     *)
(* verifies" is membership in Tree[root].                                  *)
(***************************************************************************)
EXTENDS Integers, Sequences, FiniteSets

CONSTANTS
    Roots,        \* the Merkle roots that somebody may submit
    NoRoot,       \* bytes32(0)
    Tree,         \* Tree[r]: the leaves of the Merkle tree whose root is r
    SignedBy,     \* SignedBy[r]: the accounts whose signature of r is at hand
    Accounts,     \* callers and owners
    Threshold,    \* the Safe's signature threshold
    ChainId,      \* block.chainid
    SafeProxy,    \* the Safe this module was initialized with
    ModuleProxy,  \* address(this)
    NonceSpace,   \* 2^256: the increment of the nonce is unchecked
    MaxBatch      \* bound: leaves in one call of `execute`

-----------------------------------------------------------------------------
(* Data types: SphinxDataTypes.sol *)

LeafShape(leaf) ==
    /\ leaf.chainId \in Nat
    /\ leaf.index \in Nat
    /\ leaf.leafType \in {"APPROVE", "EXECUTE", "CANCEL"}
    /\ leaf.leafType = "APPROVE" =>
          /\ leaf.nonce \in 0 .. NonceSpace - 1
          /\ leaf.numLeaves \in Nat
          /\ leaf.executor \in Accounts
          /\ leaf.arbitraryChain \in BOOLEAN
    /\ leaf.leafType = "CANCEL" =>
          /\ leaf.nonce \in 0 .. NonceSpace - 1
          /\ leaf.rootToCancel \in Roots
          /\ leaf.executor \in Accounts
    /\ leaf.leafType = "EXECUTE" => leaf.requireSuccess \in BOOLEAN

ASSUME ConstantsAssumption ==
    /\ NoRoot \notin Roots
    /\ NonceSpace \in Nat \ {0}
    /\ MaxBatch \in Nat
    /\ Threshold \in Nat
    /\ \A r \in Roots : \A leaf \in Tree[r] : LeafShape(leaf)

MerkleRootStatus == {"EMPTY", "APPROVED", "COMPLETED", "CANCELED", "FAILED"}

MerkleRootState ==
    [numLeaves : Nat, leavesExecuted : Nat, executor : Accounts \cup {NoRoot},
     status : MerkleRootStatus, arbitraryChain : BOOLEAN]

(* What a mapping of Solidity holds before the first write. *)
EmptyState ==
    [numLeaves |-> 0, leavesExecuted |-> 0, executor |-> NoRoot,
     status |-> "EMPTY", arbitraryChain |-> FALSE]

(* The state of the Safe that the module depends on.  The Safe never has   *)
(* fewer owners than its threshold.                                        *)
SafeState ==
    [owners : {o \in SUBSET Accounts : Cardinality(o) >= Threshold},
     enabled : BOOLEAN]

-----------------------------------------------------------------------------
VARIABLES
    merkleRootStates,
    merkleRootNonce,
    activeMerkleRoot,
    frame,       \* the call of `execute` in progress, or Idle
    safe,        \* the Safe's owners, and whether the module is enabled
    actions,     \* actions[r]: the SphinxActionSucceeded / Failed events of r
    usedRoots    \* the roots of the Approved and Canceled events, in order

vars == <<merkleRootStates, merkleRootNonce, activeMerkleRoot, frame, safe,
          actions, usedRoots>>

Idle == [pc |-> "idle"]

(* Mutants, each the body of the definition after it as a plausible bug    *)
(* would leave it; no action uses them.                                    *)
Unguarded == frame.pc # "loop"
ReusableRoot(r) == TRUE
AnyLaterNonce(leaf) == leaf.nonce >= merkleRootNonce
AlwaysApproved(numLeaves) == "APPROVED"
AnyLaterLeaf(leaf) == leaf.index >= frame.leavesExecuted
AnyFailure(success) == ~success
OneLeafTooMany == frame.leavesExecuted > merkleRootStates[frame.root].numLeaves

(* OpenZeppelin's ReentrancyGuard: entered as long as a frame is open. *)
nonReentrant == frame.pc = "idle"

(* The root hasn't been used before. *)
Unused(r) == merkleRootStates[r].status = "EMPTY"

NonceMatches(leaf) == leaf.nonce = merkleRootNonce

(* A root without an EXECUTE leaf is completed as it is approved. *)
ApprovedStatus(numLeaves) == IF numLeaves = 1 THEN "COMPLETED" ELSE "APPROVED"

(* The leaf is the next one of the root that is being executed. *)
NextLeaf(leaf) == leaf.index = frame.leavesExecuted

(* A failed transaction fails the root if it was required to succeed. *)
FailsRoot(success) == ~success /\ frame.leaf.requireSuccess

AllExecuted == frame.leavesExecuted = merkleRootStates[frame.root].numLeaves

(* Enough of the Safe's present owners signed the root. *)
checkSignatures(r) == Cardinality(SignedBy[r] \cap safe.owners) >= Threshold

(* The leaf may be used here, and by convention a leaf that may be used on *)
(* any chain names none.                                                   *)
ValidChain(leaf, arbitraryChain) ==
    /\ leaf.chainId = ChainId \/ arbitraryChain
    /\ ~arbitraryChain \/ leaf.chainId = 0

(* The checks `approve` and `cancel` make of their leaf, in common. *)
ValidFirstLeaf(caller, r, leaf, type) ==
    /\ leaf \in Tree[r]
    /\ leaf.leafType = type
    /\ leaf.index = 0
    /\ leaf.safeProxy = SafeProxy
    /\ leaf.moduleProxy = ModuleProxy
    /\ NonceMatches(leaf)
    /\ leaf.executor = caller

Init ==
    /\ merkleRootStates = [r \in Roots |-> EmptyState]
    /\ merkleRootNonce = 0
    /\ activeMerkleRoot = NoRoot
    /\ frame = Idle
    /\ safe \in SafeState
    /\ actions = [r \in Roots |-> <<>>]
    /\ usedRoots = <<>>

-----------------------------------------------------------------------------
(* approve *)

Approve(caller, r, leaf) ==
    /\ nonReentrant
    /\ activeMerkleRoot = NoRoot
    /\ Unused(r)
    /\ ValidFirstLeaf(caller, r, leaf, "APPROVE")
    /\ leaf.numLeaves > 0
    /\ ValidChain(leaf, leaf.arbitraryChain)
    /\ checkSignatures(r)
    /\ merkleRootStates' = [merkleRootStates EXCEPT ![r] =
          [numLeaves |-> leaf.numLeaves,
           leavesExecuted |-> 1,
           executor |-> caller,
           status |-> ApprovedStatus(leaf.numLeaves),
           arbitraryChain |-> leaf.arbitraryChain]]
    /\ activeMerkleRoot' = IF leaf.numLeaves = 1 THEN NoRoot ELSE r
    /\ merkleRootNonce' = (leaf.nonce + 1) % NonceSpace
    /\ usedRoots' = Append(usedRoots, r)
    /\ UNCHANGED <<frame, safe, actions>>

(* cancel: the new root is completed, the active one canceled. *)
Cancel(caller, r, leaf) ==
    /\ nonReentrant
    /\ activeMerkleRoot # NoRoot
    /\ Unused(r)
    /\ ValidFirstLeaf(caller, r, leaf, "CANCEL")
    /\ leaf.rootToCancel = activeMerkleRoot
    /\ leaf.chainId = ChainId
    /\ checkSignatures(r)
    /\ merkleRootStates' = [merkleRootStates EXCEPT
          ![leaf.rootToCancel].status = "CANCELED",
          ![r] = [numLeaves |-> 1,
                  leavesExecuted |-> 1,
                  executor |-> caller,
                  status |-> "COMPLETED",
                  arbitraryChain |-> @.arbitraryChain]]
    /\ activeMerkleRoot' = NoRoot
    /\ merkleRootNonce' = (leaf.nonce + 1) % NonceSpace
    /\ usedRoots' = Append(usedRoots, r)
    /\ UNCHANGED <<frame, safe, actions>>

-----------------------------------------------------------------------------
(* execute *)

(* The entry checks.  The active root, its counter and its arbitraryChain  *)
(* flag are cached for the whole call.                                     *)
ExecuteStart(caller, n) ==
    /\ nonReentrant
    /\ n > 0
    /\ activeMerkleRoot # NoRoot
    /\ LET state == merkleRootStates[activeMerkleRoot] IN
          /\ state.executor = caller
          /\ state.numLeaves >= state.leavesExecuted + n
          /\ frame' = [pc |-> "loop",
                       root |-> activeMerkleRoot,
                       leavesExecuted |-> state.leavesExecuted,
                       arbitraryChain |-> state.arbitraryChain,
                       left |-> n,
                       saved |-> [safe |-> safe, actions |-> actions]]
    /\ UNCHANGED <<merkleRootStates, merkleRootNonce, activeMerkleRoot, safe,
                   actions, usedRoots>>

(* Mutant: the loop runs once more than there are leaves. *)
ExecuteLeaf_LoopsOn(leaf) ==
    /\ frame.pc = "loop"
    /\ leaf \in Tree[frame.root]
    /\ leaf.leafType = "EXECUTE"
    /\ NextLeaf(leaf)
    /\ ValidChain(leaf, frame.arbitraryChain)
    /\ frame' = [pc |-> "call", root |-> frame.root,
                 leavesExecuted |-> frame.leavesExecuted + 1,
                 arbitraryChain |-> frame.arbitraryChain,
                 left |-> frame.left - 1, saved |-> frame.saved,
                 leaf |-> leaf, callSaved |-> safe]
    /\ UNCHANGED <<merkleRootStates, merkleRootNonce, activeMerkleRoot, safe,
                   actions, usedRoots>>

(* One iteration up to the call of the Safe: the leaf passes every check   *)
(* and is counted before control leaves the module.                        *)
ExecuteLeaf(leaf) ==
    /\ frame.pc = "loop"
    /\ frame.left > 0
    /\ leaf \in Tree[frame.root]
    /\ leaf.leafType = "EXECUTE"
    /\ NextLeaf(leaf)
    /\ ValidChain(leaf, frame.arbitraryChain)
    /\ frame' = [pc |-> "call",
                 root |-> frame.root,
                 leavesExecuted |-> frame.leavesExecuted + 1,
                 arbitraryChain |-> frame.arbitraryChain,
                 left |-> frame.left - 1,
                 saved |-> frame.saved,
                 leaf |-> leaf,
                 callSaved |-> safe]
    /\ UNCHANGED <<merkleRootStates, merkleRootNonce, activeMerkleRoot, safe,
                   actions, usedRoots>>

(* execTransactionFromModule returns true, returns false, or reverts into  *)
(* the catch clause.  A Safe that has disabled the module only reverts; a  *)
(* call that did not succeed leaves the Safe as it was.  The first failure *)
(* of a leaf that requires success fails the root and ends the call.       *)
SafeReturn(success) ==
    /\ frame.pc = "call"
    /\ success => frame.callSaved.enabled
    /\ safe' = IF success THEN safe ELSE frame.callSaved
    /\ actions' = [actions EXCEPT ![frame.root] =
          Append(@, [leaf |-> frame.leaf, success |-> success])]
    /\ IF FailsRoot(success)
       THEN /\ merkleRootStates' = [merkleRootStates EXCEPT ![frame.root] =
                  [@ EXCEPT !.leavesExecuted = frame.leavesExecuted,
                            !.status = "FAILED"]]
            /\ activeMerkleRoot' = NoRoot
            /\ frame' = Idle
       ELSE /\ frame' = [pc |-> "loop",
                         root |-> frame.root,
                         leavesExecuted |-> frame.leavesExecuted,
                         arbitraryChain |-> frame.arbitraryChain,
                         left |-> frame.left,
                         saved |-> frame.saved]
            /\ UNCHANGED <<merkleRootStates, activeMerkleRoot>>
    /\ UNCHANGED <<merkleRootNonce, usedRoots>>

(* Every leaf of the batch was executed: the counter is stored, and the    *)
(* root is completed when no leaf is left.                                 *)
ExecuteFinish ==
    /\ frame.pc = "loop"
    /\ frame.left = 0
    /\ merkleRootStates' = [merkleRootStates EXCEPT ![frame.root] =
          [@ EXCEPT !.leavesExecuted = frame.leavesExecuted,
                    !.status = IF AllExecuted THEN "COMPLETED"
                               ELSE merkleRootStates[frame.root].status]]
    /\ activeMerkleRoot' = IF AllExecuted THEN NoRoot ELSE activeMerkleRoot
    /\ frame' = Idle
    /\ UNCHANGED <<merkleRootNonce, safe, actions, usedRoots>>

(* Mutant: the Safe's work is undone, the events are not. *)
ExecuteRevert_KeepsActions ==
    /\ frame.pc \in {"loop", "call"}
    /\ safe' = frame.saved.safe
    /\ frame' = Idle
    /\ UNCHANGED <<merkleRootStates, merkleRootNonce, activeMerkleRoot,
                   actions, usedRoots>>

(* A `require` fails on a later leaf, `gas * 64` overflows, or the gas runs *)
(* out: the transaction reverts, with everything the Safe did for the      *)
(* earlier leaves of the batch.  The module stored nothing so far.         *)
ExecuteRevert ==
    /\ frame.pc \in {"loop", "call"}
    /\ safe' = frame.saved.safe
    /\ actions' = frame.saved.actions
    /\ frame' = Idle
    /\ UNCHANGED <<merkleRootStates, merkleRootNonce, activeMerkleRoot,
                   usedRoots>>

-----------------------------------------------------------------------------
(* The Safe changes its owners or enables or disables the module: in a     *)
(* transaction of its own, or in the one the module is making it run.      *)
SafeReconfigure(new) ==
    /\ \/ frame.pc = "idle"
       \/ frame.pc = "call" /\ frame.callSaved.enabled
    /\ new # safe
    /\ safe' = new
    /\ UNCHANGED <<merkleRootStates, merkleRootNonce, activeMerkleRoot, frame,
                   actions, usedRoots>>

Next ==
    \/ \E caller \in Accounts, r \in Roots : \E leaf \in Tree[r] :
          Approve(caller, r, leaf) \/ Cancel(caller, r, leaf)
    \/ \E caller \in Accounts, n \in 0 .. MaxBatch : ExecuteStart(caller, n)
    \/ \E r \in Roots : \E leaf \in Tree[r] : ExecuteLeaf(leaf)
    \/ \E success \in BOOLEAN : SafeReturn(success)
    \/ ExecuteFinish
    \/ ExecuteRevert
    \/ \E new \in SafeState : SafeReconfigure(new)

Spec == Init /\ [][Next]_vars

-----------------------------------------------------------------------------
(* Properties *)

Open == frame.pc # "idle"

TerminalStatus == {"COMPLETED", "CANCELED", "FAILED"}

Action == [leaf : UNION {Tree[r] : r \in Roots}, success : BOOLEAN]

ActionLog == [Roots -> Seq(Action)]

LoopFrame ==
    [pc : {"loop"}, root : Roots, leavesExecuted : Nat,
     arbitraryChain : BOOLEAN, left : Nat,
     saved : [safe : SafeState, actions : ActionLog]]

CallFrame ==
    [pc : {"call"}, root : Roots, leavesExecuted : Nat,
     arbitraryChain : BOOLEAN, left : Nat,
     saved : [safe : SafeState, actions : ActionLog],
     leaf : UNION {Tree[r] : r \in Roots}, callSaved : SafeState]

(* The types of the contract's storage and of the open call frame. *)
TypeOK ==
    /\ merkleRootStates \in [Roots -> MerkleRootState]
    /\ merkleRootNonce \in 0 .. NonceSpace - 1
    /\ activeMerkleRoot \in Roots \cup {NoRoot}
    /\ frame \in {Idle} \cup LoopFrame \cup CallFrame
    /\ safe \in SafeState
    /\ actions \in ActionLog
    /\ usedRoots \in Seq(Roots)

(* activeMerkleRoot and the statuses are stored apart and written by three *)
(* functions: at every moment, during calls of the Safe too, the active    *)
(* root is the one APPROVED root, and there is no APPROVED root when none  *)
(* is active.                                                              *)
ActiveIsApproved ==
    \A r \in Roots :
        merkleRootStates[r].status = "APPROVED" <=> activeMerkleRoot = r

(* What `execute` caches at entry stays true while the Safe runs arbitrary *)
(* code: the root is still active, its storage still holds the counter of  *)
(* the entry, and the batch still fits.                                    *)
CachedStateFresh ==
    Open =>
        LET state == merkleRootStates[frame.root] IN
        /\ activeMerkleRoot = frame.root
        /\ state.arbitraryChain = frame.arbitraryChain
        /\ state.leavesExecuted = Len(frame.saved.actions[frame.root]) + 1
        /\ frame.leavesExecuted + frame.left <= state.numLeaves

(* How many actions of a root the module itself believes to have run: the  *)
(* local counter of an open frame, which counts a leaf before its call, or *)
(* the stored one.                                                         *)
CountedActions(r) ==
    IF Open /\ frame.root = r
    THEN frame.leavesExecuted - (IF frame.pc = "call" THEN 2 ELSE 1)
    ELSE merkleRootStates[r].leavesExecuted - 1

(* A log of actions follows the tree of r: the i-th entry ran the EXECUTE   *)
(* leaf of index i, and that leaf names this chain, or any chain when the  *)
(* approval said so.                                                       *)
FollowsTree(log, r, arbitraryChain) ==
    \A i \in 1 .. Len(log) :
        /\ log[i].leaf \in Tree[r]
        /\ log[i].leaf.leafType = "EXECUTE"
        /\ log[i].leaf.index = i
        /\ ValidChain(log[i].leaf, arbitraryChain)

(* The EXECUTE leaves of a root run in the order of their index, none      *)
(* skipped and none run twice, over any number of batches, failures and    *)
(* reverted transactions; each is a leaf of the signed tree that may be    *)
(* used on this chain.                                                     *)
ExecutedInOrder ==
    \A r \in Roots :
        /\ merkleRootStates[r].status # "EMPTY" =>
              Len(actions[r]) = CountedActions(r)
        /\ FollowsTree(actions[r], r, merkleRootStates[r].arbitraryChain)

(* The i-th action of a log failed although its leaf requires success. *)
FatalAt(log, i) == log[i].success = FALSE /\ log[i].leaf.requireSuccess

(* The status and the number of leaves of a root, against its log. *)
Outcome(status, numLeaves, log) ==
    LET last == Len(log) IN
    /\ status = "EMPTY" => last = 0
    /\ status = "COMPLETED" => last + 1 = numLeaves
    /\ status = "CANCELED" => last + 1 < numLeaves
    /\ status = "FAILED" =>
          last > 0 /\ last + 1 <= numLeaves /\ FatalAt(log, last)
    /\ \A i \in 1 .. last : FatalAt(log, i) => status = "FAILED" /\ i = last

(* A status tells what happened in the Safe: COMPLETED says that every     *)
(* leaf ran and none failed that had to succeed, FAILED that the last one  *)
(* to run is the first such failure, APPROVED and CANCELED that there was  *)
(* none and that leaves were left, EMPTY that nothing ran.                 *)
OutcomeMatchesActions ==
    \A r \in Roots :
        LET state == merkleRootStates[r] IN
        /\ Outcome(state.status, state.numLeaves, actions[r])
        /\ state.status = "APPROVED" /\ ~Open =>
              Len(actions[r]) + 1 < state.numLeaves

(* Each root is used at most once, and each nonce is spent by one root     *)
(* only: the n-th root to be approved or to cancel another carries nonce   *)
(* n - 1.  So the owners retire a signed root that nobody approved by      *)
(* spending its nonce on another one.                                      *)
UsedOnceInNonceOrder ==
    /\ merkleRootNonce = Len(usedRoots) % NonceSpace
    /\ \A i \in 1 .. Len(usedRoots) : \E leaf \in Tree[usedRoots[i]] :
          leaf.leafType # "EXECUTE" /\ leaf.nonce = (i - 1) % NonceSpace
    /\ \A i, j \in 1 .. Len(usedRoots) :
          usedRoots[i] = usedRoots[j] => i = j
    /\ \A r \in Roots :
          merkleRootStates[r].status # "EMPTY" <=>
              \E i \in 1 .. Len(usedRoots) : usedRoots[i] = r

(* The tree of r holds, for every APPROVE leaf, the EXECUTE leaves that it  *)
(* announces.                                                              *)
WellBuilt(r) ==
    \A first \in Tree[r] : first.leafType = "APPROVE" =>
        \A k \in 1 .. first.numLeaves - 1 : \E leaf \in Tree[r] :
            /\ leaf.leafType = "EXECUTE"
            /\ leaf.index = k
            /\ leaf.chainId = first.chainId

(* A well-built root is executable to its end on every chain on which it   *)
(* was approved: between two calls of `execute` there is always a leaf     *)
(* that the module would accept next.                                      *)
NeverStuck ==
    \A r \in Roots :
        WellBuilt(r) /\ merkleRootStates[r].status = "APPROVED" /\ ~Open =>
            \E leaf \in Tree[r] :
                /\ leaf.leafType = "EXECUTE"
                /\ leaf.index = merkleRootStates[r].leavesExecuted
                /\ ValidChain(leaf, merkleRootStates[r].arbitraryChain)

(* A root that is completed, canceled or failed never changes again, and   *)
(* no leaf of it ever runs again, whoever signs or submits what.           *)
TerminalForever ==
    [][\A r \in Roots :
          merkleRootStates[r].status \in TerminalStatus =>
              /\ merkleRootStates'[r] = merkleRootStates[r]
              /\ actions'[r] = actions[r]]_vars

-----------------------------------------------------------------------------
(* What the contract promises: for an observer of committed transactions,  *)
(* the multi-step `execute`, with its calls, returns and reverts, is one   *)
(* atomic batch.                                                           *)
statuses == [r \in Roots |-> merkleRootStates[r].status]
sizes == [r \in Roots |-> merkleRootStates[r].numLeaves]
committed == IF Open THEN frame.saved.actions ELSE actions

Lifecycle == INSTANCE RootLifecycle WITH
    phase <- statuses, size <- sizes, performed <- committed,
    current <- activeMerkleRoot

(* Every execution of the module implements RootLifecycle. *)
ImplementsLifecycle == Lifecycle!Spec

=============================================================================
