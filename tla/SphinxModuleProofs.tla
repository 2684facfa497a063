-------------------------- MODULE SphinxModuleProofs --------------------------
(***************************************************************************)
(* Theorems about SphinxModule, for every set of roots, every trees,       *)
(* signatures, owners and thresholds.                                      *)
(***************************************************************************)
EXTENDS SphinxModule, TLAPS

(* A first leaf that passes the checks has the fields the storage takes. *)
LEMMA FirstLeafShape ==
    ASSUME NEW r \in Roots, NEW leaf \in Tree[r], LeafShape(leaf),
           leaf.leafType \in {"APPROVE", "CANCEL"}
    PROVE  /\ leaf.executor \in Accounts
           /\ leaf.nonce \in 0 .. NonceSpace - 1
           /\ (leaf.nonce + 1) % NonceSpace \in 0 .. NonceSpace - 1
           /\ leaf.leafType = "APPROVE" =>
                 leaf.numLeaves \in Nat /\ leaf.arbitraryChain \in BOOLEAN
           /\ leaf.leafType = "CANCEL" => leaf.rootToCancel \in Roots
  BY ConstantsAssumption DEF LeafShape

(* Storing a new counter and a new status keeps the type of the storage.   *)
LEMMA StoreOutcome ==
    ASSUME NEW states \in [Roots -> MerkleRootState], NEW r \in Roots,
           NEW n \in Nat, NEW status \in MerkleRootStatus
    PROVE  [states EXCEPT ![r] = [@ EXCEPT !.leavesExecuted = n,
                                           !.status = status]]
           \in [Roots -> MerkleRootState]
<1>1. states[r] \in MerkleRootState
  OBVIOUS
<1>2. [states[r] EXCEPT !.leavesExecuted = n, !.status = status]
      \in MerkleRootState
  BY <1>1 DEF MerkleRootState
<1> QED
  BY <1>2

(* Storing the canceled and the canceling root keeps the type of the storage. *)
LEMMA StoreCancel ==
    ASSUME NEW states \in [Roots -> MerkleRootState], NEW old \in Roots,
           NEW r \in Roots, NEW caller \in Accounts \cup {NoRoot}
    PROVE  [states EXCEPT
              ![old].status = "CANCELED",
              ![r] = [numLeaves |-> 1, leavesExecuted |-> 1,
                      executor |-> caller, status |-> "COMPLETED",
                      arbitraryChain |-> @.arbitraryChain]]
           \in [Roots -> MerkleRootState]
<1>1. PICK canceled :
        canceled = [states EXCEPT ![old] = [@ EXCEPT !.status = "CANCELED"]]
  OBVIOUS
<1>2. [states[old] EXCEPT !.status = "CANCELED"] \in MerkleRootState
  BY DEF MerkleRootState, MerkleRootStatus
<1>3. canceled \in [Roots -> MerkleRootState]
  BY <1>1, <1>2
<1>4. canceled[r].arbitraryChain \in BOOLEAN
  BY <1>3 DEF MerkleRootState
<1>5. [numLeaves |-> 1, leavesExecuted |-> 1, executor |-> caller,
       status |-> "COMPLETED", arbitraryChain |-> canceled[r].arbitraryChain]
      \in MerkleRootState
  BY <1>4 DEF MerkleRootState, MerkleRootStatus
<1> QED
  BY <1>1, <1>3, <1>5

(* The type invariant: storage and call frame keep their types.            *)
THEOREM TypeCorrect == Spec => []TypeOK
<1>1. Init => TypeOK
  BY ConstantsAssumption
     DEF Init, TypeOK, EmptyState, MerkleRootState, MerkleRootStatus, Idle,
         ActionLog
<1>2. TypeOK /\ [Next]_vars => TypeOK'
  <2> SUFFICES ASSUME TypeOK, [Next]_vars PROVE TypeOK'
    OBVIOUS
  <2>1. ASSUME NEW caller \in Accounts, NEW r \in Roots, NEW leaf \in Tree[r],
               Approve(caller, r, leaf)
        PROVE  TypeOK'
    <3>1. leaf.numLeaves \in Nat /\ leaf.arbitraryChain \in BOOLEAN
          /\ (leaf.nonce + 1) % NonceSpace \in 0 .. NonceSpace - 1
      BY <2>1, FirstLeafShape, ConstantsAssumption DEF Approve, ValidFirstLeaf
    <3>2. merkleRootStates' \in [Roots -> MerkleRootState]
      BY <2>1, <3>1 DEF Approve, TypeOK, MerkleRootState, MerkleRootStatus,
                        ApprovedStatus
    <3>3. usedRoots' \in Seq(Roots) /\ activeMerkleRoot' \in Roots \cup {NoRoot}
      BY <2>1 DEF Approve, TypeOK
    <3> QED
      BY <2>1, <3>1, <3>2, <3>3 DEF Approve, TypeOK
  <2>2. ASSUME NEW caller \in Accounts, NEW r \in Roots, NEW leaf \in Tree[r],
               Cancel(caller, r, leaf)
        PROVE  TypeOK'
    <3>1. leaf.rootToCancel \in Roots
          /\ (leaf.nonce + 1) % NonceSpace \in 0 .. NonceSpace - 1
      BY <2>2, FirstLeafShape, ConstantsAssumption DEF Cancel, ValidFirstLeaf
    <3>2. merkleRootStates \in [Roots -> MerkleRootState]
          /\ caller \in Accounts \cup {NoRoot}
      BY <2>2 DEF TypeOK
    <3>3. merkleRootStates' \in [Roots -> MerkleRootState]
      BY <2>2, <3>1, <3>2, StoreCancel DEF Cancel
    <3>4. usedRoots' \in Seq(Roots)
      BY <2>2 DEF Cancel, TypeOK
    <3> QED
      BY <2>2, <3>1, <3>3, <3>4 DEF Cancel, TypeOK
  <2>3. ASSUME NEW caller \in Accounts, NEW n \in 0 .. MaxBatch,
               ExecuteStart(caller, n)
        PROVE  TypeOK'
    <3>1. activeMerkleRoot \in Roots
      BY <2>3 DEF ExecuteStart, TypeOK
    <3>2. frame' \in LoopFrame
      BY <2>3, <3>1, ConstantsAssumption
         DEF ExecuteStart, TypeOK, LoopFrame, MerkleRootState
    <3> QED
      BY <2>3, <3>2 DEF ExecuteStart, TypeOK
  <2>4. ASSUME NEW r \in Roots, NEW leaf \in Tree[r], ExecuteLeaf(leaf)
        PROVE  TypeOK'
    <3>1. frame \in LoopFrame
      BY <2>4 DEF ExecuteLeaf, TypeOK, Idle, CallFrame
    <3>2. frame' \in CallFrame
      BY <2>4, <3>1 DEF ExecuteLeaf, TypeOK, LoopFrame, CallFrame
    <3> QED
      BY <2>4, <3>2 DEF ExecuteLeaf, TypeOK
  <2>5. ASSUME NEW success \in BOOLEAN, SafeReturn(success)
        PROVE  TypeOK'
    <3>1. frame \in CallFrame
      BY <2>5 DEF SafeReturn, TypeOK, Idle, LoopFrame
    <3>2. safe' \in SafeState
      BY <2>5, <3>1 DEF SafeReturn, TypeOK, CallFrame
    <3>3. actions' \in ActionLog
      <4>1. frame.root \in Roots /\ frame.leaf \in UNION {Tree[r] : r \in Roots}
        BY <3>1 DEF CallFrame
      <4>2. [leaf |-> frame.leaf, success |-> success] \in Action
        BY <4>1 DEF Action
      <4>3. Append(actions[frame.root], [leaf |-> frame.leaf, success |-> success])
            \in Seq(Action)
        BY <4>1, <4>2 DEF TypeOK, ActionLog
      <4> QED
        BY <2>5, <4>1, <4>3 DEF SafeReturn, TypeOK, ActionLog
    <3>4. CASE FailsRoot(success)
      <4>1. merkleRootStates' \in [Roots -> MerkleRootState]
        <5>1. frame.root \in Roots /\ frame.leavesExecuted \in Nat
              /\ "FAILED" \in MerkleRootStatus
          BY <3>1 DEF CallFrame, MerkleRootStatus
        <5>2. merkleRootStates' =
                [merkleRootStates EXCEPT ![frame.root] =
                    [@ EXCEPT !.leavesExecuted = frame.leavesExecuted,
                              !.status = "FAILED"]]
          BY <2>5, <3>4 DEF SafeReturn
        <5>3. merkleRootStates \in [Roots -> MerkleRootState]
          BY DEF TypeOK
        <5> QED
          BY <5>1, <5>2, <5>3, StoreOutcome, Zenon
      <4> QED
        BY <2>5, <3>2, <3>3, <3>4, <4>1 DEF SafeReturn, TypeOK
    <3>5. CASE ~FailsRoot(success)
      <4>1. frame' \in LoopFrame
        BY <2>5, <3>1, <3>5 DEF SafeReturn, CallFrame, LoopFrame
      <4> QED
        BY <2>5, <3>2, <3>3, <3>5, <4>1 DEF SafeReturn, TypeOK
    <3> QED
      BY <3>4, <3>5
  <2>6. ASSUME ExecuteFinish
        PROVE  TypeOK'
    <3>1. frame \in LoopFrame
      BY <2>6 DEF ExecuteFinish, TypeOK, Idle, CallFrame
    <3>2. merkleRootStates' \in [Roots -> MerkleRootState]
      <4>1. frame.root \in Roots /\ frame.leavesExecuted \in Nat
        BY <3>1 DEF LoopFrame
      <4> DEFINE status == IF AllExecuted THEN "COMPLETED"
                           ELSE merkleRootStates[frame.root].status
      <4>2. status \in MerkleRootStatus
        BY <4>1 DEF TypeOK, MerkleRootState, MerkleRootStatus
      <4>3. merkleRootStates' =
              [merkleRootStates EXCEPT ![frame.root] =
                  [@ EXCEPT !.leavesExecuted = frame.leavesExecuted,
                            !.status = status]]
        BY <2>6 DEF ExecuteFinish
      <4>4. merkleRootStates \in [Roots -> MerkleRootState]
        BY DEF TypeOK
      <4> HIDE DEF status
      <4> QED
        BY <4>1, <4>2, <4>3, <4>4, StoreOutcome, Zenon
    <3> QED
      BY <2>6, <3>2 DEF ExecuteFinish, TypeOK
  <2>7. ASSUME ExecuteRevert
        PROVE  TypeOK'
    <3>1. frame \in LoopFrame \cup CallFrame
      BY <2>7 DEF ExecuteRevert, TypeOK, Idle
    <3>2. safe' \in SafeState /\ actions' \in ActionLog
      BY <2>7, <3>1 DEF ExecuteRevert, LoopFrame, CallFrame
    <3> QED
      BY <2>7, <3>2 DEF ExecuteRevert, TypeOK
  <2>8. ASSUME NEW new \in SafeState, SafeReconfigure(new)
        PROVE  TypeOK'
    BY <2>8 DEF SafeReconfigure, TypeOK
  <2>9. CASE UNCHANGED vars
    BY <2>9 DEF vars, TypeOK
  <2> QED
    BY <2>1, <2>2, <2>3, <2>4, <2>5, <2>6, <2>7, <2>8, <2>9 DEF Next
<1> QED
  BY <1>1, <1>2, PTL DEF Spec

-----------------------------------------------------------------------------
(* The inductive invariant.  The properties of SphinxModule do not say     *)
(* what a reverted call returns to, nor what the leaf in flight was        *)
(* checked for; these two parts do.                                        *)

(* Storage of the active root: it is not at its end. *)
ActiveHasLeavesLeft ==
    \A r \in Roots :
        LET state == merkleRootStates[r] IN
        state.status = "APPROVED" =>
            1 <= state.leavesExecuted /\ state.leavesExecuted < state.numLeaves

(* The saved log is what the log was before the call: the same for every   *)
(* other root, and a prefix for the one that is being executed.            *)
SavedIsPrefix ==
    Open =>
        LET saved == frame.saved.actions
            r == frame.root
        IN /\ \A q \in Roots : q # r => saved[q] = actions[q]
           /\ Len(saved[r]) <= Len(actions[r])
           /\ \A i \in 1 .. Len(saved[r]) : saved[r][i] = actions[r][i]

(* The leaf whose transaction is running passed the checks. *)
LeafInFlight ==
    frame.pc = "call" =>
        /\ frame.leaf \in Tree[frame.root]
        /\ frame.leaf.leafType = "EXECUTE"
        /\ frame.leaf.index + 1 = frame.leavesExecuted
        /\ ValidChain(frame.leaf, frame.arbitraryChain)

IInv ==
    /\ TypeOK
    /\ ActiveIsApproved
    /\ CachedStateFresh
    /\ ExecutedInOrder
    /\ OutcomeMatchesActions
    /\ ActiveHasLeavesLeft
    /\ SavedIsPrefix
    /\ LeafInFlight

(* What the type invariant says of single values. *)
LEMMA Types ==
    ASSUME TypeOK
    PROVE  /\ \A r \in Roots :
                 /\ merkleRootStates[r].leavesExecuted \in Nat
                 /\ merkleRootStates[r].numLeaves \in Nat
                 /\ actions[r] \in Seq(Action)
                 /\ Len(actions[r]) \in Nat
           /\ Open => frame \in LoopFrame \cup CallFrame
           /\ frame.pc = "loop" => frame \in LoopFrame
           /\ frame.pc = "call" => frame \in CallFrame
           /\ Open =>
                 /\ frame.root \in Roots
                 /\ frame.leavesExecuted \in Nat /\ frame.left \in Nat
                 /\ frame.saved.actions \in ActionLog
                 /\ \A r \in Roots : Len(frame.saved.actions[r]) \in Nat
<1>1. \A r \in Roots :
          /\ merkleRootStates[r].leavesExecuted \in Nat
          /\ merkleRootStates[r].numLeaves \in Nat
  BY DEF TypeOK, MerkleRootState
<1>2. \A r \in Roots : actions[r] \in Seq(Action)
  BY DEF TypeOK, ActionLog
<1>3. \A r \in Roots : Len(actions[r]) \in Nat
  BY <1>2
<1>4. /\ Open => frame \in LoopFrame \cup CallFrame
      /\ frame.pc = "loop" => frame \in LoopFrame
      /\ frame.pc = "call" => frame \in CallFrame
  BY DEF TypeOK, Open, Idle, LoopFrame, CallFrame
<1>5. Open =>
          /\ frame.root \in Roots
          /\ frame.leavesExecuted \in Nat /\ frame.left \in Nat
          /\ frame.saved.actions \in ActionLog
  BY <1>4 DEF LoopFrame, CallFrame
<1>6. Open => \A r \in Roots : Len(frame.saved.actions[r]) \in Nat
  BY <1>5 DEF ActionLog
<1> QED
  BY <1>1, <1>2, <1>3, <1>4, <1>5, <1>6

(* The states of all roots after an approval ... *)
LEMMA ApproveEffect ==
    ASSUME TypeOK, NEW caller \in Accounts, NEW r \in Roots,
           NEW leaf \in Tree[r], Approve(caller, r, leaf)
    PROVE  /\ merkleRootStates'[r].numLeaves = leaf.numLeaves
           /\ merkleRootStates'[r].leavesExecuted = 1
           /\ merkleRootStates'[r].arbitraryChain = leaf.arbitraryChain
           /\ merkleRootStates'[r].status =
                 IF leaf.numLeaves = 1 THEN "COMPLETED" ELSE "APPROVED"
           /\ \A q \in Roots : q # r =>
                 merkleRootStates'[q] = merkleRootStates[q]
           /\ merkleRootStates[r].status = "EMPTY"
           /\ leaf.numLeaves \in Nat /\ leaf.numLeaves > 0
           /\ frame.pc = "idle" /\ frame' = frame /\ actions' = actions
<1>1. leaf.numLeaves \in Nat
  BY FirstLeafShape, ConstantsAssumption DEF Approve, ValidFirstLeaf
<1> QED
  BY <1>1 DEF Approve, TypeOK, ApprovedStatus, Unused, nonReentrant

(* ... and after a cancellation. *)
LEMMA CancelEffect ==
    ASSUME TypeOK, ActiveIsApproved, NEW caller \in Accounts, NEW r \in Roots,
           NEW leaf \in Tree[r], Cancel(caller, r, leaf)
    PROVE  /\ activeMerkleRoot \in Roots /\ activeMerkleRoot # r
           /\ merkleRootStates'[r].numLeaves = 1
           /\ merkleRootStates'[r].leavesExecuted = 1
           /\ merkleRootStates'[r].status = "COMPLETED"
           /\ merkleRootStates'[activeMerkleRoot] =
                  [merkleRootStates[activeMerkleRoot] EXCEPT !.status = "CANCELED"]
           /\ \A q \in Roots : q \notin {r, activeMerkleRoot} =>
                 merkleRootStates'[q] = merkleRootStates[q]
           /\ merkleRootStates[r].status = "EMPTY"
           /\ merkleRootStates[activeMerkleRoot].status = "APPROVED"
           /\ frame.pc = "idle" /\ frame' = frame /\ actions' = actions
<1>1. activeMerkleRoot \in Roots /\ leaf.rootToCancel = activeMerkleRoot
  BY DEF Cancel, TypeOK
<1>2. merkleRootStates[r].status = "EMPTY"
      /\ merkleRootStates[activeMerkleRoot].status = "APPROVED"
  BY <1>1 DEF Cancel, Unused, ActiveIsApproved
<1> QED
  BY <1>1, <1>2 DEF Cancel, TypeOK, nonReentrant

(* A log that follows the tree goes on following it with the next leaf ... *)
LEMMA AppendFollowsTree ==
    ASSUME NEW log \in Seq(Action), NEW r, NEW arbitraryChain,
           FollowsTree(log, r, arbitraryChain),
           NEW action \in Action,
           action.leaf \in Tree[r],
           action.leaf.leafType = "EXECUTE",
           action.leaf.index = Len(log) + 1,
           ValidChain(action.leaf, arbitraryChain)
    PROVE  FollowsTree(Append(log, action), r, arbitraryChain)
<1> SUFFICES ASSUME NEW i \in 1 .. Len(log) + 1
             PROVE  /\ Append(log, action)[i].leaf \in Tree[r]
                    /\ Append(log, action)[i].leaf.leafType = "EXECUTE"
                    /\ Append(log, action)[i].leaf.index = i
                    /\ ValidChain(Append(log, action)[i].leaf, arbitraryChain)
  BY DEF FollowsTree
<1>1. CASE i = Len(log) + 1
  <2>1. Append(log, action)[i] = action
    BY <1>1
  <2> QED
    BY <1>1, <2>1
<1>2. CASE i \in 1 .. Len(log)
  <2>1. Append(log, action)[i] = log[i]
    BY <1>2
  <2> QED
    BY <1>2, <2>1 DEF FollowsTree
<1> QED
  BY <1>1, <1>2

(* ... and so does what is left of it when it is cut back. *)
LEMMA PrefixFollowsTree ==
    ASSUME NEW log \in Seq(Action), NEW prefix \in Seq(Action),
           NEW r, NEW arbitraryChain,
           FollowsTree(log, r, arbitraryChain),
           Len(prefix) <= Len(log),
           \A i \in 1 .. Len(prefix) : prefix[i] = log[i]
    PROVE  FollowsTree(prefix, r, arbitraryChain)
<1> SUFFICES ASSUME NEW i \in 1 .. Len(prefix)
             PROVE  i \in 1 .. Len(log) /\ prefix[i] = log[i]
  BY DEF FollowsTree
<1> QED
  OBVIOUS

(* One more action of an APPROVED root: the root fails by it if it was     *)
(* fatal, and stays approved, or is complete, if it was not.               *)
LEMMA AppendOutcome ==
    ASSUME NEW log \in Seq(Action), NEW numLeaves \in Nat, NEW action \in Action,
           Outcome("APPROVED", numLeaves, log),
           Len(log) + 2 <= numLeaves
    PROVE  /\ action.success = FALSE /\ action.leaf.requireSuccess =>
                 Outcome("FAILED", numLeaves, Append(log, action))
           /\ ~(action.success = FALSE /\ action.leaf.requireSuccess) =>
                 Outcome("APPROVED", numLeaves, Append(log, action))
<1> DEFINE new == Append(log, action)
<1>1. new \in Seq(Action) /\ Len(new) = Len(log) + 1 /\ Len(log) \in Nat
      /\ new[Len(log) + 1] = action
      /\ \A i \in 1 .. Len(log) : new[i] = log[i]
  OBVIOUS
<1>2. \A i \in 1 .. Len(log) : ~FatalAt(log, i)
  BY DEF Outcome
<1> HIDE DEF new
<1>3. \A i \in 1 .. Len(log) : ~FatalAt(new, i)
  BY <1>1, <1>2 DEF FatalAt
<1>4. FatalAt(new, Len(log) + 1) <=>
          action.success = FALSE /\ action.leaf.requireSuccess
  BY <1>1 DEF FatalAt
<1>5. \A i \in 1 .. Len(new) : FatalAt(new, i) => i = Len(new)
  BY <1>1, <1>3
<1>6. ASSUME FatalAt(new, Len(new)) PROVE Outcome("FAILED", numLeaves, new)
  BY <1>1, <1>5, <1>6 DEF Outcome
<1>7. ASSUME ~FatalAt(new, Len(new)) PROVE Outcome("APPROVED", numLeaves, new)
  BY <1>1, <1>5, <1>7 DEF Outcome
<1> QED
  BY <1>1, <1>4, <1>6, <1>7 DEF new

(* A prefix of the log of an APPROVED root: no action of it was fatal. *)
LEMMA PrefixOutcome ==
    ASSUME NEW log \in Seq(Action), NEW prefix \in Seq(Action), NEW numLeaves,
           Outcome("APPROVED", numLeaves, log),
           Len(prefix) <= Len(log),
           \A i \in 1 .. Len(prefix) : prefix[i] = log[i]
    PROVE  Outcome("APPROVED", numLeaves, prefix)
<1>1. \A i \in 1 .. Len(prefix) : i \in 1 .. Len(log) /\ prefix[i] = log[i]
  OBVIOUS
<1>2. \A i \in 1 .. Len(log) : ~FatalAt(log, i)
  BY DEF Outcome
<1>3. \A i \in 1 .. Len(prefix) : ~FatalAt(prefix, i)
  BY <1>1, <1>2 DEF FatalAt
<1> QED
  BY <1>3 DEF Outcome

-----------------------------------------------------------------------------
(* Each action preserves the invariant. *)

LEMMA ApproveKeepsIInv ==
    ASSUME IInv, TypeOK', NEW caller \in Accounts, NEW r \in Roots,
           NEW leaf \in Tree[r], Approve(caller, r, leaf)
    PROVE  IInv'
<1> USE DEF IInv
<1>1. /\ merkleRootStates'[r].numLeaves = leaf.numLeaves
      /\ merkleRootStates'[r].leavesExecuted = 1
      /\ merkleRootStates'[r].status =
            IF leaf.numLeaves = 1 THEN "COMPLETED" ELSE "APPROVED"
      /\ \A q \in Roots : q # r => merkleRootStates'[q] = merkleRootStates[q]
      /\ merkleRootStates[r].status = "EMPTY"
      /\ leaf.numLeaves \in Nat /\ leaf.numLeaves > 0
      /\ ~Open /\ ~Open' /\ frame' = frame /\ actions' = actions
  BY ApproveEffect DEF Open
<1>2. activeMerkleRoot = NoRoot
      /\ activeMerkleRoot' = IF leaf.numLeaves = 1 THEN NoRoot ELSE r
  BY DEF Approve
<1>3. Len(actions[r]) = 0
  BY <1>1 DEF OutcomeMatchesActions, Outcome
<1>4. ActiveIsApproved'
  BY <1>1, <1>2, ConstantsAssumption DEF ActiveIsApproved
<1>5. CachedStateFresh' /\ SavedIsPrefix' /\ LeafInFlight'
  BY <1>1 DEF CachedStateFresh, SavedIsPrefix, LeafInFlight, Open
<1>6. ExecutedInOrder'
  BY <1>1, <1>3 DEF ExecutedInOrder, CountedActions, FollowsTree
<1>7. OutcomeMatchesActions'
  BY <1>1, <1>3 DEF OutcomeMatchesActions, Outcome, FatalAt
<1>8. ActiveHasLeavesLeft'
  BY <1>1 DEF ActiveHasLeavesLeft
<1> QED
  BY <1>4, <1>5, <1>6, <1>7, <1>8

LEMMA CancelKeepsIInv ==
    ASSUME IInv, TypeOK', NEW caller \in Accounts, NEW r \in Roots,
           NEW leaf \in Tree[r], Cancel(caller, r, leaf)
    PROVE  IInv'
<1> USE DEF IInv
<1> DEFINE a == activeMerkleRoot
<1>1. /\ a \in Roots /\ a # r
      /\ merkleRootStates[r].status = "EMPTY"
      /\ merkleRootStates[a].status = "APPROVED"
      /\ \A q \in Roots : q \notin {r, a} =>
            merkleRootStates'[q] = merkleRootStates[q]
      /\ ~Open /\ ~Open' /\ frame' = frame /\ actions' = actions
  BY CancelEffect DEF Open
<1>2. /\ merkleRootStates'[r].numLeaves = 1
      /\ merkleRootStates'[r].leavesExecuted = 1
      /\ merkleRootStates'[r].status = "COMPLETED"
  BY CancelEffect
<1>3. /\ merkleRootStates'[a].numLeaves = merkleRootStates[a].numLeaves
      /\ merkleRootStates'[a].leavesExecuted = merkleRootStates[a].leavesExecuted
      /\ merkleRootStates'[a].arbitraryChain = merkleRootStates[a].arbitraryChain
      /\ merkleRootStates'[a].status = "CANCELED"
  <2>1. merkleRootStates[a] \in MerkleRootState
    BY <1>1 DEF TypeOK
  <2> QED
    BY <2>1, CancelEffect DEF MerkleRootState
<1>4. activeMerkleRoot' = NoRoot
  BY DEF Cancel
<1>5. Len(actions[r]) = 0
  BY <1>1 DEF OutcomeMatchesActions, Outcome
<1>6. ActiveIsApproved'
  BY <1>1, <1>2, <1>3, <1>4, ConstantsAssumption DEF ActiveIsApproved
<1>7. CachedStateFresh' /\ SavedIsPrefix' /\ LeafInFlight'
  BY <1>1 DEF CachedStateFresh, SavedIsPrefix, LeafInFlight, Open
<1>8. ExecutedInOrder'
  <2> SUFFICES ASSUME NEW q \in Roots
               PROVE  /\ merkleRootStates'[q].status # "EMPTY" =>
                            Len(actions[q]) = merkleRootStates'[q].leavesExecuted - 1
                      /\ FollowsTree(actions[q], q,
                                     merkleRootStates'[q].arbitraryChain)
    BY <1>1 DEF ExecutedInOrder, CountedActions, FollowsTree, ValidChain
  <2>1. CASE q = r
    BY <2>1, <1>2, <1>5 DEF FollowsTree
  <2>2. CASE q = a
    BY <2>2, <1>1, <1>3 DEF ExecutedInOrder, CountedActions
  <2>3. CASE q \notin {r, a}
    BY <2>3, <1>1 DEF ExecutedInOrder, CountedActions
  <2> QED
    BY <2>1, <2>2, <2>3
<1>9. OutcomeMatchesActions'
  BY <1>1, <1>2, <1>3, <1>5 DEF OutcomeMatchesActions, Outcome, FatalAt
<1>10. ActiveHasLeavesLeft'
  BY <1>1, <1>2, <1>3 DEF ActiveHasLeavesLeft
<1> QED
  BY <1>6, <1>7, <1>8, <1>9, <1>10

LEMMA ExecuteStartKeepsIInv ==
    ASSUME IInv, TypeOK', NEW caller \in Accounts, NEW n \in 0 .. MaxBatch,
           ExecuteStart(caller, n)
    PROVE  IInv'
<1> USE DEF IInv
<1> DEFINE a == activeMerkleRoot
<1>1. /\ a \in Roots /\ ~Open /\ Open' /\ frame'.pc = "loop"
      /\ frame'.root = a
      /\ frame'.leavesExecuted = merkleRootStates[a].leavesExecuted
      /\ frame'.arbitraryChain = merkleRootStates[a].arbitraryChain
      /\ frame'.left = n
      /\ frame'.saved.actions = actions
      /\ merkleRootStates' = merkleRootStates
      /\ activeMerkleRoot' = activeMerkleRoot /\ actions' = actions
      /\ merkleRootStates[a].numLeaves >= merkleRootStates[a].leavesExecuted + n
  BY DEF ExecuteStart, TypeOK, Open, nonReentrant
<1>2. merkleRootStates[a].status = "APPROVED"
  BY <1>1 DEF ActiveIsApproved
<1>3. Len(actions[a]) = merkleRootStates[a].leavesExecuted - 1
  BY <1>1, <1>2 DEF ExecutedInOrder, CountedActions
<1>4. ActiveIsApproved' /\ ActiveHasLeavesLeft'
  BY <1>1 DEF ActiveIsApproved, ActiveHasLeavesLeft
<1>5. CachedStateFresh'
  BY <1>1, <1>3, Types, ConstantsAssumption DEF CachedStateFresh
<1>6. ExecutedInOrder'
  BY <1>1, <1>3 DEF ExecutedInOrder, CountedActions
<1>7. OutcomeMatchesActions'
  BY <1>1 DEF OutcomeMatchesActions, Outcome, FatalAt
<1>8. SavedIsPrefix' /\ LeafInFlight'
  BY <1>1, Types DEF SavedIsPrefix, LeafInFlight
<1> QED
  BY <1>4, <1>5, <1>6, <1>7, <1>8

LEMMA ExecuteLeafKeepsIInv ==
    ASSUME IInv, TypeOK', NEW r \in Roots, NEW leaf \in Tree[r],
           ExecuteLeaf(leaf)
    PROVE  IInv'
<1> USE DEF IInv
<1>1. /\ Open /\ Open' /\ frame.pc = "loop" /\ frame'.pc = "call"
      /\ frame'.root = frame.root
      /\ frame'.leavesExecuted = frame.leavesExecuted + 1
      /\ frame'.arbitraryChain = frame.arbitraryChain
      /\ frame'.left = frame.left - 1
      /\ frame'.saved = frame.saved
      /\ frame'.leaf = leaf
      /\ merkleRootStates' = merkleRootStates
      /\ activeMerkleRoot' = activeMerkleRoot /\ actions' = actions
  BY DEF ExecuteLeaf, Open
<1>2. frame.leavesExecuted \in Nat /\ frame.left \in Nat /\ frame.root \in Roots
  BY <1>1, Types
<1>3. ActiveIsApproved' /\ ActiveHasLeavesLeft'
  BY <1>1 DEF ActiveIsApproved, ActiveHasLeavesLeft
<1>4. CachedStateFresh'
  BY <1>1, <1>2 DEF CachedStateFresh
<1>5. ExecutedInOrder'
  BY <1>1, <1>2 DEF ExecutedInOrder, CountedActions
<1>6. OutcomeMatchesActions'
  BY <1>1 DEF OutcomeMatchesActions, Outcome, FatalAt
<1>7. SavedIsPrefix'
  BY <1>1 DEF SavedIsPrefix
<1>8. LeafInFlight'
  BY <1>1, <1>2 DEF LeafInFlight, ExecuteLeaf, NextLeaf
<1> QED
  BY <1>3, <1>4, <1>5, <1>6, <1>7, <1>8

(* What the Safe's return adds to the log, whichever way the call goes on. *)
LEMMA SafeReturnEffect ==
    ASSUME IInv, NEW success \in BOOLEAN, SafeReturn(success),
           NEW r, r = frame.root,
           NEW action, action = [leaf |-> frame.leaf, success |-> success]
    PROVE  /\ Open /\ frame.pc = "call" /\ r \in Roots /\ activeMerkleRoot = r
           /\ merkleRootStates[r].status = "APPROVED"
           /\ merkleRootStates[r].arbitraryChain = frame.arbitraryChain
           /\ merkleRootStates[r].numLeaves \in Nat
           /\ frame.leavesExecuted + frame.left <= merkleRootStates[r].numLeaves
           /\ frame.leavesExecuted \in Nat /\ frame.left \in Nat
           /\ actions[r] \in Seq(Action)
           /\ Len(actions[r]) = frame.leavesExecuted - 2
           /\ action \in Action
           /\ actions'[r] = Append(actions[r], action)
           /\ \A q \in Roots : q # r => actions'[q] = actions[q]
<1> USE DEF IInv
<1>1. Open /\ frame.pc = "call" /\ frame.root \in Roots /\ frame \in CallFrame
      /\ frame.leavesExecuted \in Nat /\ frame.left \in Nat
  BY Types DEF SafeReturn, Open
<1>2. /\ activeMerkleRoot = r
      /\ merkleRootStates[r].status = "APPROVED"
      /\ merkleRootStates[r].arbitraryChain = frame.arbitraryChain
      /\ frame.leavesExecuted + frame.left <= merkleRootStates[r].numLeaves
  BY <1>1 DEF CachedStateFresh, ActiveIsApproved
<1>3. Len(actions[r]) = frame.leavesExecuted - 2
  BY <1>1, <1>2 DEF ExecutedInOrder, CountedActions
<1>4. actions[r] \in Seq(Action) /\ merkleRootStates[r].numLeaves \in Nat
  BY <1>1, Types
<1>5. action \in Action
  BY <1>1 DEF CallFrame, Action
<1>6. actions \in [Roots -> Seq(Action)]
  BY DEF TypeOK, ActionLog
<1>7. /\ actions'[r] = Append(actions[r], action)
      /\ \A q \in Roots : q # r => actions'[q] = actions[q]
  BY <1>1, <1>6 DEF SafeReturn
<1> QED
  BY <1>1, <1>2, <1>3, <1>4, <1>5, <1>7

(* The lengthened log still follows the tree. *)
LEMMA SafeReturnFollowsTree ==
    ASSUME IInv, NEW success \in BOOLEAN, SafeReturn(success)
    PROVE  \A q \in Roots :
              FollowsTree(actions'[q], q, merkleRootStates[q].arbitraryChain)
<1> SUFFICES ASSUME NEW q \in Roots
             PROVE  FollowsTree(actions'[q], q, merkleRootStates[q].arbitraryChain)
  OBVIOUS
<1>1. FollowsTree(actions[q], q, merkleRootStates[q].arbitraryChain)
  BY DEF IInv, ExecutedInOrder
<1>2. PICK action : action = [leaf |-> frame.leaf, success |-> success]
  OBVIOUS
<1>3. CASE q # frame.root
  BY <1>1, <1>2, <1>3, SafeReturnEffect
<1>4. CASE q = frame.root
  <2>1. /\ frame.pc = "call"
        /\ actions[q] \in Seq(Action)
        /\ Len(actions[q]) = frame.leavesExecuted - 2
        /\ frame.leavesExecuted \in Nat
        /\ merkleRootStates[q].arbitraryChain = frame.arbitraryChain
        /\ action \in Action
        /\ actions'[q] = Append(actions[q], action)
    BY <1>2, <1>4, SafeReturnEffect
  <2>2. action.leaf = frame.leaf
    BY <1>2
  <2>3. /\ action.leaf \in Tree[q]
        /\ action.leaf.leafType = "EXECUTE"
        /\ action.leaf.index + 1 = frame.leavesExecuted
        /\ ValidChain(action.leaf, merkleRootStates[q].arbitraryChain)
    BY <1>4, <2>1, <2>2 DEF IInv, LeafInFlight
  <2>4. action.leaf.index \in Nat
    BY <2>3, ConstantsAssumption DEF LeafShape
  <2>5. action.leaf.index = Len(actions[q]) + 1
    BY <2>1, <2>3, <2>4
  <2> QED
    BY <1>1, <2>1, <2>3, <2>5, AppendFollowsTree
<1> QED
  BY <1>3, <1>4

(* The lengthened log matches the status that the module stores. *)
LEMMA SafeReturnOutcome ==
    ASSUME IInv, NEW success \in BOOLEAN, SafeReturn(success),
           NEW r, r = frame.root
    PROVE  /\ FailsRoot(success) =>
                 Outcome("FAILED", merkleRootStates[r].numLeaves, actions'[r])
           /\ ~FailsRoot(success) =>
                 Outcome("APPROVED", merkleRootStates[r].numLeaves, actions'[r])
<1>1. PICK action : action = [leaf |-> frame.leaf, success |-> success]
  OBVIOUS
<1>2. /\ actions[r] \in Seq(Action)
      /\ r \in Roots
      /\ merkleRootStates[r].status = "APPROVED"
      /\ merkleRootStates[r].numLeaves \in Nat
      /\ Len(actions[r]) = frame.leavesExecuted - 2
      /\ frame.leavesExecuted \in Nat /\ frame.left \in Nat
      /\ frame.leavesExecuted + frame.left <= merkleRootStates[r].numLeaves
      /\ action \in Action
      /\ actions'[r] = Append(actions[r], action)
  BY <1>1, SafeReturnEffect
<1>3. Outcome("APPROVED", merkleRootStates[r].numLeaves, actions[r])
  BY <1>2 DEF IInv, OutcomeMatchesActions
<1>4. FailsRoot(success) <=> action.success = FALSE /\ action.leaf.requireSuccess
  <2>1. action.leaf = frame.leaf /\ (action.success = FALSE <=> ~success)
    <3>1. CASE success = TRUE
      BY <1>1, <3>1
    <3>2. CASE success = FALSE
      BY <1>1, <3>2
    <3> QED
      BY <3>1, <3>2
  <2> QED
    BY <2>1 DEF FailsRoot
<1>5. Len(actions[r]) + 2 <= merkleRootStates[r].numLeaves
  BY <1>2
<1> QED
  BY <1>2, <1>3, <1>4, <1>5, AppendOutcome

(* A failed leaf that had to succeed: the root is FAILED and inactive. *)
LEMMA SafeReturnFailsKeepsIInv ==
    ASSUME IInv, TypeOK', NEW success \in BOOLEAN, SafeReturn(success),
           FailsRoot(success)
    PROVE  IInv'
<1>1. PICK r : r = frame.root
  OBVIOUS
<1>2. PICK action : action = [leaf |-> frame.leaf, success |-> success]
  OBVIOUS
<1>3. /\ Open /\ frame.pc = "call" /\ r \in Roots /\ activeMerkleRoot = r
      /\ merkleRootStates[r].status = "APPROVED"
      /\ frame.leavesExecuted \in Nat
      /\ actions[r] \in Seq(Action)
      /\ Len(actions[r]) = frame.leavesExecuted - 2
      /\ actions'[r] = Append(actions[r], action)
      /\ \A q \in Roots : q # r => actions'[q] = actions[q]
  BY <1>1, <1>2, SafeReturnEffect
<1>4. Len(actions'[r]) = frame.leavesExecuted - 1
  BY <1>3
<1>5. /\ merkleRootStates' =
            [merkleRootStates EXCEPT ![r] =
                [@ EXCEPT !.leavesExecuted = frame.leavesExecuted,
                          !.status = "FAILED"]]
      /\ activeMerkleRoot' = NoRoot /\ frame' = Idle
  BY <1>1 DEF SafeReturn
<1>6. merkleRootStates \in [Roots -> MerkleRootState]
  BY DEF IInv, TypeOK
<1>7. /\ merkleRootStates'[r].numLeaves = merkleRootStates[r].numLeaves
      /\ merkleRootStates'[r].arbitraryChain = merkleRootStates[r].arbitraryChain
      /\ merkleRootStates'[r].leavesExecuted = frame.leavesExecuted
      /\ merkleRootStates'[r].status = "FAILED"
      /\ \A q \in Roots : q # r => merkleRootStates'[q] = merkleRootStates[q]
  <2>1. r \in Roots
    BY <1>3
  <2>2. merkleRootStates' =
            [merkleRootStates EXCEPT ![r] =
                [@ EXCEPT !.leavesExecuted = frame.leavesExecuted,
                          !.status = "FAILED"]]
    BY <1>5
  <2>3. merkleRootStates[r] \in MerkleRootState
    BY <1>6, <2>1
  <2>4. merkleRootStates'[r] =
            [merkleRootStates[r] EXCEPT !.leavesExecuted = frame.leavesExecuted,
                                        !.status = "FAILED"]
    BY <1>6, <2>1, <2>2
  <2>5. \A q \in Roots : q # r => merkleRootStates'[q] = merkleRootStates[q]
    BY <1>6, <2>1, <2>2
  <2> QED
    BY <2>3, <2>4, <2>5 DEF MerkleRootState
<1>8. ~Open'
  BY <1>5 DEF Open, Idle
<1>9. ActiveIsApproved'
  BY <1>3, <1>5, <1>7, ConstantsAssumption DEF IInv, ActiveIsApproved
<1>10. CachedStateFresh' /\ SavedIsPrefix' /\ LeafInFlight'
  BY <1>5, <1>8 DEF CachedStateFresh, SavedIsPrefix, LeafInFlight, Idle
<1>11. ExecutedInOrder'
  <2>1. \A q \in Roots :
           FollowsTree(actions'[q], q, merkleRootStates'[q].arbitraryChain)
    BY <1>7, SafeReturnFollowsTree
  <2>2. ASSUME NEW q \in Roots, merkleRootStates'[q].status # "EMPTY"
        PROVE  Len(actions'[q]) = CountedActions(q)'
    <3>1. CountedActions(q)' = merkleRootStates'[q].leavesExecuted - 1
      BY <1>8 DEF CountedActions
    <3>2. CASE q = r
      BY <1>3, <1>4, <1>7, <3>1, <3>2
    <3>3. CASE q # r
      <4>1. Len(actions[q]) = CountedActions(q)
        BY <1>7, <2>2, <3>3 DEF IInv, ExecutedInOrder
      <4>2. CountedActions(q) = merkleRootStates[q].leavesExecuted - 1
        BY <1>3, <1>1, <3>3 DEF CountedActions
      <4> QED
        BY <1>3, <1>7, <3>1, <3>3, <4>1, <4>2
    <3> QED
      BY <3>2, <3>3
  <2> QED
    BY <2>1, <2>2 DEF ExecutedInOrder
<1>12. OutcomeMatchesActions'
  <2>1. Outcome("FAILED", merkleRootStates[r].numLeaves, actions'[r])
    BY <1>1, SafeReturnOutcome
  <2>2. ASSUME NEW q \in Roots
        PROVE  /\ Outcome(merkleRootStates'[q].status,
                          merkleRootStates'[q].numLeaves, actions'[q])
               /\ merkleRootStates'[q].status # "APPROVED"
    <3>1. CASE q = r
      BY <3>1, <1>7, <2>1
    <3>2. CASE q # r
      BY <3>2, <1>3, <1>7 DEF IInv, OutcomeMatchesActions, ActiveIsApproved
    <3> QED
      BY <3>1, <3>2
  <2> QED
    BY <2>2 DEF OutcomeMatchesActions
<1>13. ActiveHasLeavesLeft'
  BY <1>7 DEF IInv, ActiveHasLeavesLeft
<1> QED
  BY <1>9, <1>10, <1>11, <1>12, <1>13 DEF IInv

(* A leaf that succeeded or was allowed to fail: the loop goes on. *)
LEMMA SafeReturnGoesOnKeepsIInv ==
    ASSUME IInv, TypeOK', NEW success \in BOOLEAN, SafeReturn(success),
           ~FailsRoot(success)
    PROVE  IInv'
<1>1. PICK r : r = frame.root
  OBVIOUS
<1>2. PICK action : action = [leaf |-> frame.leaf, success |-> success]
  OBVIOUS
<1>3. /\ Open /\ frame.pc = "call" /\ r \in Roots /\ activeMerkleRoot = r
      /\ merkleRootStates[r].status = "APPROVED"
      /\ frame.leavesExecuted \in Nat
      /\ actions[r] \in Seq(Action)
      /\ Len(actions[r]) = frame.leavesExecuted - 2
      /\ actions'[r] = Append(actions[r], action)
      /\ \A q \in Roots : q # r => actions'[q] = actions[q]
  BY <1>1, <1>2, SafeReturnEffect
<1>4. Len(actions'[r]) = Len(actions[r]) + 1 /\ Len(actions[r]) \in Nat
      /\ \A i \in 1 .. Len(actions[r]) : actions'[r][i] = actions[r][i]
  BY <1>3
<1>5. /\ Open' /\ frame'.pc = "loop"
      /\ frame'.root = r
      /\ frame'.leavesExecuted = frame.leavesExecuted
      /\ frame'.arbitraryChain = frame.arbitraryChain
      /\ frame'.left = frame.left
      /\ frame'.saved = frame.saved
      /\ merkleRootStates' = merkleRootStates
      /\ activeMerkleRoot' = activeMerkleRoot
  BY <1>1 DEF SafeReturn, Open
<1>6. ActiveIsApproved' /\ ActiveHasLeavesLeft'
  BY <1>5 DEF IInv, ActiveIsApproved, ActiveHasLeavesLeft
<1>7. CachedStateFresh' /\ LeafInFlight'
  BY <1>1, <1>3, <1>5 DEF IInv, CachedStateFresh, LeafInFlight
<1>8. ExecutedInOrder'
  <2>1. \A q \in Roots :
           FollowsTree(actions'[q], q, merkleRootStates'[q].arbitraryChain)
    BY <1>5, SafeReturnFollowsTree
  <2>2. ASSUME NEW q \in Roots, merkleRootStates'[q].status # "EMPTY"
        PROVE  Len(actions'[q]) = CountedActions(q)'
    <3>1. Len(actions[q]) = CountedActions(q)
      BY <1>5, <2>2 DEF IInv, ExecutedInOrder
    <3>2. CASE q = r
      <4>1. CountedActions(q)' = frame.leavesExecuted - 1
        BY <1>5, <3>2 DEF CountedActions
      <4> QED
        BY <1>3, <1>4, <3>2, <4>1
    <3>3. CASE q # r
      <4>1. CountedActions(q)' = CountedActions(q)
        BY <1>1, <1>5, <3>3 DEF CountedActions
      <4> QED
        BY <1>3, <3>1, <3>3, <4>1
    <3> QED
      BY <3>2, <3>3
  <2> QED
    BY <2>1, <2>2 DEF ExecutedInOrder
<1>9. OutcomeMatchesActions'
  <2>1. Outcome("APPROVED", merkleRootStates[r].numLeaves, actions'[r])
    BY <1>1, SafeReturnOutcome
  <2>2. ASSUME NEW q \in Roots
        PROVE  Outcome(merkleRootStates'[q].status,
                       merkleRootStates'[q].numLeaves, actions'[q])
    <3>1. CASE q = r
      BY <3>1, <1>3, <1>5, <2>1
    <3>2. CASE q # r
      BY <3>2, <1>3, <1>5 DEF IInv, OutcomeMatchesActions
    <3> QED
      BY <3>1, <3>2
  <2> QED
    BY <1>5, <2>2 DEF OutcomeMatchesActions
<1>10. SavedIsPrefix'
  <2>1. Len(frame.saved.actions[r]) \in Nat
    BY <1>1, <1>3, Types DEF IInv
  <2>2. /\ \A q \in Roots : q # r => frame.saved.actions[q] = actions[q]
        /\ Len(frame.saved.actions[r]) <= Len(actions[r])
        /\ \A i \in 1 .. Len(frame.saved.actions[r]) :
              frame.saved.actions[r][i] = actions[r][i]
    BY <1>1, <1>3 DEF IInv, SavedIsPrefix
  <2>3. PICK saved : saved = frame.saved.actions[r]
    OBVIOUS
  <2>4. /\ Len(saved) \in Nat /\ Len(saved) <= Len(actions[r])
        /\ \A i \in 1 .. Len(saved) : saved[i] = actions[r][i]
    BY <2>1, <2>2, <2>3
  <2>5. Len(saved) <= Len(actions'[r])
    BY <1>4, <2>4
  <2>6. ASSUME NEW i \in 1 .. Len(saved) PROVE saved[i] = actions'[r][i]
    <3>1. i \in 1 .. Len(actions[r])
      BY <1>4, <2>4
    <3> QED
      BY <1>4, <2>4, <3>1
  <2>7. frame'.saved.actions[r] = saved /\ frame'.root = r
    BY <1>3, <1>5, <2>3
  <2>8. \A q \in Roots : q # r => frame'.saved.actions[q] = actions'[q]
    BY <1>3, <1>5, <2>2
  <2> QED
    BY <2>5, <2>6, <2>7, <2>8 DEF SavedIsPrefix
<1> QED
  BY <1>6, <1>7, <1>8, <1>9, <1>10 DEF IInv

(* The end of a batch: complete if no leaf is left. *)
LEMMA ExecuteFinishKeepsIInv ==
    ASSUME IInv, TypeOK', ExecuteFinish
    PROVE  IInv'
<1>1. PICK r : r = frame.root
  OBVIOUS
<1>2. PICK n : n = frame.leavesExecuted
  OBVIOUS
<1>3. PICK status : status = IF AllExecuted THEN "COMPLETED"
                             ELSE merkleRootStates[r].status
  OBVIOUS
<1>4. Open /\ frame.pc = "loop" /\ r \in Roots /\ n \in Nat /\ frame.left = 0
  BY <1>1, <1>2, Types DEF IInv, ExecuteFinish, Open
<1>5. /\ activeMerkleRoot = r
      /\ merkleRootStates[r].status = "APPROVED"
      /\ n <= merkleRootStates[r].numLeaves
      /\ merkleRootStates[r].numLeaves \in Nat
      /\ merkleRootStates[r].leavesExecuted =
             Len(frame.saved.actions[r]) + 1
      /\ Len(frame.saved.actions[r]) \in Nat
  BY <1>1, <1>2, <1>4, Types DEF IInv, CachedStateFresh, ActiveIsApproved
<1>6. Len(actions[r]) = n - 1 /\ Len(actions[r]) \in Nat
  BY <1>1, <1>2, <1>4, <1>5, Types DEF IInv, ExecutedInOrder, CountedActions
<1>7. Len(frame.saved.actions[r]) <= Len(actions[r])
  BY <1>1, <1>4 DEF IInv, SavedIsPrefix
<1>8. merkleRootStates \in [Roots -> MerkleRootState]
  BY DEF IInv, TypeOK
<1>9. /\ merkleRootStates'[r].numLeaves = merkleRootStates[r].numLeaves
      /\ merkleRootStates'[r].arbitraryChain = merkleRootStates[r].arbitraryChain
      /\ merkleRootStates'[r].leavesExecuted = n
      /\ merkleRootStates'[r].status = status
      /\ \A q \in Roots : q # r => merkleRootStates'[q] = merkleRootStates[q]
  <2>1. r \in Roots
    BY <1>4
  <2>2. merkleRootStates' =
            [merkleRootStates EXCEPT ![r] =
                [@ EXCEPT !.leavesExecuted = n, !.status = status]]
    BY <1>1, <1>2, <1>3 DEF ExecuteFinish
  <2>3. merkleRootStates[r] \in MerkleRootState
    BY <1>8, <2>1
  <2>4. merkleRootStates'[r] =
            [merkleRootStates[r] EXCEPT !.leavesExecuted = n, !.status = status]
    BY <1>8, <2>1, <2>2
  <2>5. \A q \in Roots : q # r => merkleRootStates'[q] = merkleRootStates[q]
    BY <1>8, <2>1, <2>2
  <2> QED
    BY <2>3, <2>4, <2>5 DEF MerkleRootState
<1>10. /\ ~Open' /\ frame' = Idle /\ actions' = actions
       /\ activeMerkleRoot' = IF n = merkleRootStates[r].numLeaves
                              THEN NoRoot ELSE r
       /\ status = IF n = merkleRootStates[r].numLeaves
                   THEN "COMPLETED" ELSE "APPROVED"
  BY <1>1, <1>2, <1>3, <1>5 DEF ExecuteFinish, Open, Idle, AllExecuted
<1>11. ActiveIsApproved'
  BY <1>4, <1>5, <1>9, <1>10, ConstantsAssumption DEF IInv, ActiveIsApproved
<1>12. CachedStateFresh' /\ SavedIsPrefix' /\ LeafInFlight'
  BY <1>10 DEF CachedStateFresh, SavedIsPrefix, LeafInFlight, Idle
<1>13. ExecutedInOrder'
  <2>1. \A q \in Roots :
           FollowsTree(actions'[q], q, merkleRootStates'[q].arbitraryChain)
    BY <1>9, <1>10 DEF IInv, ExecutedInOrder
  <2>2. ASSUME NEW q \in Roots, merkleRootStates'[q].status # "EMPTY"
        PROVE  Len(actions'[q]) = CountedActions(q)'
    BY <1>1, <1>6, <1>9, <1>10, <2>2 DEF IInv, ExecutedInOrder, CountedActions
  <2> QED
    BY <2>1, <2>2 DEF ExecutedInOrder
<1>14. OutcomeMatchesActions'
  <2>1. Outcome("APPROVED", merkleRootStates[r].numLeaves, actions[r])
    BY <1>4, <1>5 DEF IInv, OutcomeMatchesActions
  <2>2. Outcome(status, merkleRootStates[r].numLeaves, actions[r])
    <3>1. CASE n = merkleRootStates[r].numLeaves
      <4>1. status = "COMPLETED" /\ Len(actions[r]) + 1 = merkleRootStates[r].numLeaves
        BY <3>1, <1>4, <1>6, <1>10
      <4> QED
        BY <4>1, <2>1 DEF Outcome
    <3>2. CASE n # merkleRootStates[r].numLeaves
      BY <3>2, <1>10, <2>1
    <3> QED
      BY <3>1, <3>2
  <2>3. ASSUME NEW q \in Roots
        PROVE  /\ Outcome(merkleRootStates'[q].status,
                          merkleRootStates'[q].numLeaves, actions'[q])
               /\ merkleRootStates'[q].status = "APPROVED" =>
                     Len(actions'[q]) + 1 < merkleRootStates'[q].numLeaves
    <3>1. CASE q = r
      BY <3>1, <1>4, <1>5, <1>6, <1>9, <1>10, <2>2
    <3>2. CASE q # r
      BY <3>2, <1>4, <1>5, <1>9, <1>10
         DEF IInv, OutcomeMatchesActions, ActiveIsApproved
    <3> QED
      BY <3>1, <3>2
  <2> QED
    BY <2>3 DEF OutcomeMatchesActions
<1>15. ActiveHasLeavesLeft'
  BY <1>4, <1>5, <1>6, <1>7, <1>9, <1>10 DEF IInv, ActiveHasLeavesLeft
<1> QED
  BY <1>11, <1>12, <1>13, <1>14, <1>15 DEF IInv

(* A reverted call: the log is cut back to what it was at the entry, and   *)
(* storage never left that moment.                                         *)
LEMMA ExecuteRevertKeepsIInv ==
    ASSUME IInv, TypeOK', ExecuteRevert
    PROVE  IInv'
<1>1. PICK r : r = frame.root
  OBVIOUS
<1>2. /\ Open /\ r \in Roots /\ ~Open' /\ frame' = Idle
      /\ actions' = frame.saved.actions
      /\ merkleRootStates' = merkleRootStates
      /\ activeMerkleRoot' = activeMerkleRoot
  BY <1>1, Types DEF IInv, ExecuteRevert, Open, Idle
<1>3. /\ activeMerkleRoot = r
      /\ merkleRootStates[r].status = "APPROVED"
      /\ merkleRootStates[r].leavesExecuted = Len(actions'[r]) + 1
      /\ merkleRootStates[r].numLeaves \in Nat
  BY <1>1, <1>2, Types DEF IInv, CachedStateFresh, ActiveIsApproved
<1>4. /\ \A q \in Roots : q # r => actions'[q] = actions[q]
      /\ Len(actions'[r]) <= Len(actions[r])
      /\ \A i \in 1 .. Len(actions'[r]) : actions'[r][i] = actions[r][i]
  BY <1>1, <1>2 DEF IInv, SavedIsPrefix
<1>5. actions'[r] \in Seq(Action) /\ actions[r] \in Seq(Action)
      /\ Len(actions'[r]) \in Nat
  BY <1>2 DEF IInv, TypeOK, ActionLog
<1>6. ActiveIsApproved' /\ ActiveHasLeavesLeft'
  BY <1>2 DEF IInv, ActiveIsApproved, ActiveHasLeavesLeft
<1>7. CachedStateFresh' /\ SavedIsPrefix' /\ LeafInFlight'
  BY <1>2 DEF CachedStateFresh, SavedIsPrefix, LeafInFlight, Idle
<1>8. ExecutedInOrder'
  <2>1. ASSUME NEW q \in Roots
        PROVE  FollowsTree(actions'[q], q, merkleRootStates'[q].arbitraryChain)
    <3>1. FollowsTree(actions[q], q, merkleRootStates[q].arbitraryChain)
      BY DEF IInv, ExecutedInOrder
    <3>2. CASE q = r
      BY <3>1, <3>2, <1>2, <1>4, <1>5, PrefixFollowsTree
    <3>3. CASE q # r
      BY <3>1, <3>3, <1>2, <1>4
    <3> QED
      BY <3>2, <3>3
  <2>2. ASSUME NEW q \in Roots, merkleRootStates'[q].status # "EMPTY"
        PROVE  Len(actions'[q]) = CountedActions(q)'
    <3>1. merkleRootStates[q].status # "EMPTY"
      BY <1>2, <2>2
    <3>2. CountedActions(q)' = merkleRootStates[q].leavesExecuted - 1
      BY <1>2 DEF CountedActions
    <3>3. CASE q = r
      BY <3>2, <3>3, <1>3, <1>5
    <3>4. CASE q # r
      <4>1. CountedActions(q) = merkleRootStates[q].leavesExecuted - 1
        BY <3>4, <1>1 DEF CountedActions
      <4>2. Len(actions[q]) = CountedActions(q)
        BY <3>1 DEF IInv, ExecutedInOrder
      <4> QED
        BY <3>2, <3>4, <4>1, <4>2, <1>4
    <3> QED
      BY <3>3, <3>4
  <2> QED
    BY <2>1, <2>2 DEF ExecutedInOrder
<1>9. OutcomeMatchesActions'
  <2>1. Outcome("APPROVED", merkleRootStates[r].numLeaves, actions'[r])
    <3>1. Outcome("APPROVED", merkleRootStates[r].numLeaves, actions[r])
      BY <1>2, <1>3 DEF IInv, OutcomeMatchesActions
    <3> QED
      BY <3>1, <1>4, <1>5, PrefixOutcome
  <2>2. Len(actions'[r]) + 1 < merkleRootStates[r].numLeaves
    BY <1>2, <1>3 DEF IInv, ActiveHasLeavesLeft
  <2>3. ASSUME NEW q \in Roots
        PROVE  /\ Outcome(merkleRootStates'[q].status,
                          merkleRootStates'[q].numLeaves, actions'[q])
               /\ merkleRootStates'[q].status = "APPROVED" =>
                     Len(actions'[q]) + 1 < merkleRootStates'[q].numLeaves
    <3>1. CASE q = r
      BY <3>1, <1>2, <1>3, <2>1, <2>2
    <3>2. CASE q # r
      BY <3>2, <1>2, <1>3, <1>4 DEF IInv, OutcomeMatchesActions, ActiveIsApproved
    <3> QED
      BY <3>1, <3>2
  <2> QED
    BY <2>3 DEF OutcomeMatchesActions
<1> QED
  BY <1>6, <1>7, <1>8, <1>9 DEF IInv

(* The Safe's own changes touch nothing the invariant speaks of but types. *)
LEMMA ReconfigureKeepsIInv ==
    ASSUME IInv, TypeOK',
           UNCHANGED <<merkleRootStates, activeMerkleRoot, frame, actions>>
    PROVE  IInv'
  BY DEF IInv, ActiveIsApproved, CachedStateFresh, ExecutedInOrder,
         CountedActions, OutcomeMatchesActions, ActiveHasLeavesLeft,
         SavedIsPrefix, LeafInFlight, Open

-----------------------------------------------------------------------------
LEMMA InitIInv == ASSUME Init, TypeOK PROVE IInv
<1>1. /\ \A r \in Roots :
             /\ merkleRootStates[r].status = "EMPTY"
             /\ Len(actions[r]) = 0
      /\ activeMerkleRoot = NoRoot
      /\ ~Open /\ frame.pc = "idle"
  BY DEF Init, EmptyState, Open, Idle
<1> QED
  BY <1>1, ConstantsAssumption
     DEF IInv, ActiveIsApproved, CachedStateFresh, ExecutedInOrder, FollowsTree,
         OutcomeMatchesActions, Outcome, FatalAt, ActiveHasLeavesLeft,
         SavedIsPrefix, LeafInFlight

LEMMA NextKeepsIInv == ASSUME IInv, TypeOK', [Next]_vars PROVE IInv'
<1>1. ASSUME NEW caller \in Accounts, NEW r \in Roots, NEW leaf \in Tree[r],
             Approve(caller, r, leaf)
      PROVE  IInv'
  BY <1>1, ApproveKeepsIInv
<1>2. ASSUME NEW caller \in Accounts, NEW r \in Roots, NEW leaf \in Tree[r],
             Cancel(caller, r, leaf)
      PROVE  IInv'
  BY <1>2, CancelKeepsIInv
<1>3. ASSUME NEW caller \in Accounts, NEW n \in 0 .. MaxBatch,
             ExecuteStart(caller, n)
      PROVE  IInv'
  BY <1>3, ExecuteStartKeepsIInv
<1>4. ASSUME NEW r \in Roots, NEW leaf \in Tree[r], ExecuteLeaf(leaf)
      PROVE  IInv'
  BY <1>4, ExecuteLeafKeepsIInv
<1>5. ASSUME NEW success \in BOOLEAN, SafeReturn(success)
      PROVE  IInv'
  BY <1>5, SafeReturnFailsKeepsIInv, SafeReturnGoesOnKeepsIInv
<1>6. ASSUME ExecuteFinish PROVE IInv'
  BY <1>6, ExecuteFinishKeepsIInv
<1>7. ASSUME ExecuteRevert PROVE IInv'
  BY <1>7, ExecuteRevertKeepsIInv
<1>8. ASSUME NEW new \in SafeState, SafeReconfigure(new) PROVE IInv'
  BY <1>8, ReconfigureKeepsIInv DEF SafeReconfigure
<1>9. CASE UNCHANGED vars
  BY <1>9, ReconfigureKeepsIInv DEF vars
<1> QED
  BY <1>1, <1>2, <1>3, <1>4, <1>5, <1>6, <1>7, <1>8, <1>9 DEF Next

LEMMA Inductive == Spec => []IInv
<1>1. TypeOK /\ Init => IInv
  BY InitIInv
<1>2. IInv /\ TypeOK' /\ [Next]_vars => IInv'
  BY NextKeepsIInv
<1> QED
  BY <1>1, <1>2, TypeCorrect, PTL DEF Spec

(* The active root is the one APPROVED root, during calls of the Safe too. *)
THEOREM ActiveIsApprovedCorrect == Spec => []ActiveIsApproved
<1>1. IInv => ActiveIsApproved
  BY DEF IInv
<1> QED
  BY <1>1, Inductive, PTL

(* What `execute` cached at its entry is never stale. *)
THEOREM CachedStateFreshCorrect == Spec => []CachedStateFresh
<1>1. IInv => CachedStateFresh
  BY DEF IInv
<1> QED
  BY <1>1, Inductive, PTL

(* The leaves of a root run in order, none skipped and none run twice. *)
THEOREM ExecutedInOrderCorrect == Spec => []ExecutedInOrder
<1>1. IInv => ExecutedInOrder
  BY DEF IInv
<1> QED
  BY <1>1, Inductive, PTL

(* The status of a root tells truly what its leaves did in the Safe. *)
THEOREM OutcomeCorrect == Spec => []OutcomeMatchesActions
<1>1. IInv => OutcomeMatchesActions
  BY DEF IInv
<1> QED
  BY <1>1, Inductive, PTL

-----------------------------------------------------------------------------
(* What an action does to roots it is not about. *)
LEMMA NextKeepsTerminal ==
    ASSUME IInv, [Next]_vars, NEW q \in Roots,
           merkleRootStates[q].status \in TerminalStatus
    PROVE  merkleRootStates'[q] = merkleRootStates[q] /\ actions'[q] = actions[q]
<1> USE DEF TerminalStatus
<1>1. ASSUME NEW caller \in Accounts, NEW r \in Roots, NEW leaf \in Tree[r],
             Approve(caller, r, leaf)
      PROVE  merkleRootStates'[q] = merkleRootStates[q] /\ actions'[q] = actions[q]
  BY <1>1, ApproveEffect DEF IInv
<1>2. ASSUME NEW caller \in Accounts, NEW r \in Roots, NEW leaf \in Tree[r],
             Cancel(caller, r, leaf)
      PROVE  merkleRootStates'[q] = merkleRootStates[q] /\ actions'[q] = actions[q]
  BY <1>2, CancelEffect DEF IInv
<1>3. ASSUME NEW caller \in Accounts, NEW n \in 0 .. MaxBatch,
             ExecuteStart(caller, n)
      PROVE  merkleRootStates'[q] = merkleRootStates[q] /\ actions'[q] = actions[q]
  BY <1>3 DEF ExecuteStart
<1>4. ASSUME NEW r \in Roots, NEW leaf \in Tree[r], ExecuteLeaf(leaf)
      PROVE  merkleRootStates'[q] = merkleRootStates[q] /\ actions'[q] = actions[q]
  BY <1>4 DEF ExecuteLeaf
<1>5. Open => frame.root \in Roots /\ q # frame.root
  BY Types DEF IInv, CachedStateFresh, ActiveIsApproved
<1>6. ASSUME NEW success \in BOOLEAN, SafeReturn(success)
      PROVE  merkleRootStates'[q] = merkleRootStates[q] /\ actions'[q] = actions[q]
  <2>1. q # frame.root
    BY <1>5, <1>6 DEF SafeReturn, Open
  <2>2. actions \in [Roots -> Seq(Action)]
        /\ merkleRootStates \in [Roots -> MerkleRootState]
    BY DEF IInv, TypeOK, ActionLog
  <2> QED
    BY <1>6, <2>1, <2>2 DEF SafeReturn
<1>7. ASSUME ExecuteFinish
      PROVE  merkleRootStates'[q] = merkleRootStates[q] /\ actions'[q] = actions[q]
  <2>1. q # frame.root /\ merkleRootStates \in [Roots -> MerkleRootState]
    BY <1>5, <1>7 DEF ExecuteFinish, Open, IInv, TypeOK
  <2> QED
    BY <1>7, <2>1 DEF ExecuteFinish
<1>8. ASSUME ExecuteRevert
      PROVE  merkleRootStates'[q] = merkleRootStates[q] /\ actions'[q] = actions[q]
  BY <1>5, <1>8 DEF ExecuteRevert, Open, IInv, SavedIsPrefix
<1>9. ASSUME NEW new \in SafeState, SafeReconfigure(new)
      PROVE  merkleRootStates'[q] = merkleRootStates[q] /\ actions'[q] = actions[q]
  BY <1>9 DEF SafeReconfigure
<1>10. CASE UNCHANGED vars
  BY <1>10 DEF vars
<1> QED
  BY <1>1, <1>2, <1>3, <1>4, <1>6, <1>7, <1>8, <1>9, <1>10 DEF Next

(* A completed, canceled or failed root never changes, and no leaf of it   *)
(* runs again.                                                             *)
THEOREM TerminalForeverCorrect == Spec => TerminalForever
<1>1. IInv /\ [Next]_vars =>
          [\A r \in Roots :
              merkleRootStates[r].status \in TerminalStatus =>
                  /\ merkleRootStates'[r] = merkleRootStates[r]
                  /\ actions'[r] = actions[r]]_vars
  BY NextKeepsTerminal
<1> QED
  BY <1>1, Inductive, PTL DEF Spec, TerminalForever

-----------------------------------------------------------------------------
(* A stored state comes from an APPROVE leaf of its tree that is valid here. *)
ComesFromLeaf ==
    \A r \in Roots : merkleRootStates[r].status = "APPROVED" =>
        \E first \in Tree[r] :
            /\ first.leafType = "APPROVE"
            /\ first.numLeaves = merkleRootStates[r].numLeaves
            /\ ValidChain(first, merkleRootStates[r].arbitraryChain)

LEMMA ComesFromLeafCorrect == Spec => []ComesFromLeaf
<1>1. Init => ComesFromLeaf
  BY DEF Init, EmptyState, ComesFromLeaf
<1>2. ASSUME IInv, ComesFromLeaf, [Next]_vars, IInv'
      PROVE  ComesFromLeaf'
  <2>1. ASSUME NEW caller \in Accounts, NEW r \in Roots, NEW leaf \in Tree[r],
               Approve(caller, r, leaf)
        PROVE  ComesFromLeaf'
    <3>1. /\ leaf.leafType = "APPROVE"
          /\ ValidChain(leaf, leaf.arbitraryChain)
      BY <2>1 DEF Approve, ValidFirstLeaf
    <3>2. /\ merkleRootStates'[r].numLeaves = leaf.numLeaves
          /\ merkleRootStates'[r].arbitraryChain = leaf.arbitraryChain
          /\ \A q \in Roots : q # r =>
                merkleRootStates'[q] = merkleRootStates[q]
      BY <2>1, <1>2, ApproveEffect DEF IInv
    <3> QED
      BY <3>1, <3>2, <1>2 DEF ComesFromLeaf, ValidChain
  <2>2. ASSUME \A r \in Roots : merkleRootStates'[r].status = "APPROVED" =>
                  /\ merkleRootStates[r].status = "APPROVED"
                  /\ merkleRootStates'[r].numLeaves = merkleRootStates[r].numLeaves
                  /\ merkleRootStates'[r].arbitraryChain =
                         merkleRootStates[r].arbitraryChain
        PROVE  ComesFromLeaf'
    BY <1>2, <2>2 DEF ComesFromLeaf, ValidChain
  <2>3. ASSUME NEW caller \in Accounts, NEW r \in Roots, NEW leaf \in Tree[r],
               Cancel(caller, r, leaf)
        PROVE  ComesFromLeaf'
    <3>1. activeMerkleRoot' = NoRoot
      BY <2>3 DEF Cancel
    <3>2. ASSUME NEW q \in Roots PROVE merkleRootStates'[q].status # "APPROVED"
      <4>1. merkleRootStates'[q].status = "APPROVED" <=> activeMerkleRoot' = q
        BY <1>2 DEF IInv, ActiveIsApproved
      <4> QED
        BY <3>1, <4>1, ConstantsAssumption
    <3> QED
      BY <3>2 DEF ComesFromLeaf
  <2>4. CASE merkleRootStates' = merkleRootStates
    BY <2>2, <2>4
  <2>5. ASSUME NEW r, NEW n, NEW status, r = frame.root, Open,
               merkleRootStates[r].status = "APPROVED",
               merkleRootStates' = [merkleRootStates EXCEPT ![r] =
                  [@ EXCEPT !.leavesExecuted = n, !.status = status]]
        PROVE  ComesFromLeaf'
    <3>1. r \in Roots /\ merkleRootStates \in [Roots -> MerkleRootState]
      BY <1>2, <2>5, Types DEF IInv, TypeOK
    <3>2. merkleRootStates[r] \in MerkleRootState
      BY <3>1
    <3>3. /\ merkleRootStates'[r] = [merkleRootStates[r] EXCEPT
                 !.leavesExecuted = n, !.status = status]
          /\ \A q \in Roots : q # r => merkleRootStates'[q] = merkleRootStates[q]
      BY <2>5, <3>1
    <3>4. /\ merkleRootStates'[r].numLeaves = merkleRootStates[r].numLeaves
          /\ merkleRootStates'[r].arbitraryChain =
                 merkleRootStates[r].arbitraryChain
      BY <3>2, <3>3 DEF MerkleRootState
    <3> QED
      BY <2>2, <2>5, <3>3, <3>4
  <2>6. Open => merkleRootStates[frame.root].status = "APPROVED"
    BY <1>2, Types DEF IInv, CachedStateFresh, ActiveIsApproved
  <2>7. ASSUME NEW success \in BOOLEAN, SafeReturn(success)
        PROVE  ComesFromLeaf'
    <3>1. CASE FailsRoot(success)
      <4>1. merkleRootStates' = [merkleRootStates EXCEPT ![frame.root] =
                [@ EXCEPT !.leavesExecuted = frame.leavesExecuted,
                          !.status = "FAILED"]]
            /\ Open
        BY <2>7, <3>1 DEF SafeReturn, Open
      <4> QED
        BY <4>1, <2>5, <2>6
    <3>2. CASE ~FailsRoot(success)
      BY <2>4, <2>7, <3>2 DEF SafeReturn
    <3> QED
      BY <3>1, <3>2
  <2>8. ASSUME ExecuteFinish PROVE ComesFromLeaf'
    BY <2>5, <2>6, <2>8 DEF ExecuteFinish, Open
  <2> QED
    BY <1>2, <2>1, <2>3, <2>4, <2>7, <2>8
       DEF Next, ExecuteStart, ExecuteLeaf, ExecuteRevert, SafeReconfigure, vars
<1> QED
  BY <1>1, <1>2, Inductive, PTL DEF Spec

(* A well-built root can always be executed to its end. *)
THEOREM NeverStuckCorrect == Spec => []NeverStuck
<1>1. IInv /\ ComesFromLeaf => NeverStuck
  <2> SUFFICES ASSUME IInv, ComesFromLeaf, NEW r \in Roots,
                      WellBuilt(r), merkleRootStates[r].status = "APPROVED"
               PROVE  \E leaf \in Tree[r] :
                         /\ leaf.leafType = "EXECUTE"
                         /\ leaf.index = merkleRootStates[r].leavesExecuted
                         /\ ValidChain(leaf, merkleRootStates[r].arbitraryChain)
    BY DEF NeverStuck
  <2>1. PICK first \in Tree[r] :
            /\ first.leafType = "APPROVE"
            /\ first.numLeaves = merkleRootStates[r].numLeaves
            /\ ValidChain(first, merkleRootStates[r].arbitraryChain)
    BY DEF ComesFromLeaf
  <2>2. merkleRootStates[r].leavesExecuted \in 1 .. first.numLeaves - 1
    BY <2>1, Types DEF IInv, ActiveHasLeavesLeft
  <2>3. PICK leaf \in Tree[r] :
            /\ leaf.leafType = "EXECUTE"
            /\ leaf.index = merkleRootStates[r].leavesExecuted
            /\ leaf.chainId = first.chainId
    BY <2>1, <2>2 DEF WellBuilt
  <2> QED
    BY <2>1, <2>3 DEF ValidChain
<1> QED
  BY <1>1, Inductive, ComesFromLeafCorrect, PTL

-----------------------------------------------------------------------------
(* A remainder is determined by its number and its divisor. *)
LEMMA DivUnique ==
    ASSUME NEW N \in Nat \ {0}, NEW a \in Int, NEW b \in Int,
           NEW x \in 0 .. N - 1, NEW y \in 0 .. N - 1, N * a + x = N * b + y
    PROVE  x = y
<1>1. N * (a - b) = y - x
  OBVIOUS
<1>2. ASSUME NEW c \in Int, c >= 1 PROVE N * c >= N
  BY <1>2
<1>3. CASE a - b >= 1
  BY <1>1, <1>2, <1>3
<1>4. CASE b - a >= 1
  <2>1. N * (b - a) = x - y
    OBVIOUS
  <2> QED
    BY <2>1, <1>2, <1>4
<1>5. CASE a = b
  BY <1>5
<1> QED
  BY <1>3, <1>4, <1>5

(* Division with remainder. *)
LEMMA DivMod ==
    ASSUME NEW k \in Nat, NEW N \in Nat \ {0}
    PROVE  \E a \in Int, x \in 0 .. N - 1 : k = N * a + x /\ k % N = x
<1>1. k % N \in 0 .. N - 1 /\ k \div N \in Int /\ k = N * (k \div N) + (k % N)
  BY Z3
<1> QED
  BY <1>1, Zenon

(* Incrementing modulo N commutes with reducing modulo N. *)
LEMMA ModSucc ==
    ASSUME NEW n \in Nat, NEW N \in Nat \ {0}
    PROVE  ((n % N) + 1) % N = (n + 1) % N
<1>1. PICK a \in Int, x \in 0 .. N - 1 : n = N * a + x /\ n % N = x
  BY DivMod
<1>2. x + 1 \in Nat /\ n + 1 \in Nat
  OBVIOUS
<1>3. PICK b \in Int, y \in 0 .. N - 1 : n + 1 = N * b + y /\ (n + 1) % N = y
  BY <1>2, DivMod
<1>4. PICK c \in Int, z \in 0 .. N - 1 : x + 1 = N * c + z /\ (x + 1) % N = z
  BY <1>2, DivMod
<1>5. \A p, q, s \in Int :
          n = p + x /\ n + 1 = q + y /\ x + 1 = s + z => p + s + z = q + y
  OBVIOUS
<1>6. N * a \in Int /\ N * b \in Int /\ N * c \in Int /\ a + c \in Int
  OBVIOUS
<1>7. N * (a + c) = N * a + N * c
  OBVIOUS
<1>8. N * (a + c) + z = N * b + y
  <2>1. N * a + N * c + z = N * b + y
    BY <1>1, <1>3, <1>4, <1>5, <1>6
  <2> QED
    BY <2>1, <1>7
<1>9. z = y
  BY <1>6, <1>8, DivUnique
<1> QED
  BY <1>1, <1>3, <1>4, <1>9

(* An action that takes the root r into use, with a leaf of the right nonce. *)
LEMMA UseRoot ==
    ASSUME TypeOK, UsedOnceInNonceOrder, NEW r \in Roots, NEW leaf \in Tree[r],
           merkleRootStates[r].status = "EMPTY",
           leaf.leafType # "EXECUTE",
           leaf.nonce = merkleRootNonce,
           merkleRootNonce' = (leaf.nonce + 1) % NonceSpace,
           usedRoots' = Append(usedRoots, r),
           \A q \in Roots : merkleRootStates'[q].status # "EMPTY" <=>
               merkleRootStates[q].status # "EMPTY" \/ q = r
    PROVE  UsedOnceInNonceOrder'
<1>1. /\ usedRoots \in Seq(Roots) /\ Len(usedRoots) \in Nat
      /\ Len(usedRoots') = Len(usedRoots) + 1
      /\ usedRoots'[Len(usedRoots) + 1] = r
      /\ \A i \in 1 .. Len(usedRoots) : usedRoots'[i] = usedRoots[i]
  BY DEF TypeOK
<1>2. leaf.nonce = Len(usedRoots) % NonceSpace
  BY DEF UsedOnceInNonceOrder
<1>3. merkleRootNonce' = Len(usedRoots') % NonceSpace
  BY <1>1, <1>2, ModSucc, ConstantsAssumption
<1>4. \A i \in 1 .. Len(usedRoots) : usedRoots[i] # r
  BY DEF UsedOnceInNonceOrder
<1>5. ASSUME NEW i \in 1 .. Len(usedRoots')
      PROVE  \E l \in Tree[usedRoots'[i]] :
                l.leafType # "EXECUTE" /\ l.nonce = (i - 1) % NonceSpace
  <2>1. CASE i = Len(usedRoots) + 1
    <3>1. i - 1 = Len(usedRoots) /\ usedRoots'[i] = r
      BY <1>1, <2>1
    <3> QED
      BY <3>1, <1>2
  <2>2. CASE i \in 1 .. Len(usedRoots)
    BY <2>2, <1>1 DEF UsedOnceInNonceOrder
  <2> QED
    BY <2>1, <2>2, <1>1
<1>6. \A i, j \in 1 .. Len(usedRoots') : usedRoots'[i] = usedRoots'[j] => i = j
  <2> SUFFICES ASSUME NEW i \in 1 .. Len(usedRoots'),
                      NEW j \in 1 .. Len(usedRoots'),
                      usedRoots'[i] = usedRoots'[j]
               PROVE  i = j
    OBVIOUS
  <2>1. CASE i = Len(usedRoots) + 1 \/ j = Len(usedRoots) + 1
    BY <2>1, <1>1, <1>4
  <2>2. CASE i \in 1 .. Len(usedRoots) /\ j \in 1 .. Len(usedRoots)
    BY <2>2, <1>1 DEF UsedOnceInNonceOrder
  <2> QED
    BY <2>1, <2>2, <1>1
<1>7. ASSUME NEW q \in Roots
      PROVE  merkleRootStates'[q].status # "EMPTY" <=>
                 \E i \in 1 .. Len(usedRoots') : usedRoots'[i] = q
  <2>1. (\E i \in 1 .. Len(usedRoots') : usedRoots'[i] = q) <=>
            q = r \/ \E i \in 1 .. Len(usedRoots) : usedRoots[i] = q
    BY <1>1
  <2> QED
    BY <2>1 DEF UsedOnceInNonceOrder
<1> QED
  BY <1>3, <1>5, <1>6, <1>7 DEF UsedOnceInNonceOrder

(* Any other action: the same roots are in use. *)
LEMMA NoRootUsed ==
    ASSUME UsedOnceInNonceOrder,
           UNCHANGED <<merkleRootNonce, usedRoots>>,
           \A q \in Roots : merkleRootStates'[q].status # "EMPTY" <=>
               merkleRootStates[q].status # "EMPTY"
    PROVE  UsedOnceInNonceOrder'
  BY DEF UsedOnceInNonceOrder

(* No root is used twice, and the n-th use spends nonce n - 1. *)
THEOREM UsedOnceCorrect == Spec => []UsedOnceInNonceOrder
<1>1. Init => UsedOnceInNonceOrder
  BY ConstantsAssumption DEF Init, EmptyState, UsedOnceInNonceOrder
<1>2. ASSUME IInv, UsedOnceInNonceOrder, [Next]_vars
      PROVE  UsedOnceInNonceOrder'
  <2>1. TypeOK
    BY <1>2 DEF IInv
  <2>2. ASSUME NEW caller \in Accounts, NEW r \in Roots, NEW leaf \in Tree[r],
               Approve(caller, r, leaf)
        PROVE  UsedOnceInNonceOrder'
    <3>1. \A q \in Roots : merkleRootStates'[q].status # "EMPTY" <=>
              merkleRootStates[q].status # "EMPTY" \/ q = r
      BY <2>1, <2>2, ApproveEffect
    <3>2. /\ merkleRootStates[r].status = "EMPTY"
          /\ leaf.leafType # "EXECUTE"
          /\ leaf.nonce = merkleRootNonce
          /\ merkleRootNonce' = (leaf.nonce + 1) % NonceSpace
          /\ usedRoots' = Append(usedRoots, r)
      BY <2>2 DEF Approve, ValidFirstLeaf, NonceMatches, Unused
    <3> QED
      BY <1>2, <2>1, <3>1, <3>2, UseRoot
  <2>3. ASSUME NEW caller \in Accounts, NEW r \in Roots, NEW leaf \in Tree[r],
               Cancel(caller, r, leaf)
        PROVE  UsedOnceInNonceOrder'
    <3>1. PICK a : a = activeMerkleRoot
      OBVIOUS
    <3>2. /\ a \in Roots /\ a # r
          /\ merkleRootStates'[r].status = "COMPLETED"
          /\ merkleRootStates'[a] = [merkleRootStates[a] EXCEPT !.status = "CANCELED"]
          /\ \A q \in Roots : q \notin {r, a} =>
                merkleRootStates'[q] = merkleRootStates[q]
          /\ merkleRootStates[a].status = "APPROVED"
      BY <1>2, <2>3, <3>1, CancelEffect DEF IInv
    <3>3. merkleRootStates'[a].status = "CANCELED"
      <4>1. merkleRootStates[a] \in MerkleRootState
        BY <2>1, <3>2 DEF TypeOK
      <4> QED
        BY <3>2, <4>1 DEF MerkleRootState
    <3>4. \A q \in Roots : merkleRootStates'[q].status # "EMPTY" <=>
              merkleRootStates[q].status # "EMPTY" \/ q = r
      BY <3>2, <3>3
    <3>5. /\ merkleRootStates[r].status = "EMPTY"
          /\ leaf.leafType # "EXECUTE"
          /\ leaf.nonce = merkleRootNonce
          /\ merkleRootNonce' = (leaf.nonce + 1) % NonceSpace
          /\ usedRoots' = Append(usedRoots, r)
      BY <2>3 DEF Cancel, ValidFirstLeaf, NonceMatches, Unused
    <3> QED
      BY <1>2, <2>1, <3>4, <3>5, UseRoot
  <2>4. CASE UNCHANGED <<merkleRootStates, merkleRootNonce, usedRoots>>
    BY <1>2, <2>4, NoRootUsed
  <2>5. ASSUME NEW r, NEW n, NEW status, r = frame.root, Open,
               status # "EMPTY",
               merkleRootStates' = [merkleRootStates EXCEPT ![r] =
                  [@ EXCEPT !.leavesExecuted = n, !.status = status]],
               UNCHANGED <<merkleRootNonce, usedRoots>>
        PROVE  UsedOnceInNonceOrder'
    <3>1. r \in Roots /\ merkleRootStates \in [Roots -> MerkleRootState]
      BY <2>1, <2>5, Types DEF TypeOK
    <3>2. merkleRootStates[r] \in MerkleRootState
          /\ merkleRootStates[r].status = "APPROVED"
      BY <1>2, <2>5, <3>1 DEF IInv, CachedStateFresh, ActiveIsApproved
    <3>3. /\ merkleRootStates'[r] = [merkleRootStates[r] EXCEPT
                 !.leavesExecuted = n, !.status = status]
          /\ \A q \in Roots : q # r => merkleRootStates'[q] = merkleRootStates[q]
      BY <2>5, <3>1
    <3>4. merkleRootStates'[r].status = status
      BY <3>2, <3>3 DEF MerkleRootState
    <3> QED
      BY <1>2, <2>5, <3>2, <3>3, <3>4, NoRootUsed
  <2>6. Open => merkleRootStates[frame.root].status = "APPROVED"
    BY <1>2, Types DEF IInv, CachedStateFresh, ActiveIsApproved
  <2>7. ASSUME NEW success \in BOOLEAN, SafeReturn(success)
        PROVE  UsedOnceInNonceOrder'
    <3>1. CASE FailsRoot(success)
      <4>1. merkleRootStates' = [merkleRootStates EXCEPT ![frame.root] =
                [@ EXCEPT !.leavesExecuted = frame.leavesExecuted,
                          !.status = "FAILED"]]
            /\ UNCHANGED <<merkleRootNonce, usedRoots>> /\ Open
        BY <2>7, <3>1 DEF SafeReturn, Open
      <4> QED
        BY <4>1, <2>5
    <3>2. CASE ~FailsRoot(success)
      BY <2>4, <2>7, <3>2 DEF SafeReturn
    <3> QED
      BY <3>1, <3>2
  <2>8. ASSUME ExecuteFinish PROVE UsedOnceInNonceOrder'
    BY <2>5, <2>6, <2>8 DEF ExecuteFinish, Open
  <2> QED
    BY <1>2, <2>2, <2>3, <2>4, <2>7, <2>8
       DEF Next, ExecuteStart, ExecuteLeaf, ExecuteRevert, SafeReconfigure, vars
<1> QED
  BY <1>1, <1>2, Inductive, PTL DEF Spec

-----------------------------------------------------------------------------
(* The module keeps its promise: SphinxModule implements RootLifecycle, for*)
(* every trees, signatures and owners, batches of any size, and whatever   *)
(* the Safe runs.                                                          *)

(* A batch in progress has executed a leaf or has one left to execute:     *)
(* without it, a call of `execute` could commit nothing and yet count as a *)
(* batch.                                                                  *)
BatchNotEmpty ==
    Open => \/ frame.left > 0
            \/ frame.leavesExecuted > merkleRootStates[frame.root].leavesExecuted

(* The counter of a frame in its loop has not fallen behind the storage. *)
LEMMA CounterNotBehind ==
    ASSUME IInv, frame.pc = "loop"
    PROVE  /\ frame.root \in Roots /\ Open
           /\ frame.leavesExecuted \in Nat /\ frame.left \in Nat
           /\ merkleRootStates[frame.root].leavesExecuted \in Nat
           /\ frame.leavesExecuted >= merkleRootStates[frame.root].leavesExecuted
           /\ Len(actions[frame.root]) = frame.leavesExecuted - 1
           /\ Len(frame.saved.actions[frame.root]) =
                 merkleRootStates[frame.root].leavesExecuted - 1
<1>1. /\ frame.root \in Roots /\ Open
      /\ frame.leavesExecuted \in Nat /\ frame.left \in Nat
      /\ merkleRootStates[frame.root].leavesExecuted \in Nat
      /\ Len(actions[frame.root]) \in Nat
      /\ Len(frame.saved.actions[frame.root]) \in Nat
  BY Types DEF IInv, Open
<1>2. merkleRootStates[frame.root].status # "EMPTY"
  BY <1>1 DEF IInv, CachedStateFresh, ActiveIsApproved
<1>3. Len(actions[frame.root]) = frame.leavesExecuted - 1
  BY <1>1, <1>2 DEF IInv, ExecutedInOrder, CountedActions
<1>4. Len(frame.saved.actions[frame.root]) =
         merkleRootStates[frame.root].leavesExecuted - 1
  <2>1. merkleRootStates[frame.root].leavesExecuted =
           Len(frame.saved.actions[frame.root]) + 1
    BY <1>1 DEF IInv, CachedStateFresh
  <2> QED
    BY <1>1, <2>1
<1>5. Len(frame.saved.actions[frame.root]) <= Len(actions[frame.root])
  BY <1>1 DEF IInv, SavedIsPrefix
<1> QED
  BY <1>1, <1>3, <1>4, <1>5

(* Every entry into a batch has a leaf to execute, and every leaf counts. *)
LEMMA BatchNotEmptyStep ==
    ASSUME IInv, BatchNotEmpty, [Next]_vars
    PROVE  BatchNotEmpty'
<1>1. ASSUME ~Open' PROVE BatchNotEmpty'
  BY <1>1 DEF BatchNotEmpty
<1>2. ASSUME frame' = frame, merkleRootStates' = merkleRootStates
      PROVE  BatchNotEmpty'
  BY <1>2 DEF BatchNotEmpty, Open
<1>3. ASSUME frame.pc = "idle", frame' = frame PROVE BatchNotEmpty'
  BY <1>1, <1>3 DEF Open
<1>4. ASSUME NEW caller \in Accounts, NEW n \in 0 .. MaxBatch, ExecuteStart(caller, n)
      PROVE  BatchNotEmpty'
  <2>1. n \in Nat /\ n > 0 /\ frame'.left = n
    BY <1>4, ConstantsAssumption DEF ExecuteStart
  <2> QED
    BY <2>1 DEF BatchNotEmpty
<1>5. ASSUME NEW leaf, ExecuteLeaf(leaf) PROVE BatchNotEmpty'
  <2>1. frame'.leavesExecuted = frame.leavesExecuted + 1 /\ frame'.root = frame.root
        /\ merkleRootStates' = merkleRootStates /\ frame.pc = "loop"
    BY <1>5 DEF ExecuteLeaf
  <2> QED
    BY <2>1, CounterNotBehind DEF BatchNotEmpty
<1>6. ASSUME NEW success \in BOOLEAN, SafeReturn(success) PROVE BatchNotEmpty'
  <2>1. CASE FailsRoot(success)
    BY <1>1, <1>6, <2>1 DEF SafeReturn, Open, Idle
  <2>2. CASE ~FailsRoot(success)
    <3>1. /\ frame'.leavesExecuted = frame.leavesExecuted
          /\ frame'.root = frame.root /\ frame'.left = frame.left
          /\ merkleRootStates' = merkleRootStates /\ frame.pc = "call"
      BY <1>6, <2>2 DEF SafeReturn
    <3> QED
      BY <3>1 DEF BatchNotEmpty, Open
  <2> QED
    BY <2>1, <2>2
<1>7. ASSUME NEW caller, NEW r, NEW leaf, Approve(caller, r, leaf) \/ Cancel(caller, r, leaf)
      PROVE  BatchNotEmpty'
  BY <1>3, <1>7 DEF Approve, Cancel, nonReentrant
<1>8. ASSUME ExecuteFinish \/ ExecuteRevert PROVE BatchNotEmpty'
  BY <1>1, <1>8 DEF ExecuteFinish, ExecuteRevert, Open, Idle
<1>9. ASSUME UNCHANGED vars \/ \E new \in SafeState : SafeReconfigure(new)
      PROVE  BatchNotEmpty'
  BY <1>2, <1>9 DEF SafeReconfigure, vars
<1> QED
  BY <1>4, <1>5, <1>6, <1>7, <1>8, <1>9 DEF Next

-----------------------------------------------------------------------------
(* The steps that commit *)

(* An approval begins its root. *)
LEMMA ApproveBegins ==
    ASSUME IInv, NEW caller \in Accounts, NEW r \in Roots, NEW leaf \in Tree[r],
           Approve(caller, r, leaf)
    PROVE  Lifecycle!Begin(r)
<1>1. /\ merkleRootStates'[r].numLeaves = leaf.numLeaves
      /\ merkleRootStates'[r].status =
            IF leaf.numLeaves = 1 THEN "COMPLETED" ELSE "APPROVED"
      /\ \A q \in Roots : q # r => merkleRootStates'[q] = merkleRootStates[q]
      /\ merkleRootStates[r].status = "EMPTY"
      /\ leaf.numLeaves \in Nat /\ leaf.numLeaves > 0
      /\ frame.pc = "idle" /\ frame' = frame /\ actions' = actions
  BY ApproveEffect DEF IInv
<1>2. activeMerkleRoot = NoRoot
      /\ activeMerkleRoot' = IF leaf.numLeaves = 1 THEN NoRoot ELSE r
  BY DEF Approve
<1>3. sizes'[r] = leaf.numLeaves /\ statuses[r] = "EMPTY"
  BY <1>1 DEF sizes, statuses
<1>4. sizes' = [sizes EXCEPT ![r] = sizes'[r]]
  BY <1>1, <1>3 DEF sizes
<1>5. statuses' = [statuses EXCEPT ![r] =
                      IF sizes'[r] = 1 THEN "COMPLETED" ELSE "APPROVED"]
  BY <1>1, <1>3 DEF statuses
<1>6. committed' = committed
  BY <1>1 DEF committed, Open
<1> QED
  BY <1>1, <1>2, <1>3, <1>4, <1>5, <1>6 DEF Lifecycle!Begin

(* A cancellation gives the active root up. *)
LEMMA CancelGivesUp ==
    ASSUME IInv, NEW caller \in Accounts, NEW r \in Roots, NEW leaf \in Tree[r],
           Cancel(caller, r, leaf)
    PROVE  Lifecycle!GiveUp(r)
<1>1. /\ activeMerkleRoot \in Roots /\ activeMerkleRoot # r
      /\ merkleRootStates'[r].numLeaves = 1
      /\ merkleRootStates'[r].status = "COMPLETED"
      /\ merkleRootStates'[activeMerkleRoot] =
             [merkleRootStates[activeMerkleRoot] EXCEPT !.status = "CANCELED"]
      /\ \A q \in Roots : q \notin {r, activeMerkleRoot} =>
            merkleRootStates'[q] = merkleRootStates[q]
      /\ merkleRootStates[r].status = "EMPTY"
      /\ frame.pc = "idle" /\ frame' = frame /\ actions' = actions
  BY CancelEffect DEF IInv
<1>2. activeMerkleRoot # NoRoot /\ activeMerkleRoot' = NoRoot
  BY DEF Cancel
<1>3. merkleRootStates[activeMerkleRoot] \in MerkleRootState
  BY <1>1 DEF IInv, TypeOK
<1>4. merkleRootStates'[activeMerkleRoot].status = "CANCELED"
      /\ merkleRootStates'[activeMerkleRoot].numLeaves =
            merkleRootStates[activeMerkleRoot].numLeaves
  BY <1>1, <1>3 DEF MerkleRootState
<1>5. sizes' = [sizes EXCEPT ![r] = 1]
  BY <1>1, <1>4 DEF sizes
<1>6. statuses' = [statuses EXCEPT ![activeMerkleRoot] = "CANCELED", ![r] = "COMPLETED"]
  BY <1>1, <1>4 DEF statuses
<1>7. committed' = committed
  BY <1>1 DEF committed, Open
<1>8. statuses[r] = "EMPTY"
  BY <1>1 DEF statuses
<1> QED
  BY <1>2, <1>5, <1>6, <1>7, <1>8 DEF Lifecycle!GiveUp

(* The open frame ends: its root's log is stored, which is a batch longer  *)
(* than before the call, and its status as the log demands.                *)
Commits(r, log, numLeaves, status) ==
    /\ Open /\ ~Open'
    /\ r = frame.root /\ numLeaves = merkleRootStates[r].numLeaves
    /\ actions' = [actions EXCEPT ![r] = log]
    /\ Len(frame.saved.actions[r]) < Len(log) /\ Len(log) < numLeaves
    /\ \A i \in 1 .. Len(frame.saved.actions[r]) : log[i] = frame.saved.actions[r][i]
    /\ \A i \in 1 .. Len(log) : log[i].leaf.index = i
    /\ \A i \in 1 .. Len(log) : FatalAt(log, i) => i = Len(log)
    /\ status = IF FatalAt(log, Len(log)) THEN "FAILED"
                ELSE IF Len(log) + 1 = numLeaves THEN "COMPLETED" ELSE "APPROVED"
    /\ merkleRootStates'[r].status = status
    /\ merkleRootStates'[r].numLeaves = numLeaves
    /\ \A q \in Roots : q # r => merkleRootStates'[q] = merkleRootStates[q]
    /\ activeMerkleRoot' = IF status = "APPROVED" THEN r ELSE NoRoot

(* That is a batch of RootLifecycle. *)
LEMMA FrameCommits ==
    ASSUME IInv, NEW r, NEW log \in Seq(Action), NEW numLeaves \in Nat, NEW status,
           Commits(r, log, numLeaves, status)
    PROVE  Lifecycle!PerformBatch
<1> USE DEF Commits
<1> DEFINE saved == frame.saved.actions
<1>1. /\ r \in Roots /\ activeMerkleRoot = r /\ r # NoRoot
      /\ saved \in ActionLog /\ Len(saved[r]) \in Nat
  BY Types, ConstantsAssumption DEF IInv, CachedStateFresh
<1>2. committed = saved /\ committed' = actions'
  BY DEF committed
<1>3. actions \in [Roots -> Seq(Action)] /\ saved \in [Roots -> Seq(Action)]
  BY <1>1 DEF IInv, TypeOK, ActionLog
<1>4. \A q \in Roots : q # r => saved[q] = actions[q]
  BY DEF IInv, SavedIsPrefix
<1> HIDE DEF saved
<1>5. committed'[r] = log /\ committed' = [committed EXCEPT ![r] = log]
  BY <1>1, <1>2, <1>3, <1>4
<1>6. committed[r] = saved[r]
  BY <1>2
<1>7. sizes' = sizes /\ sizes[r] = numLeaves
  BY <1>1 DEF sizes
<1>8. statuses' = [statuses EXCEPT ![r] = status]
  BY <1>1 DEF statuses
<1>9. \A i \in 1 .. Len(log) : Lifecycle!Fatal(log[i]) <=> FatalAt(log, i)
  <2>1. ASSUME NEW i \in 1 .. Len(log) PROVE log[i].success \in BOOLEAN
    <3>1. log[i] \in Action
      OBVIOUS
    <3> QED
      BY <3>1, Zenon DEF Action
  <2> QED
    BY <2>1, Zenon DEF Lifecycle!Fatal, FatalAt
<1>10. Len(log) \in Nat /\ Len(log) \in 1 .. Len(log)
  BY <1>1 DEF saved
<1>11. Lifecycle!Fatal(log[Len(log)]) <=> FatalAt(log, Len(log))
  BY <1>9, <1>10
<1>12. \A i \in Len(saved[r]) + 1 .. Len(log) :
          log[i].leaf.index = i /\ (Lifecycle!Fatal(log[i]) => i = Len(log))
  BY <1>1, <1>9, <1>10
<1>13. status = IF Lifecycle!Fatal(log[Len(log)]) THEN "FAILED"
                ELSE IF Len(log) + 1 = sizes[r] THEN "COMPLETED" ELSE "APPROVED"
  BY <1>7, <1>11
<1>14. \A i \in 1 .. Len(saved[r]) : log[i] = saved[r][i]
  BY DEF saved
<1>15. Len(saved[r]) < Len(log)
  BY DEF saved
<1> DEFINE old == committed[activeMerkleRoot]
           new == committed'[activeMerkleRoot]
           outcome == IF Lifecycle!Fatal(new[Len(new)]) THEN "FAILED"
                      ELSE IF Len(new) + 1 = sizes[activeMerkleRoot]
                           THEN "COMPLETED" ELSE "APPROVED"
<1>16. old = saved[r] /\ new = log
  BY <1>1, <1>5, <1>6
<1>17. outcome = status
  BY <1>1, <1>13, <1>16
<1>18. Len(old) < Len(new) /\ Len(new) < sizes[activeMerkleRoot]
  BY <1>1, <1>7, <1>15, <1>16
<1>19. \A i \in 1 .. Len(old) : new[i] = old[i]
  BY <1>14, <1>16
<1>20. \A i \in Len(old) + 1 .. Len(new) :
          new[i].leaf.index = i /\ (Lifecycle!Fatal(new[i]) => i = Len(new))
  BY <1>12, <1>16
<1>21. committed' = [committed EXCEPT ![activeMerkleRoot] = new]
  BY <1>1, <1>5, <1>16
<1> HIDE DEF outcome
<1>22. /\ statuses' = [statuses EXCEPT ![activeMerkleRoot] = outcome]
       /\ activeMerkleRoot' = IF outcome = "APPROVED" THEN activeMerkleRoot ELSE NoRoot
  BY <1>1, <1>8, <1>17
<1> QED
  BY <1>1, <1>7, <1>18, <1>19, <1>20, <1>21, <1>22, Zenon DEF outcome, Lifecycle!PerformBatch

(* The fatal failure of a leaf commits the batch up to that leaf. *)
LEMMA FailureCommits ==
    ASSUME IInv, NEW success \in BOOLEAN, SafeReturn(success), FailsRoot(success)
    PROVE  Lifecycle!PerformBatch
<1>1. PICK r : r = frame.root
  OBVIOUS
<1>2. PICK action : action = [leaf |-> frame.leaf, success |-> success]
  OBVIOUS
<1>3. PICK log : log = Append(actions[r], action)
  OBVIOUS
<1>4. PICK numLeaves : numLeaves = merkleRootStates[r].numLeaves
  OBVIOUS
<1>5. /\ Open /\ frame.pc = "call" /\ r \in Roots /\ activeMerkleRoot = r
      /\ numLeaves \in Nat
      /\ frame.leavesExecuted + frame.left <= numLeaves
      /\ frame.leavesExecuted \in Nat /\ frame.left \in Nat
      /\ actions[r] \in Seq(Action)
      /\ Len(actions[r]) = frame.leavesExecuted - 2
      /\ action \in Action
      /\ actions'[r] = log
  BY <1>1, <1>2, <1>3, <1>4, SafeReturnEffect
<1>6. log \in Seq(Action) /\ Len(log) = frame.leavesExecuted - 1
  BY <1>3, <1>5
<1>7. actions' = [actions EXCEPT ![r] = log]
  BY <1>1, <1>2, <1>3 DEF SafeReturn
<1>8. /\ Len(frame.saved.actions[r]) \in Nat
      /\ Len(frame.saved.actions[r]) < Len(log)
      /\ \A i \in 1 .. Len(frame.saved.actions[r]) : log[i] = frame.saved.actions[r][i]
  <2>1. /\ Len(frame.saved.actions[r]) \in Nat
        /\ Len(frame.saved.actions[r]) <= Len(actions[r])
        /\ \A i \in 1 .. Len(frame.saved.actions[r]) :
              frame.saved.actions[r][i] = actions[r][i]
    BY <1>1, <1>5, Types DEF IInv, SavedIsPrefix
  <2>2. \A i \in 1 .. Len(actions[r]) : log[i] = actions[r][i]
    BY <1>3, <1>5
  <2>3. \A i \in 1 .. Len(frame.saved.actions[r]) : i \in 1 .. Len(actions[r])
    BY <1>5, <2>1
  <2> QED
    BY <1>5, <1>6, <2>1, <2>2, <2>3
<1>9. Len(log) < numLeaves
  BY <1>5, <1>6
<1>10. \A i \in 1 .. Len(log) : log[i].leaf.index = i
  BY <1>5, SafeReturnFollowsTree DEF FollowsTree
<1>11. Outcome("FAILED", numLeaves, log)
  BY <1>1, <1>4, <1>5, SafeReturnOutcome
<1>12. FatalAt(log, Len(log)) /\ \A i \in 1 .. Len(log) : FatalAt(log, i) => i = Len(log)
  BY <1>11 DEF Outcome
<1>13. /\ merkleRootStates'[r].status = "FAILED"
       /\ merkleRootStates'[r].numLeaves = numLeaves
       /\ \A q \in Roots : q # r => merkleRootStates'[q] = merkleRootStates[q]
  <2>1. PICK n : n = frame.leavesExecuted
    OBVIOUS
  <2>2. merkleRootStates' = [merkleRootStates EXCEPT ![r] =
            [@ EXCEPT !.leavesExecuted = n, !.status = "FAILED"]]
    BY <1>1, <2>1 DEF SafeReturn
  <2>3. merkleRootStates \in [Roots -> MerkleRootState]
    BY DEF IInv, TypeOK
  <2> QED
    BY <1>4, <1>5, <2>2, <2>3 DEF MerkleRootState
<1>14. ~Open' /\ activeMerkleRoot' = NoRoot
  BY DEF SafeReturn, Open, Idle
<1>15. "FAILED" = IF FatalAt(log, Len(log)) THEN "FAILED"
                  ELSE IF Len(log) + 1 = numLeaves THEN "COMPLETED" ELSE "APPROVED"
  BY <1>12
<1>16. activeMerkleRoot' = IF "FAILED" = "APPROVED" THEN r ELSE NoRoot
  BY <1>14
<1>17. Commits(r, log, numLeaves, "FAILED")
  BY <1>1, <1>4, <1>5, <1>7, <1>8, <1>9, <1>10, <1>12, <1>13, <1>14, <1>15, <1>16
  DEF Commits
<1> QED
  BY <1>5, <1>6, <1>17, FrameCommits

(* The end of the loop commits the whole batch. *)
LEMMA FinishCommits ==
    ASSUME IInv, BatchNotEmpty, ExecuteFinish
    PROVE  Lifecycle!PerformBatch
<1>1. PICK r : r = frame.root
  OBVIOUS
<1>2. PICK n : n = frame.leavesExecuted
  OBVIOUS
<1>3. PICK log : log = actions[r]
  OBVIOUS
<1>4. PICK numLeaves : numLeaves = merkleRootStates[r].numLeaves
  OBVIOUS
<1>5. /\ Open /\ r \in Roots /\ n \in Nat /\ frame.left = 0
      /\ merkleRootStates[r].leavesExecuted \in Nat
      /\ Len(log) = n - 1
      /\ Len(frame.saved.actions[r]) = merkleRootStates[r].leavesExecuted - 1
  BY <1>1, <1>2, <1>3, CounterNotBehind DEF ExecuteFinish
<1>6. /\ activeMerkleRoot = r /\ merkleRootStates[r].status = "APPROVED"
      /\ n + 0 <= numLeaves /\ numLeaves \in Nat
  BY <1>1, <1>2, <1>4, <1>5, Types DEF IInv, CachedStateFresh, ActiveIsApproved
<1>7. n > merkleRootStates[r].leavesExecuted
  BY <1>1, <1>2, <1>5 DEF BatchNotEmpty
<1>8. log \in Seq(Action) /\ actions \in [Roots -> Seq(Action)]
  BY <1>3, <1>5 DEF IInv, TypeOK, ActionLog
<1>9. actions' = [actions EXCEPT ![r] = log]
  BY <1>3, <1>5, <1>8 DEF ExecuteFinish
<1>10. /\ Len(frame.saved.actions[r]) < Len(log) /\ Len(log) < numLeaves
  BY <1>5, <1>6, <1>7
<1>11. \A i \in 1 .. Len(frame.saved.actions[r]) : log[i] = frame.saved.actions[r][i]
  BY <1>1, <1>3, <1>5 DEF IInv, SavedIsPrefix
<1>12. \A i \in 1 .. Len(log) : log[i].leaf.index = i
  BY <1>3, <1>5 DEF IInv, ExecutedInOrder, FollowsTree
<1>13. \A i \in 1 .. Len(log) : ~FatalAt(log, i)
  BY <1>3, <1>5, <1>6 DEF IInv, OutcomeMatchesActions, Outcome
<1>14. PICK status : status = IF AllExecuted THEN "COMPLETED" ELSE "APPROVED"
  OBVIOUS
<1>15. /\ status = IF Len(log) + 1 = numLeaves THEN "COMPLETED" ELSE "APPROVED"
       /\ activeMerkleRoot' = IF status = "APPROVED" THEN r ELSE NoRoot
  BY <1>1, <1>2, <1>4, <1>5, <1>6, <1>14 DEF ExecuteFinish, AllExecuted
<1>16. /\ merkleRootStates'[r].status = status
       /\ merkleRootStates'[r].numLeaves = numLeaves
       /\ \A q \in Roots : q # r => merkleRootStates'[q] = merkleRootStates[q]
  <2>1. merkleRootStates' = [merkleRootStates EXCEPT ![r] =
            [@ EXCEPT !.leavesExecuted = n, !.status = status]]
    BY <1>1, <1>2, <1>6, <1>14 DEF ExecuteFinish
  <2>2. merkleRootStates \in [Roots -> MerkleRootState]
    BY DEF IInv, TypeOK
  <2> QED
    BY <1>4, <1>5, <2>1, <2>2 DEF MerkleRootState
<1>17. ~Open'
  BY DEF ExecuteFinish, Open, Idle
<1>18. ~FatalAt(log, Len(log))
  <2>1. Len(frame.saved.actions[r]) \in Nat
    BY <1>5, Types DEF IInv
  <2> QED
    BY <1>5, <1>10, <1>13, <2>1
<1>19. status = IF FatalAt(log, Len(log)) THEN "FAILED"
                ELSE IF Len(log) + 1 = numLeaves THEN "COMPLETED" ELSE "APPROVED"
  BY <1>15, <1>18
<1>20. \A i \in 1 .. Len(log) : FatalAt(log, i) => i = Len(log)
  BY <1>13
<1>21. Commits(r, log, numLeaves, status)
  BY <1>1, <1>4, <1>5, <1>9, <1>10, <1>11, <1>12, <1>15, <1>16, <1>17, <1>19, <1>20
  DEF Commits
<1> QED
  BY <1>6, <1>8, <1>21, FrameCommits

-----------------------------------------------------------------------------
(* Every step commits what RootLifecycle allows, or commits nothing.       *)
LEMMA StepImplementsLifecycle ==
    ASSUME IInv, BatchNotEmpty, [Next]_vars
    PROVE  [Lifecycle!Next]_(Lifecycle!vars)
<1>1. ASSUME merkleRootStates' = merkleRootStates, committed' = committed,
             activeMerkleRoot' = activeMerkleRoot
      PROVE  UNCHANGED Lifecycle!vars
  BY <1>1 DEF statuses, sizes, Lifecycle!vars
<1>2. ASSUME NEW caller \in Accounts, NEW n, ExecuteStart(caller, n)
      PROVE  UNCHANGED Lifecycle!vars
  <2>1. committed' = committed
    BY <1>2 DEF ExecuteStart, nonReentrant, committed, Open
  <2> QED
    BY <1>1, <1>2, <2>1 DEF ExecuteStart
<1>3. ASSUME NEW leaf, ExecuteLeaf(leaf) PROVE UNCHANGED Lifecycle!vars
  <2>1. committed' = committed
    BY <1>3 DEF ExecuteLeaf, committed, Open
  <2> QED
    BY <1>1, <1>3, <2>1 DEF ExecuteLeaf
<1>4. ASSUME NEW success \in BOOLEAN, SafeReturn(success), ~FailsRoot(success)
      PROVE  UNCHANGED Lifecycle!vars
  <2>1. committed' = committed
    BY <1>4 DEF SafeReturn, committed, Open
  <2> QED
    BY <1>1, <1>4, <2>1 DEF SafeReturn
<1>5. ASSUME ExecuteRevert PROVE UNCHANGED Lifecycle!vars
  <2>1. committed' = committed
    BY <1>5 DEF ExecuteRevert, committed, Open, Idle
  <2> QED
    BY <1>1, <1>5, <2>1 DEF ExecuteRevert
<1>6. ASSUME UNCHANGED vars \/ \E new \in SafeState : SafeReconfigure(new)
      PROVE  UNCHANGED Lifecycle!vars
  <2>1. committed' = committed
    BY <1>6 DEF SafeReconfigure, vars, committed, Open
  <2> QED
    BY <1>1, <1>6, <2>1 DEF SafeReconfigure, vars
<1>7. ASSUME NEW success \in BOOLEAN, SafeReturn(success), FailsRoot(success)
      PROVE  Lifecycle!Next
  BY <1>7, FailureCommits DEF Lifecycle!Next
<1>8. ASSUME ExecuteFinish PROVE Lifecycle!Next
  BY <1>8, FinishCommits DEF Lifecycle!Next
<1>9. ASSUME NEW caller \in Accounts, NEW r \in Roots, NEW leaf \in Tree[r],
             Approve(caller, r, leaf) \/ Cancel(caller, r, leaf)
      PROVE  Lifecycle!Next
  BY <1>9, ApproveBegins, CancelGivesUp DEF Lifecycle!Next
<1> QED
  BY <1>2, <1>3, <1>4, <1>5, <1>6, <1>7, <1>8, <1>9 DEF Next

(* The whole contract, with its calls of the Safe, the reentrancy and the  *)
(* reverts they bring, implements the lifecycle that its users rely on.    *)
THEOREM ModuleImplementsLifecycle == Spec => ImplementsLifecycle
<1>1. Init => Lifecycle!Init /\ BatchNotEmpty
  BY DEF Init, Lifecycle!Init, statuses, sizes, committed, Open, Idle, EmptyState,
         BatchNotEmpty
<1>2. IInv /\ BatchNotEmpty /\ [Next]_vars => BatchNotEmpty'
  BY BatchNotEmptyStep
<1>3. IInv /\ BatchNotEmpty /\ [Next]_vars => [Lifecycle!Next]_(Lifecycle!vars)
  BY StepImplementsLifecycle
<1> QED
  BY <1>1, <1>2, <1>3, Inductive, PTL DEF Spec, ImplementsLifecycle, Lifecycle!Spec

=============================================================================
