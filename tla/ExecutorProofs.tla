---------------------------- MODULE ExecutorProofs ----------------------------
(***************************************************************************)
(* Theorems about Executor, for every deployment, every roots and nonces,  *)
(* every gas estimates and networks, and any number of crashes.            *)
(***************************************************************************)
EXTENDS Executor, FiniteSetTheorems, WellFoundedInduction, TLAPS

-----------------------------------------------------------------------------
(* Numbers: the least and the greatest of a set, and the sum of the leaves'*)
(* gas.  An induction is a least counterexample.                           *)

(* A set of natural numbers has a least element. *)
LEMMA LeastNumber ==
    ASSUME NEW T, T \subseteq Nat, T # {}
    PROVE  \E m \in T : \A n \in T : m <= n
<1>1. IsWellFoundedOn(OpToRel(<, Nat), Nat)
  BY NatLessThanWellFounded
<1>2. PICK m \in T : \A n \in T : ~ (<<n, m>> \in OpToRel(<, Nat))
  BY <1>1, WFMin
<1>3. \A n \in T : ~(n < m)
  BY <1>2 DEF OpToRel
<1> QED
  BY <1>3

(* A bounded set of natural numbers has a greatest element, which Max is. *)
LEMMA MaxIsGreatest ==
    ASSUME NEW T, T \subseteq Nat, T # {}, NEW bound \in Nat, \A n \in T : n <= bound
    PROVE  Max(T) \in T /\ \A n \in T : n <= Max(T)
<1> DEFINE Gaps == {gap \in Nat : \E n \in T : gap = bound - n}
<1>1. Gaps \subseteq Nat
  OBVIOUS
<1>2. Gaps # {}
  <2>1. PICK n \in T : TRUE
    OBVIOUS
  <2>2. bound - n \in Gaps
    BY <2>1
  <2> QED
    BY <2>2
<1>3. PICK gap \in Gaps : \A g \in Gaps : gap <= g
  <2> HIDE DEF Gaps
  <2> QED
    BY <1>1, <1>2, LeastNumber
<1>4. PICK m \in T : gap = bound - m
  BY <1>3
<1>5. ASSUME NEW n \in T PROVE m >= n
  <2>1. bound - n \in Gaps
    OBVIOUS
  <2>2. gap <= bound - n
    BY <1>3, <2>1
  <2> QED
    BY <1>4, <2>2
<1>6. \E x \in T : \A y \in T : x >= y
  BY <1>5
<1>7. Max(T) \in T /\ \A y \in T : Max(T) >= y
  BY <1>6, Zenon DEF Max
<1> QED
  BY <1>7

(* Min is the least element. *)
LEMMA MinIsLeast ==
    ASSUME NEW T, T \subseteq Nat, T # {}
    PROVE  Min(T) \in T /\ \A n \in T : Min(T) <= n
  BY LeastNumber DEF Min

(* What a leaf adds to estimateModuleExecutionGas, the leaf the sum takes *)
(* next, and what it means that f sums up the sets of D.                   *)
GasOf(i) == (IF i = 0 THEN 0 ELSE LeafGas[i]) + 24
Pick(s) == CHOOSE x \in s : TRUE
SumsUp(f, D) == f = [s \in D |-> IF s = {} THEN 0 ELSE GasOf(Pick(s)) + f[s \ {Pick(s)}]]

(* Taking the next leaf away leaves one less. *)
LEMMA PickOne ==
    ASSUME NEW s, IsFiniteSet(s), s # {}
    PROVE  /\ Pick(s) \in s
           /\ IsFiniteSet(s \ {Pick(s)})
           /\ Cardinality(s) \in Nat /\ Cardinality(s \ {Pick(s)}) \in Nat
           /\ Cardinality(s \ {Pick(s)}) = Cardinality(s) - 1
<1>1. Pick(s) \in s
  BY DEF Pick
<1> QED
  BY <1>1, FS_RemoveElement, FS_CardinalityType

(* The recursive definition of the sum has a solution: one for sets of at  *)
(* most n leaves extends to sets of n + 1.                                 *)
LEMMA GasSumExists ==
    ASSUME NEW leaves, IsFiniteSet(leaves)
    PROVE  \E f : SumsUp(f, SUBSET leaves)
<1> DEFINE Level(n) == {s \in SUBSET leaves : Cardinality(s) <= n}
           Good(n) == \E f : SumsUp(f, Level(n))
           Bad == {n \in Nat : ~Good(n)}
<1>1. \A s \in SUBSET leaves : IsFiniteSet(s) /\ Cardinality(s) \in Nat
                                /\ Cardinality(s) <= Cardinality(leaves)
  BY FS_Subset, FS_CardinalityType
<1>2. Good(0)
  <2> DEFINE f == [s \in Level(0) |-> 0]
  <2>1. \A s \in Level(0) : s = {}
    BY <1>1, FS_EmptySet
  <2>2. f = [s \in Level(0) |-> IF s = {} THEN 0 ELSE GasOf(Pick(s)) + f[s \ {Pick(s)}]]
    BY <2>1
  <2> QED
    BY <2>2 DEF SumsUp
<1>3. ASSUME NEW n \in Nat, Good(n) PROVE Good(n + 1)
  <2>1. PICK f : SumsUp(f, Level(n))
    BY <1>3
  <2> DEFINE h == [s \in Level(n + 1) |->
                      IF s = {} THEN 0 ELSE GasOf(Pick(s)) + f[s \ {Pick(s)}]]
  <2>2. ASSUME NEW s \in Level(n)
        PROVE  s \in Level(n + 1) /\ h[s] = f[s]
    <3>1. s \in Level(n + 1)
      BY <1>1
    <3>2. f[s] = IF s = {} THEN 0 ELSE GasOf(Pick(s)) + f[s \ {Pick(s)}]
      BY <2>1 DEF SumsUp
    <3> QED
      BY <3>1, <3>2
  <2>3. ASSUME NEW s \in Level(n + 1), s # {}
        PROVE  h[s \ {Pick(s)}] = f[s \ {Pick(s)}]
    <3>1. Cardinality(s \ {Pick(s)}) = Cardinality(s) - 1 /\ Cardinality(s) \in Nat
      BY <1>1, <2>3, PickOne
    <3>2. s \ {Pick(s)} \in SUBSET leaves /\ Cardinality(s) <= n + 1
      OBVIOUS
    <3>3. Cardinality(s \ {Pick(s)}) <= n
      BY <3>1, <3>2
    <3> QED
      BY <2>2, <3>2, <3>3
  <2>4. h = [s \in Level(n + 1) |->
                IF s = {} THEN 0 ELSE GasOf(Pick(s)) + h[s \ {Pick(s)}]]
    BY <2>3
  <2> QED
    BY <2>4 DEF SumsUp
<1>4. Bad = {}
  <2>1. SUFFICES ASSUME Bad # {} PROVE FALSE
    OBVIOUS
  <2>2. PICK m \in Bad : \A n \in Bad : m <= n
    <3> HIDE DEF Good
    <3> QED
      BY <2>1, LeastNumber
  <2>3. m # 0 /\ m \in Nat
    BY <1>2
  <2>4. m - 1 \in Nat /\ m - 1 \notin Bad
    <3> HIDE DEF Good
    <3> QED
      BY <2>2, <2>3
  <2>5. Good(m - 1 + 1)
    <3> HIDE DEF Good
    <3> QED
      BY <1>3, <2>4
  <2>6. m - 1 + 1 = m
    BY <2>3
  <2>7. Good(m) /\ ~Good(m)
    <3> HIDE DEF Good
    <3> QED
      BY <2>5, <2>6
  <2> QED
    BY <2>7
<1>5. Cardinality(leaves) \in Nat
  BY FS_CardinalityType
<1>6. Good(Cardinality(leaves))
  BY <1>4, <1>5
<1>7. Level(Cardinality(leaves)) = SUBSET leaves
  BY <1>1
<1> QED
  BY <1>6, <1>7

(* Every solution is a natural number everywhere. *)
LEMMA GasSumType ==
    ASSUME NEW leaves, IsFiniteSet(leaves), NEW f, SumsUp(f, SUBSET leaves),
           \A i \in leaves : GasOf(i) \in Nat
    PROVE  \A s \in SUBSET leaves : f[s] \in Nat
<1> DEFINE Bad == {n \in Nat : \E s \in SUBSET leaves : Cardinality(s) = n /\ f[s] \notin Nat}
<1>1. \A s \in SUBSET leaves : IsFiniteSet(s) /\ Cardinality(s) \in Nat
  BY FS_Subset, FS_CardinalityType
<1>2. Bad = {}
  <2>1. SUFFICES ASSUME Bad # {} PROVE FALSE
    OBVIOUS
  <2>2. PICK m \in Bad : \A n \in Bad : m <= n
    BY <2>1, LeastNumber
  <2>3. PICK s \in SUBSET leaves : Cardinality(s) = m /\ f[s] \notin Nat
    OBVIOUS
  <2>4. f[s] = IF s = {} THEN 0 ELSE GasOf(Pick(s)) + f[s \ {Pick(s)}]
    BY DEF SumsUp
  <2>5. s # {}
    BY <2>3, <2>4
  <2>6. Pick(s) \in leaves /\ Cardinality(s \ {Pick(s)}) = m - 1 /\ m - 1 \in Nat
    BY <1>1, <2>3, <2>5, PickOne
  <2>7. m - 1 \notin Bad
    BY <2>2, <2>6
  <2>8. f[s \ {Pick(s)}] \in Nat
    BY <2>6, <2>7
  <2> QED
    BY <2>3, <2>4, <2>5, <2>6, <2>8
<1> QED
  BY <1>1, <1>2

(* The gas that the module demands for leaves is a natural number. *)
LEMMA GasIsNatural ==
    ASSUME NEW leaves, IsFiniteSet(leaves), \A i \in leaves : GasOf(i) \in Nat
    PROVE  estimateModuleExecutionGas(leaves) \in Nat
<1> DEFINE sum == CHOOSE f : SumsUp(f, SUBSET leaves)
<1>1. SumsUp(sum, SUBSET leaves)
  BY GasSumExists
<1>2. sum[leaves] \in Nat
  <2> HIDE DEF sum
  <2> QED
  BY <1>1, GasSumType
<1>3. estimateModuleExecutionGas(leaves) = 30 + sum[leaves]
  BY DEF estimateModuleExecutionGas, MapThenSumSet, MapThenFoldSet, SumsUp, GasOf, Pick
<1> QED
  BY <1>2, <1>3

-----------------------------------------------------------------------------
(* The inductive invariant *)

Phases == {"EMPTY", "APPROVED", "COMPLETED", "CANCELED", "FAILED"}

Performed ==
    [leaf : [index : Nat, requireSuccess : BOOLEAN], success : BOOLEAN]

Sent ==
    {tx \in [kind : {"fund", "deploy", "system", "approve", "execute"},
             first : Nat, count : Nat] :
        tx.kind = "system" => tx.first \in SystemContracts}

Reports ==
    [kind : {"none", "success", "failure", "already", "error"}, action : Int]

(* The steps of an attempt, by how far it has come. *)
Preparing == {"system", "awaitSystem"}
Funding == {"fund", "awaitFund", "deploySafe", "awaitDeploy"}
Approving == {"readState", "awaitApprove"}
Executing == {"readActive", "readActiveState", "batch", "awaitExecute", "readAfter"}
Steps == {"idle"} \cup Preparing \cup Funding \cup Approving \cup Executing

AttemptType ==
    [pc : Steps, contract : SystemContracts, active : Roots \cup {NoRoot},
     executed : Nat, batch : Nat]

(* The types, as precise as the steps need them. *)
Types ==
    /\ phase \in [Roots -> Phases]
    /\ size \in [Roots -> Nat]
    /\ performed \in [Roots -> Seq(Performed)]
    /\ current \in Roots \cup {NoRoot}
    /\ deployed \in BOOLEAN
    /\ balance \in Nat /\ transferred \in BOOLEAN /\ taken \in BOOLEAN
    /\ pool \subseteq Sent
    /\ attempt \in AttemptType
    /\ report \in Reports
    /\ crashes \in 0 .. MaxCrashes
    /\ system \subseteq SystemContracts
    /\ network \in Networks
    /\ executionMode \in ExecutionModes
    /\ isSystemDeployed \in BOOLEAN

(* A batch ends with the deployment's last leaf at the latest. *)
BatchFits ==
    /\ attempt.executed + attempt.batch <= Size[deployment]
    /\ attempt.pc = "batch" => attempt.executed < Size[deployment]
    /\ attempt.pc \notin {"awaitExecute", "readAfter"} => attempt.batch = 0
    /\ attempt.pc \notin {"batch", "awaitExecute", "readAfter"} =>
          attempt.executed = 0

(* An attempt goes on only with what the steps before it have deployed. *)
PreparedInOrder ==
    /\ isSystemDeployed => checkSystemDeployed
    /\ attempt.pc \in Funding \cup Approving \cup Executing => checkSystemDeployed
    /\ attempt.pc \in Approving \cup Executing => deployed

(* An attempt that goes beyond the transfer, or has sent the approval. *)
PastFunding ==
    \/ attempt.pc \in {"deploySafe", "awaitDeploy"} \cup Approving \cup Executing
    \/ ApproveTx \in pool

(* Until the approval, nothing of the Safe's money is spent unless somebody*)
(* else does; what was sent is there, and beyond the transfer all of it.   *)
FundedFirst ==
    phase[deployment] = "EMPTY" =>
        /\ performed[deployment] = <<>>
        /\ ~taken => balance >= StartingBalance
                                + (IF transferred THEN FundsRequested ELSE 0)
        /\ ~taken /\ PastFunding => balance >= SimulatedBalance[0]

(* The log of the approved deployment has an entry for a leaf it has.      *)
LogFits == phase[deployment] = "APPROVED" => Len(performed[deployment]) < Size[deployment]

(* The roots that have spent a nonce. *)
UsedRoots == {r \in Roots : phase[r] # "EMPTY"}

(* What the module's rules amount to: the current root is approved, a      *)
(* failed root ends with the fatal action, and an approved deployment has  *)
(* spent its nonce.                                                        *)
ModuleAsPromised ==
    /\ IsFiniteSet(UsedRoots)
    /\ current # NoRoot => phase[current] = "APPROVED"
    /\ \A r \in Roots : phase[r] = "FAILED" =>
          Module!Fatal(performed[r][Len(performed[r])])
    /\ phase[deployment] # "EMPTY" => ModuleNonce > Nonce[deployment]

(* No other root with leaves was signed with a nonce that comes after the  *)
(* deployment's.                                                           *)
NoRival ==
    \A r \in Roots \ {deployment} : Size[r] > 0 => Nonce[r] <= Nonce[deployment]

(* Then the root that the executor reads as active is the deployment or    *)
(* none, and none leads to leaves that the module rejects.                 *)
OursAlone ==
    /\ phase[deployment] # "EMPTY" => current \in {deployment, NoRoot}
    /\ attempt.pc \in Executing => phase[deployment] # "EMPTY"
    /\ attempt.pc \in Executing \ {"readActive"} =>
          attempt.active \in {deployment, NoRoot}
    /\ attempt.pc \in {"batch", "awaitExecute"} /\ attempt.active = NoRoot =>
          attempt.executed = 0
    /\ attempt.pc = "readAfter" => attempt.active = deployment

-----------------------------------------------------------------------------
(* What the handlers do to the attempt *)

(* The attempt goes on from one step to another and reports nothing. *)
Resumes(from, to) ==
    /\ attempt.pc = from
    /\ attempt' = [attempt EXCEPT !.pc = to]
    /\ report' = report

Undisturbed == attempt' = attempt /\ report' = report

Errs == attempt' = Idle /\ report' = [kind |-> "error", action |-> 0]

(* A mined transaction resumes the attempt that waits for it. *)
LEMMA AnswerEffect ==
    ASSUME NEW tx, NEW ok, Answer(tx, ok)
    PROVE  /\ pool' = pool \ {tx} /\ crashes' = crashes /\ setting' = setting
           /\ \/ Undisturbed
              \/ Errs
              \/ Resumes("awaitSystem", "system") /\ tx.kind = "system"
              \/ Resumes("awaitFund", "deploySafe") /\ tx.kind = "fund"
              \/ Resumes("awaitDeploy", "readState") /\ tx.kind = "deploy" /\ ok
              \/ Resumes("awaitApprove", "readActive") /\ tx.kind = "approve" /\ ok
              \/ /\ Resumes("awaitExecute", "readAfter") /\ tx.kind = "execute" /\ ok
                 /\ tx.first = attempt.executed
<1>1. pool' = pool \ {tx} /\ crashes' = crashes /\ setting' = setting
  BY DEF Answer
<1>2. CASE ~(Waiting /\ Awaited[attempt.pc] = tx)
  BY <1>2 DEF Answer, Undisturbed
<1>3. CASE Waiting /\ Awaited[attempt.pc] = tx /\ ~ok
  BY <1>3 DEF Answer, Errs, Tell
<1>4. CASE Waiting /\ Awaited[attempt.pc] = tx /\ ok
  <2>1. attempt' = [attempt EXCEPT !.pc = Resume[attempt.pc]] /\ report' = report
    BY <1>4 DEF Answer, Go
  <2>2. attempt.pc \in {"awaitSystem", "awaitFund", "awaitDeploy", "awaitApprove",
                        "awaitExecute"}
    BY <1>4 DEF Waiting, Awaited
  <2>3. CASE attempt.pc = "awaitSystem"
    BY <1>1, <1>4, <2>1, <2>3 DEF Awaited, Resume, SystemTx, Resumes
  <2>4. CASE attempt.pc = "awaitFund"
    BY <1>1, <1>4, <2>1, <2>4 DEF Awaited, Resume, FundTx, Resumes
  <2>5. CASE attempt.pc = "awaitDeploy"
    BY <1>1, <1>4, <2>1, <2>5 DEF Awaited, Resume, DeployTx, Resumes
  <2>6. CASE attempt.pc = "awaitApprove"
    BY <1>1, <1>4, <2>1, <2>6 DEF Awaited, Resume, ApproveTx, Resumes
  <2>7. CASE attempt.pc = "awaitExecute"
    BY <1>1, <1>4, <2>1, <2>7 DEF Awaited, Resume, ExecuteTx, Resumes
  <2> QED
    BY <2>2, <2>3, <2>4, <2>5, <2>6, <2>7
<1> QED
  BY <1>1, <1>2, <1>3, <1>4

(* The index and the status the executor reads of a root have their types. *)
LEMMA ReadTypes ==
    ASSUME Types, NEW r \in Roots \cup {NoRoot}
    PROVE  Status(r) \in Phases /\ LeavesExecuted(r) \in Nat
<1>1. CASE r = NoRoot
  BY <1>1 DEF Status, LeavesExecuted, Phases
<1>2. CASE r \in Roots
  <2>1. Len(performed[r]) \in Nat
    BY <1>2 DEF Types
  <2>2. Status(r) = phase[r] /\ phase[r] \in Phases
    BY <1>2, ExecutorAssumption DEF Types, Status
  <2> QED
    BY <2>1, <2>2 DEF LeavesExecuted
<1> QED
  BY <1>1, <1>2

(* handleStatus ends the attempt, and reports what the status says. *)
LEMMA HandleEffect ==
    ASSUME NEW status \in Phases, NEW action \in Int, HandleStatus(status, action)
    PROVE  /\ attempt' = Idle
           /\ report' \in Reports
           /\ report'.kind \in {"success", "failure", "error"}
           /\ report'.kind = "success" => status = "COMPLETED"
           /\ report'.kind = "failure" =>
                 \/ status = "CANCELED"
                 \/ status = "FAILED" /\ report'.action = action
<1>1. CASE status = "COMPLETED"
  BY <1>1 DEF HandleStatus, Tell, Reports
<1>2. CASE status = "FAILED"
  BY <1>2 DEF HandleStatus, Tell, Reports
<1>3. CASE status = "CANCELED"
  <2>1. Tell("failure", 0)
    BY <1>3 DEF HandleStatus
  <2> QED
    BY <1>3, <2>1 DEF Tell, Reports
<1>4. CASE status \notin {"COMPLETED", "FAILED", "CANCELED"}
  BY <1>4 DEF HandleStatus, Tell, Reports
<1> QED
  BY <1>1, <1>2, <1>3, <1>4

(* A batch has at most the leaves that are left, and it is executable.     *)
LEMMA BatchSize ==
    ASSUME NEW first \in Nat, first < Size[deployment]
    PROVE  /\ findMaxBatchSize(first) \in Nat
           /\ first + findMaxBatchSize(first) <= Size[deployment]
           /\ findMaxBatchSize(first) > 0 =>
                 isExecutable(first, findMaxBatchSize(first))
<1> DEFINE fitting == {n \in 1 .. MaxBatchSize(first) :
                          \A k \in 1 .. n : isExecutable(first, k)}
           T == {0} \cup fitting
<1>1. Size[deployment] \in Nat
  BY ExecutorAssumption
<1>2. MaxBatchSize(first) \in Nat /\ first + MaxBatchSize(first) <= Size[deployment]
  BY <1>1 DEF MaxBatchSize
<1>3. T \subseteq Nat /\ T # {} /\ \A n \in T : n <= MaxBatchSize(first)
  BY <1>2
<1>4. findMaxBatchSize(first) = Max(T)
  BY DEF findMaxBatchSize
<1>5. Max(T) \in T
  <2> HIDE DEF T
  <2> QED
    BY <1>2, <1>3, MaxIsGreatest
<1>6. Max(T) \in Nat /\ Max(T) <= MaxBatchSize(first)
  <2> HIDE DEF T
  <2> QED
    BY <1>3, <1>5
<1>7. Max(T) > 0 => isExecutable(first, Max(T))
  <2>1. SUFFICES ASSUME NEW n \in T, n > 0 PROVE isExecutable(first, n)
    BY <1>5
  <2>2. n \in fitting
    BY <2>1
  <2> QED
    BY <1>2, <2>2
<1> QED
  BY <1>1, <1>2, <1>4, <1>6, <1>7

-----------------------------------------------------------------------------
(* What the module's rules do to the chain *)

(* A root is approved: it spends its nonce and, if it has leaves to        *)
(* execute, becomes current.                                               *)
Began(r) ==
    /\ current = NoRoot
    /\ phase[r] = "EMPTY"
    /\ Nonce[r] = ModuleNonce /\ Size[r] > 0
    /\ performed' = performed
    /\ \E p \in {"APPROVED", "COMPLETED"} :
          /\ phase' = [phase EXCEPT ![r] = p]
          /\ current' = IF p = "APPROVED" THEN r ELSE NoRoot

(* The current root is canceled by r. *)
GaveUp(r) ==
    /\ current \in Roots
    /\ phase[r] = "EMPTY"
    /\ performed' = performed
    /\ phase' = [phase EXCEPT ![current] = "CANCELED", ![r] = "COMPLETED"]
    /\ current' = NoRoot

(* Leaves of the current root are executed. *)
WentOn ==
    /\ current \in Roots
    /\ \A r \in Roots \ {current} : performed'[r] = performed[r]
    /\ \E p \in {"APPROVED", "COMPLETED", "FAILED"} :
          /\ phase' = [phase EXCEPT ![current] = p]
          /\ current' = IF p = "APPROVED" THEN current ELSE NoRoot
          /\ p = "FAILED" =>
                Module!Fatal(performed'[current][Len(performed'[current])])

(* RootLifecycle's Begin, with the size of a signed root, is Began. *)
LEMMA BeginEffect ==
    ASSUME Types, NEW r \in Roots, CanApprove(r), Module!Begin(r),
           size' = [size EXCEPT ![r] = Size[r]]
    PROVE  /\ Began(r)
           /\ size' \in [Roots -> Nat]
           /\ phase'[r] = IF Size[r] = 1 THEN "COMPLETED" ELSE "APPROVED"
<1>1. size'[r] = Size[r] /\ size' \in [Roots -> Nat]
  BY ExecutorAssumption DEF Types
<1>2. CASE Size[r] = 1
  BY <1>1, <1>2 DEF Module!Begin, Began, CanApprove, Types
<1>3. CASE Size[r] # 1
  BY <1>1, <1>3 DEF Module!Begin, Began, CanApprove, Types
<1> QED
  BY <1>1, <1>2, <1>3

(* RootLifecycle's GiveUp is GaveUp. *)
LEMMA GiveUpEffect ==
    ASSUME Types, NEW r \in Roots, Module!GiveUp(r)
    PROVE  GaveUp(r) /\ size' \in [Roots -> Nat]
  BY DEF Module!GiveUp, GaveUp, Types

(* The log of the current root grows by what the Safe answered, and keeps  *)
(* its type.                                                               *)
LEMMA LogGrows ==
    ASSUME NEW old \in Seq(Performed), NEW first \in Nat, NEW n \in Nat,
           NEW outcome \in Outcomes(first, n)
    PROVE  \E new \in Seq(Performed) :
              /\ new = old \o [i \in 1 .. Len(outcome) |->
                           [leaf |-> [index |-> first + i - 1,
                                      requireSuccess |-> first + i - 1 \in Required],
                            success |-> outcome[i]]]
              /\ Len(new) = Len(old) + Len(outcome)
<1>1. PICK k \in 1 .. n : outcome \in [1 .. k -> BOOLEAN]
  BY DEF Outcomes
<1>2. Len(outcome) = k /\ k \in Nat
  BY <1>1
<1> DEFINE Entry(i) == [leaf |-> [index |-> first + i - 1,
                                  requireSuccess |-> first + i - 1 \in Required],
                        success |-> outcome[i]]
<1>3. ASSUME NEW i \in 1 .. k PROVE Entry(i) \in Performed
  <2>1. first + i - 1 \in Nat
    BY <1>2
  <2>2. (first + i - 1 \in Required) \in BOOLEAN /\ outcome[i] \in BOOLEAN
    BY <1>1
  <2> QED
    BY <2>1, <2>2, Zenon DEF Performed
<1> HIDE DEF Entry
<1>4. [i \in 1 .. k |-> Entry(i)] \in Seq(Performed)
  BY <1>2, <1>3
<1>5. /\ old \o [i \in 1 .. k |-> Entry(i)] \in Seq(Performed)
      /\ Len(old \o [i \in 1 .. k |-> Entry(i)]) = Len(old) + k
  BY <1>2, <1>4
<1> QED
  BY <1>2, <1>5 DEF Entry

(* A batch that the module takes grows the current root's log alone. *)
LEMMA PerformEffect ==
    ASSUME Types, current \in Roots, NEW first \in Nat, NEW n \in Nat,
           NEW outcome \in Outcomes(first, n), Perform(current, first, outcome)
    PROVE  /\ WentOn
           /\ performed' \in [Roots -> Seq(Performed)]
           /\ size' = size
<1>1. size' = size
  BY DEF Perform, Module!PerformBatch, Types
<1>2. performed' \in [Roots -> Seq(Performed)]
      /\ \A r \in Roots \ {current} : performed'[r] = performed[r]
  <2>1. performed[current] \in Seq(Performed)
    BY DEF Types
  <2>2. PICK new \in Seq(Performed) : new = performed[current] \o
            [i \in 1 .. Len(outcome) |->
                [leaf |-> [index |-> first + i - 1,
                           requireSuccess |-> first + i - 1 \in Required],
                 success |-> outcome[i]]]
    BY <2>1, LogGrows
  <2>3. performed' = [performed EXCEPT ![current] = new]
    BY <2>2 DEF Perform
  <2> QED
    BY <2>2, <2>3 DEF Types
<1>3. PICK new : new = performed'[current]
  OBVIOUS
<1>4. LET outcome_ == IF Module!Fatal(new[Len(new)]) THEN "FAILED"
                      ELSE IF Len(new) + 1 = size[current]
                           THEN "COMPLETED" ELSE "APPROVED"
      IN /\ phase' = [phase EXCEPT ![current] = outcome_]
         /\ current' = IF outcome_ = "APPROVED" THEN current ELSE NoRoot
  BY <1>3 DEF Perform, Module!PerformBatch
<1>5. CASE Module!Fatal(new[Len(new)])
  <2>1. phase' = [phase EXCEPT ![current] = "FAILED"] /\ current' = NoRoot
    BY <1>4, <1>5
  <2> QED
    BY <1>1, <1>2, <1>3, <1>5, <2>1 DEF WentOn
<1>6. CASE ~Module!Fatal(new[Len(new)]) /\ Len(new) + 1 = size[current]
  <2>1. phase' = [phase EXCEPT ![current] = "COMPLETED"] /\ current' = NoRoot
    BY <1>4, <1>6
  <2> QED
    BY <1>1, <1>2, <1>3, <1>6, <2>1 DEF WentOn
<1>7. CASE ~Module!Fatal(new[Len(new)]) /\ Len(new) + 1 # size[current]
  <2>1. phase' = [phase EXCEPT ![current] = "APPROVED"] /\ current' = current
    BY <1>4, <1>7
  <2> QED
    BY <1>1, <1>2, <1>3, <1>7, <2>1 DEF WentOn
<1> QED
  BY <1>5, <1>6, <1>7

-----------------------------------------------------------------------------
(* Types *)

(* An attempt that goes on, or ends, keeps its type. *)
LEMMA GoType ==
    /\ Idle \in AttemptType
    /\ attempt \in AttemptType => \A pc \in Steps : [attempt EXCEPT !.pc = pc] \in AttemptType
<1>1. Idle \in AttemptType
  BY ExecutorAssumption DEF Idle, AttemptType, Steps, SystemContracts
<1>2. ASSUME attempt \in AttemptType, NEW pc \in Steps
      PROVE  [attempt EXCEPT !.pc = pc] \in AttemptType
  BY <1>2 DEF AttemptType
<1> QED
  BY <1>1, <1>2

(* The answer to a mined transaction keeps the executor's types. *)
LEMMA AnswerTypes ==
    ASSUME Types, NEW tx, NEW ok, Answer(tx, ok)
    PROVE  /\ pool' \subseteq Sent
           /\ attempt' \in AttemptType
           /\ report' \in Reports
           /\ crashes' \in 0 .. MaxCrashes
           /\ network' \in Networks
           /\ executionMode' \in ExecutionModes
           /\ isSystemDeployed' \in BOOLEAN
<1>1. attempt \in AttemptType /\ report \in Reports
  BY DEF Types
<1>2. [kind |-> "error", action |-> 0] \in Reports
  BY DEF Reports
<1>3. attempt' \in AttemptType /\ report' \in Reports
  BY <1>1, <1>2, AnswerEffect, GoType
     DEF Undisturbed, Errs, Resumes, Steps, Preparing, Funding, Approving, Executing
<1> QED
  BY <1>3, AnswerEffect DEF Types, setting

(* The attempt's own steps keep the types. *)
LEMMA StepTypes ==
    ASSUME Types, BatchFits, Step
    PROVE  /\ chain' = chain /\ setting' = setting /\ crashes' = crashes
           /\ deployed' = deployed /\ money' = money /\ system' = system
           /\ pool' \subseteq Sent
           /\ attempt' \in AttemptType
           /\ report' \in Reports
<1> USE GoType
    DEF Go, Send, Steps, Preparing, Funding, Approving, Executing
<1>1. attempt \in AttemptType /\ report \in Reports /\ pool \subseteq Sent
  BY DEF Types
<1>2. \A kind \in {"success", "failure", "already", "error"}, action \in Int :
         [kind |-> kind, action |-> action] \in Reports
  BY DEF Reports
<1>3. FundTx \in Sent /\ DeployTx \in Sent /\ ApproveTx \in Sent
  BY DEF FundTx, DeployTx, ApproveTx, Sent
<1>4. ASSUME Attempt PROVE pool' = pool /\ attempt' \in AttemptType /\ report' \in Reports
  BY <1>1, <1>2, <1>4 DEF Attempt, Tell
<1>5. ASSUME DeploySystem
      PROVE  pool' \subseteq Sent /\ attempt' \in AttemptType /\ report' \in Reports
  <2>1. CASE MissingContracts = {} /\ Go("fund") /\ UNCHANGED <<pool, report>>
    BY <1>1, <2>1
  <2>2. CASE 0 \in MissingContracts /\ Tell("error", 0) /\ UNCHANGED pool
    BY <1>1, <1>2, <2>2 DEF Tell
  <2>3. CASE MissingContracts # {} /\ UNCHANGED report
             /\ attempt' = [attempt EXCEPT !.pc = "awaitSystem",
                                           !.contract = Min(MissingContracts)]
             /\ Send(SystemTx(Min(MissingContracts)))
    <3>1. MissingContracts \subseteq Nat
      BY ExecutorAssumption DEF MissingContracts, SystemContracts
    <3>2. PICK contract \in SystemContracts : contract = Min(MissingContracts)
      BY <2>3, <3>1, MinIsLeast DEF MissingContracts
    <3>3. contract \in Nat
      BY ExecutorAssumption DEF SystemContracts
    <3>4. SystemTx(contract) \in Sent
      BY <3>2, <3>3 DEF SystemTx, Sent
    <3>5. attempt' \in AttemptType
      BY <1>1, <2>3, <3>2 DEF AttemptType
    <3> QED
      BY <1>1, <2>3, <3>2, <3>4, <3>5
  <2> QED
    BY <1>5, <2>1, <2>2, <2>3 DEF DeploySystem
<1>6. ASSUME Fund PROVE pool' \subseteq Sent /\ attempt' \in AttemptType /\ report' = report
  BY <1>1, <1>3, <1>6 DEF Fund
<1>7. ASSUME DeploySafe
      PROVE  pool' \subseteq Sent /\ attempt' \in AttemptType /\ report' = report
  BY <1>1, <1>3, <1>7 DEF DeploySafe
<1>8. \A r \in Roots \cup {NoRoot} : Status(r) \in Phases /\ FailedAction(r) \in Int
  BY ReadTypes DEF FailedAction
<1>9. deployment \in Roots /\ attempt.active \in Roots \cup {NoRoot}
      /\ attempt.executed \in Nat /\ attempt.batch \in Nat
  BY <1>1, ExecutorAssumption DEF AttemptType
<1>10. ASSUME ReadState
       PROVE  pool' \subseteq Sent /\ attempt' \in AttemptType /\ report' \in Reports
  <2>1. CASE HandleStatus(Status(deployment), FailedAction(deployment)) /\ UNCHANGED pool
    BY <1>1, <1>8, <1>9, <2>1, HandleEffect
  <2>2. CASE Go("awaitApprove") /\ Send(ApproveTx) /\ UNCHANGED report
    BY <1>1, <1>3, <2>2
  <2>3. CASE Go("readActive") /\ UNCHANGED <<pool, report>>
    BY <1>1, <2>3
  <2> QED
    BY <1>10, <2>1, <2>2, <2>3 DEF ReadState
<1>11. ASSUME ReadActive
       PROVE  pool' = pool /\ attempt' \in AttemptType /\ report' = report
  BY <1>1, <1>11 DEF ReadActive, AttemptType, Types
<1>12. ASSUME ReadActiveState
       PROVE  pool' = pool /\ attempt' \in AttemptType /\ report' \in Reports
  <2>1. CASE HandleStatus(Status(attempt.active), FailedAction(attempt.active))
    BY <1>8, <1>9, <1>12, <2>1, HandleEffect DEF ReadActiveState
  <2>2. CASE /\ attempt' = [attempt EXCEPT !.pc = "batch",
                                           !.executed = LeavesExecuted(attempt.active)]
             /\ UNCHANGED report
    BY <1>1, <1>9, <1>12, <2>2, ReadTypes DEF ReadActiveState, AttemptType
  <2> QED
    BY <1>12, <2>1, <2>2 DEF ReadActiveState
<1>13. ASSUME AfterBatch
       PROVE  pool' = pool /\ attempt' \in AttemptType /\ report' \in Reports
  <2>1. CASE HandleStatus(Status(attempt.active), FailedAction(attempt.active))
    BY <1>8, <1>9, <1>13, <2>1, HandleEffect DEF AfterBatch
  <2>2. CASE /\ attempt' = [attempt EXCEPT !.pc = "batch",
                               !.executed = attempt.executed + attempt.batch, !.batch = 0]
             /\ UNCHANGED report
    <3>1. PICK executed \in Nat : executed = attempt.executed + attempt.batch
      BY <1>9
    <3>2. attempt' = [attempt EXCEPT !.pc = "batch", !.executed = executed, !.batch = 0]
      BY <2>2, <3>1
    <3>3. attempt' \in AttemptType
      BY <1>1, <3>2 DEF AttemptType
    <3> QED
      BY <1>1, <1>13, <2>2, <3>3 DEF AfterBatch
  <2> QED
    BY <1>13, <2>1, <2>2 DEF AfterBatch
<1>14. ASSUME NoValidBatch
       PROVE  pool' = pool /\ attempt' \in AttemptType /\ report' \in Reports
  BY <1>2, <1>14 DEF NoValidBatch, Tell
<1>15. ASSUME SendBatch
       PROVE  pool' \subseteq Sent /\ attempt' \in AttemptType /\ report' = report
  <2>1. PICK n \in Nat : n = findMaxBatchSize(attempt.executed)
    BY <1>9, <1>15, BatchSize DEF SendBatch, BatchFits
  <2>2. ExecuteTx(attempt.executed, n) \in Sent
    BY <1>9, <2>1 DEF ExecuteTx, Sent
  <2> QED
    BY <1>1, <1>15, <2>1, <2>2 DEF SendBatch, AttemptType
<1>16. /\ chain' = chain /\ setting' = setting /\ crashes' = crashes
       /\ deployed' = deployed /\ money' = money /\ system' = system
  BY DEF Step, Attempt, DeploySystem, Fund, DeploySafe, ReadState, ReadActive,
         ReadActiveState, AfterBatch, NoValidBatch, SendBatch
<1> QED
  BY <1>1, <1>4, <1>5, <1>6, <1>7, <1>10, <1>11, <1>12, <1>13, <1>14, <1>15, <1>16
     DEF Step

(* Every step of the system keeps the chain's types, and changes a root    *)
(* only as the module's rules let it.                                      *)
LEMMA ChainStep ==
    ASSUME Types, BatchFits, [Next]_vars
    PROVE  /\ phase' \in [Roots -> Phases]
           /\ size' \in [Roots -> Nat]
           /\ performed' \in [Roots -> Seq(Performed)]
           /\ current' \in Roots \cup {NoRoot}
           /\ \/ phase' = phase /\ performed' = performed /\ current' = current
              \/ \E r \in Roots : Began(r)
              \/ \E r \in Roots \ {deployment} : GaveUp(r)
              \/ WentOn
<1> DEFINE Kept == /\ phase' = phase /\ performed' = performed /\ current' = current
                   /\ size' = size
<1>1. ASSUME Kept \/ UNCHANGED vars \/ Step \/ Crash
             \/ OwnersSpend
             \/ \E contract \in SystemContracts : OthersDeploySystem(contract)
      PROVE  Kept
  BY <1>1, StepTypes DEF vars, chain, Crash, OthersDeploySystem, OwnersSpend
<1>2. ASSUME NEW tx \in pool, MineSystem(tx) PROVE Kept
  BY <1>2 DEF MineSystem, chain
<1>3. ASSUME MineFund
      PROVE  Kept
  BY <1>3 DEF MineFund, chain
<1>4. ASSUME MineDeploy PROVE Kept
  BY <1>4 DEF MineDeploy, chain
<1>5. ASSUME MineApprove
      PROVE  \/ Kept
             \/ Began(deployment) /\ size' \in [Roots -> Nat]
  <2>1. CASE ~CanApprove(deployment)
    BY <1>5, <2>1 DEF MineApprove, chain
  <2>2. CASE CanApprove(deployment)
    BY <1>5, <2>2, BeginEffect, ExecutorAssumption DEF MineApprove
  <2> QED
    BY <2>1, <2>2
<1>6. ASSUME NEW tx \in pool, MineExecute(tx)
      PROVE  \/ Kept
             \/ /\ WentOn /\ performed' \in [Roots -> Seq(Performed)]
                /\ size' = size
  <2>1. CASE ~CanExecute(tx)
    BY <1>6, <2>1 DEF MineExecute, chain
  <2>2. CASE CanExecute(tx)
    <3>1. tx.first \in Nat /\ tx.count \in Nat
      BY DEF Types, Sent
    <3>2. PICK outcome \in Outcomes(tx.first, tx.count) :
             Perform(deployment, tx.first, outcome)
      BY <1>6, <2>2 DEF MineExecute
    <3>3. current = deployment /\ current \in Roots
      BY <2>2, ExecutorAssumption DEF CanExecute
    <3> QED
      BY <3>1, <3>2, <3>3, PerformEffect
  <2> QED
    BY <2>1, <2>2
<1>7. ASSUME NEW r \in Roots, OwnersCancel(r)
      PROVE  /\ GaveUp(r) /\ r # deployment
             /\ size' \in [Roots -> Nat]
  BY <1>7, GiveUpEffect, ExecutorAssumption DEF OwnersCancel
<1>8. ASSUME NEW r \in Roots, OthersApprove(r)
      PROVE  Began(r) /\ size' \in [Roots -> Nat]
  BY <1>8, BeginEffect DEF OthersApprove
<1>9. ASSUME NEW r \in Roots, OthersExecute(r)
      PROVE  /\ WentOn /\ performed' \in [Roots -> Seq(Performed)]
             /\ size' = size
  <2>1. LeavesExecuted(r) \in Nat /\ size[r] \in Nat /\ current = r
    BY <1>9, ReadTypes DEF OthersExecute, Types
  <2>2. PICK n \in 1 .. size[r] - LeavesExecuted(r) :
           \E outcome \in Outcomes(LeavesExecuted(r), n) :
              Perform(r, LeavesExecuted(r), outcome)
    BY <1>9 DEF OthersExecute
  <2>3. n \in Nat
    BY <2>1
  <2> QED
    BY <2>1, <2>2, <2>3, PerformEffect
<1>10. \/ Kept
       \/ \E r \in Roots : Began(r) /\ size' \in [Roots -> Nat]
       \/ \E r \in Roots \ {deployment} :
             GaveUp(r) /\ size' \in [Roots -> Nat]
       \/ /\ WentOn /\ performed' \in [Roots -> Seq(Performed)]
          /\ size' = size
  <2> HIDE DEF Kept
  <2> QED
    BY <1>1, <1>2, <1>3, <1>4, <1>5, <1>6, <1>7, <1>8, <1>9, ExecutorAssumption
       DEF Next, Mine, Others
<1>11. ASSUME NEW r \in Roots, Began(r)
       PROVE  /\ phase' \in [Roots -> Phases] /\ performed' = performed
              /\ current' \in Roots \cup {NoRoot}
  BY <1>11 DEF Began, Types, Phases
<1>12. ASSUME NEW r \in Roots, GaveUp(r)
       PROVE  /\ phase' \in [Roots -> Phases] /\ performed' = performed
              /\ current' \in Roots \cup {NoRoot}
  BY <1>12 DEF GaveUp, Types, Phases
<1>13. ASSUME WentOn
       PROVE  phase' \in [Roots -> Phases] /\ current' \in Roots \cup {NoRoot}
  BY <1>13 DEF WentOn, Types, Phases
<1> QED
  BY <1>10, <1>11, <1>12, <1>13 DEF Types

(* The Safe's balance grows by the transfer, and shrinks by what the       *)
(* deployment's actions send or what somebody else takes.                  *)
LEMMA MoneyStep ==
    ASSUME Types, BatchFits, [Next]_vars
    PROVE  /\ balance' \in Nat /\ transferred' \in BOOLEAN /\ taken' \in BOOLEAN
           /\ \/ money' = money
              \/ taken' = TRUE /\ transferred' = transferred
              \/ MineFund
              \/ \E tx \in pool : MineExecute(tx) /\ CanExecute(tx)
<1> DEFINE Typed == /\ balance' \in Nat /\ transferred' \in BOOLEAN
                    /\ taken' \in BOOLEAN
<1>1. /\ balance \in Nat /\ transferred \in BOOLEAN /\ taken \in BOOLEAN
      /\ FundsRequested \in Nat
  BY ExecutorAssumption DEF Types
<1>2. ASSUME money' = money PROVE Typed
  BY <1>1, <1>2 DEF money
<1>3. ASSUME MineFund PROVE Typed
  BY <1>1, <1>3 DEF MineFund
<1>4. ASSUME NEW tx \in pool, MineExecute(tx), CanExecute(tx) PROVE Typed
  <2>1. taken' = taken /\ transferred' = transferred
    BY <1>4 DEF MineExecute
  <2>2. PICK outcome \in Outcomes(tx.first, tx.count) : Spend(tx.first, outcome)
    BY <1>4 DEF MineExecute
  <2>3. PICK k \in Nat : outcome \in [1 .. k -> BOOLEAN]
    BY DEF Outcomes
  <2>4. Len(outcome) = k
    BY <2>3
  <2>5. balance' \in 0 .. balance
    BY <2>2, <2>4 DEF Spend
  <2> QED
    BY <1>1, <2>1, <2>5
<1>5. ASSUME NEW tx \in pool, MineExecute(tx), ~CanExecute(tx) PROVE money' = money
  BY <1>5 DEF MineExecute, money
<1>6. ASSUME OwnersSpend
      PROVE  Typed /\ taken' = TRUE /\ transferred' = transferred
  BY <1>1, <1>6 DEF OwnersSpend, Take
<1>7. ASSUME NEW r \in Roots, OthersExecute(r)
      PROVE  Typed /\ transferred' = transferred /\ (money' = money \/ taken' = TRUE)
  <2>1. transferred' = transferred
    BY <1>7 DEF OthersExecute
  <2>2. CASE Take
    BY <1>1, <2>1, <2>2 DEF Take
  <2>3. CASE UNCHANGED <<balance, taken>>
    BY <1>1, <2>1, <2>3 DEF money
  <2> QED
    BY <1>7, <2>2, <2>3 DEF OthersExecute
<1>8. ASSUME NEW r \in Roots, OwnersCancel(r) \/ OthersApprove(r) PROVE money' = money
  BY <1>8 DEF OwnersCancel, OthersApprove
<1>9. ASSUME \/ UNCHANGED vars \/ Step \/ Crash \/ MineDeploy \/ MineApprove
             \/ \E tx \in pool : MineSystem(tx)
             \/ \E contract \in SystemContracts : OthersDeploySystem(contract)
      PROVE  money' = money
  BY <1>9, StepTypes DEF vars, Crash, MineDeploy, MineApprove, MineSystem, OthersDeploySystem
<1> HIDE DEF Typed
<1>10. Typed
  BY <1>2, <1>3, <1>4, <1>5, <1>6, <1>7, <1>8, <1>9 DEF Next, Mine, Others
<1>11. \/ money' = money
       \/ taken' = TRUE /\ transferred' = transferred
       \/ MineFund
       \/ \E tx \in pool : MineExecute(tx) /\ CanExecute(tx)
  BY <1>5, <1>6, <1>7, <1>8, <1>9 DEF Next, Mine, Others
<1> QED
  BY <1>10, <1>11 DEF Typed

(* Types is preserved by every step. *)
LEMMA TypesStep ==
    ASSUME Types, BatchFits, [Next]_vars
    PROVE  Types'
<1> DEFINE Rest == /\ deployed' \in BOOLEAN
                   /\ pool' \subseteq Sent
                   /\ attempt' \in AttemptType
                   /\ report' \in Reports
                   /\ crashes' \in 0 .. MaxCrashes
                   /\ system' \subseteq SystemContracts
                   /\ network' \in Networks
                   /\ executionMode' \in ExecutionModes
                   /\ isSystemDeployed' \in BOOLEAN
<1>1. ASSUME UNCHANGED vars PROVE Rest
  BY <1>1 DEF Types, vars, setting
<1>2. ASSUME Step PROVE Rest
  BY <1>2, StepTypes DEF Types, setting
<1>3. ASSUME NEW tx \in pool, MineSystem(tx) PROVE Rest
  <2>1. PICK ok \in BOOLEAN : Answer(tx, ok) /\ (~ok => tx.first \in system)
                              /\ (ok => tx.first \notin system \/ tx.first = 0)
    BY <1>3 DEF MineSystem
  <2>2. tx.first \in SystemContracts
    BY <1>3 DEF MineSystem, Types, Sent
  <2> QED
    BY <1>3, <2>1, <2>2, AnswerTypes DEF MineSystem, Types
<1>4. ASSUME MineFund PROVE Rest
  <2>1. Answer(FundTx, TRUE)
    BY <1>4, Zenon DEF MineFund
  <2>2. deployed' = deployed /\ system' = system
    BY <1>4 DEF MineFund
  <2>3. PICK ok : ok = TRUE
    OBVIOUS
  <2>4. Answer(FundTx, ok)
    BY <2>1, <2>3, Zenon
  <2> QED
    BY <2>2, <2>4, AnswerTypes DEF Types
<1>5. ASSUME MineDeploy PROVE Rest
  BY <1>5, AnswerTypes DEF MineDeploy, Types, checkSystemDeployed
<1>6. ASSUME MineApprove PROVE Rest
  BY <1>6, AnswerTypes DEF MineApprove, Types
<1>7. ASSUME NEW tx \in pool, MineExecute(tx) PROVE Rest
  BY <1>7, AnswerTypes DEF MineExecute, Types
<1>8. ASSUME Crash PROVE Rest
  <2>1. crashes' \in 0 .. MaxCrashes
    BY <1>8, ExecutorAssumption DEF Crash, Types
  <2> QED
    BY <1>8, <2>1, GoType DEF Crash, Types, setting
<1>9. ASSUME NEW contract \in SystemContracts, OthersDeploySystem(contract) PROVE Rest
  BY <1>9 DEF OthersDeploySystem, Types, setting
<1>10. ASSUME NEW r \in Roots, OwnersCancel(r) \/ OthersApprove(r) \/ OthersExecute(r)
       PROVE  Rest
  BY <1>10 DEF OwnersCancel, OthersApprove, OthersExecute, Types, setting
<1>11. ASSUME OwnersSpend PROVE Rest
  BY <1>11 DEF OwnersSpend, Types, setting
<1>12. Rest
  <2> HIDE DEF Rest
  <2> QED
    BY <1>1, <1>2, <1>3, <1>4, <1>5, <1>6, <1>7, <1>8, <1>9, <1>10, <1>11
       DEF Next, Mine, Others
<1> QED
  BY <1>12, ChainStep, MoneyStep DEF Types

-----------------------------------------------------------------------------
(* The attempt's own bookkeeping *)

(* Whatever is mined answers the attempt that waits for it. *)
LEMMA MineAnswers ==
    ASSUME Mine
    PROVE  \E tx \in pool : \E ok : Answer(tx, ok)
<1>1. ASSUME MineFund PROVE \E tx \in pool : \E ok : Answer(tx, ok)
  BY <1>1, Zenon DEF MineFund
<1>2. ASSUME MineDeploy PROVE \E tx \in pool : \E ok : Answer(tx, ok)
  BY <1>2, Zenon DEF MineDeploy
<1>3. ASSUME MineApprove PROVE \E tx \in pool : \E ok : Answer(tx, ok)
  BY <1>3, Zenon DEF MineApprove
<1>4. ASSUME NEW tx \in pool, MineSystem(tx) PROVE \E ok : Answer(tx, ok)
  BY <1>4, Zenon DEF MineSystem
<1>5. ASSUME NEW tx \in pool, MineExecute(tx) PROVE \E ok : Answer(tx, ok)
  BY <1>5, Zenon DEF MineExecute
<1> QED
  BY <1>1, <1>2, <1>3, <1>4, <1>5, Zenon DEF Mine

(* Code does not go away, and the setting of the deployment stays. *)
LEMMA CodeStays ==
    ASSUME Types, BatchFits, [Next]_vars
    PROVE  /\ system \subseteq system'
           /\ deployed => deployed'
           /\ setting' = setting
<1>1. ASSUME Mine PROVE setting' = setting
  BY <1>1, MineAnswers, AnswerEffect
<1>2. ASSUME Mine PROVE system \subseteq system' /\ (deployed => deployed')
  <2>1. ASSUME MineDeploy PROVE system \subseteq system' /\ (deployed => deployed')
    BY <2>1, Zenon DEF MineDeploy
  <2>2. ASSUME Mine, ~MineDeploy PROVE system \subseteq system' /\ deployed' = deployed
    BY <2>2 DEF Mine, MineSystem, MineFund, MineApprove, MineExecute
  <2> QED
    BY <1>2, <2>1, <2>2
<1> QED
  BY <1>1, <1>2, StepTypes
     DEF Next, vars, Crash, Others, OthersDeploySystem, OwnersCancel, OthersApprove,
         OthersExecute, OwnersSpend

(* Only the attempt's steps, answers and crashes change the attempt and    *)
(* what was reported.                                                      *)
LEMMA AttemptMoves ==
    ASSUME [Next]_vars
    PROVE  Step \/ Mine \/ Crash \/ Undisturbed
  BY DEF Next, vars, Others, OthersDeploySystem, OwnersCancel, OthersApprove,
         OthersExecute, OwnersSpend, Undisturbed

(* No step counts beyond the deployment's last leaf. *)
LEMMA BatchFitsStep ==
    ASSUME Types, BatchFits, [Next]_vars
    PROVE  BatchFits'
<1> USE DEF Go, Idle
<1>1. /\ attempt \in AttemptType
      /\ Size[deployment] \in Nat /\ Size[deployment] > 1
      /\ Size' = Size /\ deployment' = deployment
  BY ExecutorAssumption DEF Types
<1>2. ASSUME attempt' = Idle PROVE BatchFits'
  BY <1>1, <1>2 DEF BatchFits
<1>3. ASSUME Undisturbed PROVE BatchFits'
  BY <1>1, <1>3 DEF BatchFits, Undisturbed
<1>4. ASSUME NEW from, NEW to, Resumes(from, to), from # "batch", to # "batch",
             from = "awaitExecute" <=> to = "readAfter",
             from # "readAfter", to # "awaitExecute"
      PROVE  BatchFits'
  BY <1>1, <1>4 DEF BatchFits, Resumes, AttemptType
<1>5. ASSUME Mine PROVE BatchFits'
  <2>1. PICK tx \in pool : \E ok : Answer(tx, ok)
    BY <1>5, MineAnswers
  <2> QED
    BY <1>2, <1>3, <1>4, <2>1, AnswerEffect DEF Errs
<1>6. ASSUME Crash PROVE BatchFits'
  BY <1>2, <1>6 DEF Crash
<1>7. ASSUME Attempt PROVE BatchFits'
  BY <1>1, <1>2, <1>7 DEF Attempt, Tell, BatchFits, AttemptType
<1>8. ASSUME DeploySystem PROVE BatchFits'
  BY <1>1, <1>2, <1>8 DEF DeploySystem, Tell, BatchFits, AttemptType
<1>9. ASSUME Fund PROVE BatchFits'
  BY <1>1, <1>9 DEF Fund, BatchFits, AttemptType
<1>10. ASSUME DeploySafe PROVE BatchFits'
  BY <1>1, <1>10 DEF DeploySafe, BatchFits, AttemptType
<1>11. \A r \in Roots \cup {NoRoot} :
          Status(r) \in Phases /\ LeavesExecuted(r) \in Nat /\ FailedAction(r) \in Int
  BY ReadTypes DEF FailedAction
<1>12. deployment \in Roots /\ attempt.active \in Roots \cup {NoRoot}
  BY <1>1, ExecutorAssumption DEF AttemptType
<1>13. ASSUME ReadState PROVE BatchFits'
  <2>1. CASE HandleStatus(Status(deployment), FailedAction(deployment))
    BY <1>2, <1>11, <1>12, <2>1, HandleEffect
  <2>2. CASE Go("awaitApprove") \/ Go("readActive")
    BY <1>1, <1>13, <2>2 DEF ReadState, BatchFits, AttemptType
  <2> QED
    BY <1>13, <2>1, <2>2 DEF ReadState
<1>14. ASSUME ReadActive PROVE BatchFits'
  BY <1>1, <1>14 DEF ReadActive, BatchFits, AttemptType
<1>15. ASSUME ReadActiveState PROVE BatchFits'
  <2>1. CASE HandleStatus(Status(attempt.active), FailedAction(attempt.active))
    BY <1>2, <1>11, <1>12, <2>1, HandleEffect
  <2>2. CASE /\ attempt' = [attempt EXCEPT !.pc = "batch",
                                           !.executed = LeavesExecuted(attempt.active)]
             /\ ~(LeavesExecuted(attempt.active) >= Size[deployment])
    BY <1>1, <1>11, <1>12, <1>15, <2>2 DEF ReadActiveState, BatchFits, AttemptType
  <2> QED
    BY <1>15, <2>1, <2>2 DEF ReadActiveState
<1>16. ASSUME AfterBatch PROVE BatchFits'
  <2>1. CASE HandleStatus(Status(attempt.active), FailedAction(attempt.active))
    BY <1>2, <1>11, <1>12, <2>1, HandleEffect
  <2>2. CASE /\ attempt' = [attempt EXCEPT !.pc = "batch",
                               !.executed = attempt.executed + attempt.batch, !.batch = 0]
             /\ attempt.executed + attempt.batch # Size[deployment]
    <3>1. PICK executed \in Nat : executed = attempt.executed + attempt.batch
      BY <1>1 DEF AttemptType
    <3>2. attempt' = [attempt EXCEPT !.pc = "batch", !.executed = executed, !.batch = 0]
      BY <2>2, <3>1
    <3> QED
      BY <1>1, <2>2, <3>1, <3>2 DEF BatchFits, AttemptType
  <2> QED
    BY <1>16, <2>1, <2>2 DEF AfterBatch
<1>17. ASSUME NoValidBatch PROVE BatchFits'
  BY <1>2, <1>17 DEF NoValidBatch, Tell
<1>18. ASSUME SendBatch PROVE BatchFits'
  <2>1. PICK n \in Nat : /\ n = findMaxBatchSize(attempt.executed)
                         /\ attempt.executed + n <= Size[deployment]
    BY <1>1, <1>18, BatchSize DEF SendBatch, BatchFits, AttemptType
  <2> QED
    BY <1>1, <1>18, <2>1 DEF SendBatch, BatchFits, AttemptType
<1> QED
  BY <1>3, <1>5, <1>6, <1>7, <1>8, <1>9, <1>10, <1>13, <1>14, <1>15, <1>16, <1>17, <1>18,
     AttemptMoves DEF Step

(* No step skips what the steps after it need. *)
LEMMA PreparedInOrderStep ==
    ASSUME Types, BatchFits, PreparedInOrder, [Next]_vars
    PROVE  PreparedInOrder'
<1> USE DEF Go, Preparing, Funding, Approving, Executing
<1>1. /\ attempt \in AttemptType
      /\ system \subseteq system' /\ (deployed => deployed')
      /\ isSystemDeployed' = isSystemDeployed
      /\ checkSystemDeployed => checkSystemDeployed'
  BY CodeStays DEF Types, setting, checkSystemDeployed
<1>2. ASSUME attempt'.pc \in {"idle", "system", "awaitSystem"} PROVE PreparedInOrder'
  BY <1>1, <1>2 DEF PreparedInOrder
<1>3. ASSUME attempt'.pc \in {"idle", "system", "awaitSystem"} \cup Funding,
             checkSystemDeployed
      PROVE  PreparedInOrder'
  BY <1>1, <1>3 DEF PreparedInOrder
<1>4. ASSUME checkSystemDeployed, deployed' PROVE PreparedInOrder'
  BY <1>1, <1>4 DEF PreparedInOrder
<1>5. ASSUME Undisturbed PROVE PreparedInOrder'
  BY <1>1, <1>5 DEF PreparedInOrder, Undisturbed
<1>6. ASSUME attempt' = Idle PROVE PreparedInOrder'
  BY <1>2, <1>6 DEF Idle
<1>7. ASSUME MineDeploy PROVE PreparedInOrder'
  <2>1. CASE Resumes("awaitDeploy", "readState")
    <3>1. checkSystemDeployed
      BY <2>1 DEF Resumes, PreparedInOrder
    <3>2. deployed'
      BY <1>7, <3>1, Zenon DEF MineDeploy
    <3> QED
      BY <1>4, <3>1, <3>2
  <2>2. PICK ok : Answer(DeployTx, ok)
    BY <1>7, Zenon DEF MineDeploy
  <2>3. DeployTx.kind = "deploy"
    BY DEF DeployTx
  <2>4. Undisturbed \/ Errs \/ Resumes("awaitDeploy", "readState")
    BY <2>2, <2>3, AnswerEffect
  <2> QED
    BY <1>5, <1>6, <2>1, <2>4 DEF Errs
<1>8. ASSUME Mine, ~MineDeploy PROVE PreparedInOrder'
  <2>1. PICK tx \in pool : tx.kind # "deploy" /\ \E ok : Answer(tx, ok)
    <3>1. ASSUME MineFund PROVE \E tx \in pool : tx.kind # "deploy" /\ \E ok : Answer(tx, ok)
      <4>1. FundTx \in pool /\ \E ok : Answer(FundTx, ok)
        BY <3>1, Zenon DEF MineFund
      <4>2. FundTx.kind # "deploy"
        BY DEF FundTx
      <4> QED
        BY <4>1, <4>2
    <3>2. ASSUME MineApprove
          PROVE  \E tx \in pool : tx.kind # "deploy" /\ \E ok : Answer(tx, ok)
      <4>1. ApproveTx \in pool /\ \E ok : Answer(ApproveTx, ok)
        BY <3>2, Zenon DEF MineApprove
      <4>2. ApproveTx.kind # "deploy"
        BY DEF ApproveTx
      <4> QED
        BY <4>1, <4>2
    <3>3. ASSUME NEW tx \in pool, MineSystem(tx) \/ MineExecute(tx)
          PROVE  tx.kind # "deploy" /\ \E ok : Answer(tx, ok)
      BY <3>3, Zenon DEF MineSystem, MineExecute
    <3> QED
      BY <1>8, <3>1, <3>2, <3>3 DEF Mine
  <2>2. \/ Undisturbed \/ Errs
        \/ Resumes("awaitSystem", "system")
        \/ Resumes("awaitFund", "deploySafe")
        \/ Resumes("awaitApprove", "readActive")
        \/ Resumes("awaitExecute", "readAfter")
    BY <2>1, AnswerEffect
  <2>3. CASE Resumes("awaitSystem", "system")
    BY <1>1, <1>2, <2>3 DEF Resumes, AttemptType
  <2>4. CASE Resumes("awaitFund", "deploySafe")
    BY <1>1, <1>3, <2>4 DEF Resumes, AttemptType, PreparedInOrder
  <2>5. CASE Resumes("awaitApprove", "readActive") \/ Resumes("awaitExecute", "readAfter")
    BY <1>1, <1>4, <2>5 DEF Resumes, PreparedInOrder
  <2> QED
    BY <1>5, <1>6, <2>2, <2>3, <2>4, <2>5 DEF Errs
<1>9. ASSUME Step PROVE PreparedInOrder'
  <2>1. \A r \in Roots \cup {NoRoot} : Status(r) \in Phases /\ FailedAction(r) \in Int
    BY ReadTypes DEF FailedAction
  <2>2. deployment \in Roots /\ attempt.active \in Roots \cup {NoRoot}
    BY <1>1, ExecutorAssumption DEF AttemptType
  <2>3. ASSUME Attempt PROVE PreparedInOrder'
    <3>1. CASE Tell("already", 0)
      BY <1>6, <3>1 DEF Tell
    <3>2. CASE Go(IF isSystemDeployed THEN "fund" ELSE "system")
      <4>1. attempt'.pc = IF isSystemDeployed THEN "fund" ELSE "system"
        BY <1>1, <3>2 DEF AttemptType
      <4> QED
        BY <1>2, <1>3, <4>1 DEF PreparedInOrder
    <3> QED
      BY <2>3, <3>1, <3>2 DEF Attempt
  <2>4. ASSUME DeploySystem PROVE PreparedInOrder'
    <3>1. CASE MissingContracts = {} /\ Go("fund")
      <4>1. checkSystemDeployed
        BY <3>1, ExecutorAssumption
           DEF MissingContracts, checkSystemDeployed, SystemContracts
      <4> QED
        BY <1>1, <1>3, <3>1, <4>1 DEF AttemptType
    <3>2. CASE attempt' = [attempt EXCEPT !.pc = "awaitSystem",
                                          !.contract = Min(MissingContracts)]
      BY <1>1, <1>2, <3>2 DEF AttemptType
    <3>3. CASE Tell("error", 0)
      BY <1>6, <3>3 DEF Tell
    <3> QED
      BY <2>4, <3>1, <3>2, <3>3 DEF DeploySystem
  <2>5. ASSUME Fund PROVE PreparedInOrder'
    BY <1>1, <1>3, <2>5 DEF Fund, AttemptType, PreparedInOrder
  <2>6. ASSUME DeploySafe PROVE PreparedInOrder'
    BY <1>1, <1>3, <1>4, <2>6 DEF DeploySafe, AttemptType, PreparedInOrder, NeedsDeployment
  <2>7. ASSUME ReadState \/ ReadActive \/ ReadActiveState \/ AfterBatch \/ NoValidBatch
               \/ SendBatch
        PROVE  PreparedInOrder'
    BY <1>1, <1>4, <2>7
       DEF ReadState, ReadActive, ReadActiveState, AfterBatch, NoValidBatch, SendBatch,
           PreparedInOrder
  <2> QED
    BY <1>9, <2>3, <2>4, <2>5, <2>6, <2>7 DEF Step
<1>10. ASSUME Crash PROVE PreparedInOrder'
  BY <1>6, <1>10 DEF Crash
<1> QED
  BY <1>5, <1>7, <1>8, <1>9, <1>10, AttemptMoves

-----------------------------------------------------------------------------
(* What is sent *)

(* Whether a batch has the gas it needs does not change. *)
LEMMA HasGasStays ==
    ASSUME NEW tx, setting' = setting
    PROVE  HasGas(tx)' <=> HasGas(tx)
<1>1. network' = network /\ executionMode' = executionMode
  BY DEF setting
<1>2. \A leaves : GasLimit(leaves)' = GasLimit(leaves)
  <2>1. getMaxGasLimit' = getMaxGasLimit
    BY <1>1 DEF getMaxGasLimit
  <2>2. \A n : getGasPerCalldata(n)' = getGasPerCalldata(n)
    BY <1>1 DEF getGasPerCalldata
  <2>3. \A leaves : estimateGasViaSigner(leaves)' = estimateGasViaSigner(leaves)
    BY <2>2 DEF estimateGasViaSigner
  <2> QED
    BY <1>1, <2>1, <2>3 DEF GasLimit
<1> QED
  BY <1>2 DEF HasGas

(* A batch that the executor takes for executable is sent with the gas     *)
(* that the module demands.                                                *)
LEMMA ExecutableHasGas ==
    ASSUME Types, NEW first \in Nat, NEW n \in Nat, first + n <= Size[deployment],
           isExecutable(first, n)
    PROVE  HasGas(ExecuteTx(first, n))
<1>1. PICK leaves : leaves = Batch(first, n)
  OBVIOUS
<1>2. IsFiniteSet(leaves) /\ Cardinality(leaves) \in Nat
  BY <1>1, FS_Interval, FS_CardinalityType DEF Batch
<1>3. \A i \in leaves : GasOf(i) \in Nat
  <2>1. Size[deployment] \in Nat
    BY ExecutorAssumption
  <2>2. \A i \in leaves : i = 0 \/ i \in 1 .. Size[deployment] - 1
    BY <1>1, <2>1 DEF Batch
  <2>3. \A i \in 1 .. Size[deployment] - 1 : LeafGas[i] \in Nat
    BY ExecutorAssumption
  <2> QED
    BY <2>2, <2>3 DEF GasOf
<1>4. PICK needed \in Nat : needed = estimateModuleExecutionGas(leaves)
  BY <1>2, <1>3, GasIsNatural
<1>5. PICK count \in Nat : count = Cardinality(leaves)
  BY <1>2
<1>6. PICK calldata \in Nat : calldata = getGasPerCalldata(count)
  <2>1. PICK zero \in Nat, nonZero \in Nat :
           zero = LeafBytes.zero /\ nonZero = LeafBytes.nonZero
    BY ExecutorAssumption
  <2>2. PICK perLeaf \in Nat :
           perLeaf = 4 * zero + (IF network.implementsEIP2028 THEN 16 ELSE 68) * nonZero
    <3>1. 4 * zero + 16 * nonZero \in Nat /\ 4 * zero + 68 * nonZero \in Nat
      OBVIOUS
    <3> QED
      BY <3>1
  <2>3. count * perLeaf \in Nat
    OBVIOUS
  <2> QED
    BY <2>1, <2>2, <2>3 DEF getGasPerCalldata
<1>7. PICK service \in Nat : service = managedServiceGas(count)
  <2> DEFINE length == 2 * count * (LeafBytes.zero + LeafBytes.nonZero)
  <2>1. managedServiceGas(count)
        = (191 * length * length + 37890 * length) \div 100000 + 10
    BY DEF managedServiceGas
  <2>2. length \in Nat
    <3>1. PICK perLeaf \in Nat : perLeaf = LeafBytes.zero + LeafBytes.nonZero
      BY ExecutorAssumption
    <3>2. 2 * count * perLeaf \in Nat
      OBVIOUS
    <3>3. length = 2 * count * perLeaf
      BY <3>1, Zenon
    <3> QED
      BY <3>2, <3>3
  <2> HIDE DEF length
  <2>3. PICK square \in Nat : square = 191 * length * length
    BY <2>2
  <2>4. (square + 37890 * length) \div 100000 + 10 \in Nat
    BY <2>2
  <2> QED
    BY <2>1, <2>3, <2>4
<1>8. PICK gasLimit \in Nat : gasLimit = network.blockGasLimit
  BY ExecutorAssumption DEF Types
<1>9. PICK limit \in Nat : limit = getMaxGasLimit /\ limit <= gasLimit
  <2>1. CASE gasLimit <= 8500
    <3>1. getMaxGasLimit = gasLimit
      BY <1>8, <2>1 DEF getMaxGasLimit
    <3> QED
      BY <3>1
  <2>2. CASE gasLimit > 8500 /\ gasLimit <= 20000
    <3>1. getMaxGasLimit = (gasLimit * 8) \div 10
      BY <1>8, <2>2 DEF getMaxGasLimit
    <3>2. (gasLimit * 8) \div 10 \in Nat /\ (gasLimit * 8) \div 10 <= gasLimit
      OBVIOUS
    <3> QED
      BY <3>1, <3>2
  <2>3. CASE gasLimit > 20000
    <3>1. getMaxGasLimit = gasLimit \div 2
      BY <1>8, <2>3 DEF getMaxGasLimit
    <3>2. gasLimit \div 2 \in Nat /\ gasLimit \div 2 <= gasLimit
      OBVIOUS
    <3> QED
      BY <3>1, <3>2
  <2> QED
    BY <2>1, <2>2, <2>3
<1>10. PICK signer \in Nat :
          /\ signer = estimateGasViaSigner(leaves)
          /\ signer = ((21 + calldata + needed) * 108) \div 100 + 40
  BY <1>4, <1>5, <1>6 DEF estimateGasViaSigner
<1>11. needed < limit
  <2>1. CASE executionMode = "Platform"
    <3>1. estimateGas(leaves) = ((21 + calldata + needed + service) * 108) \div 100 + 40
      BY <1>4, <1>5, <1>6, <1>7, <2>1 DEF estimateGas, estimateGasViaManagedService
    <3> QED
      BY <1>1, <1>9, <3>1 DEF isExecutable
  <2>2. CASE executionMode # "Platform"
    <3>1. estimateGas(leaves) = ((21 + calldata + needed) * 108) \div 100 + 40
      BY <1>10, <2>2 DEF estimateGas
    <3> QED
      BY <1>1, <1>9, <3>1 DEF isExecutable
  <2> QED
    BY <2>1, <2>2
<1>12. needed <= GasLimit(leaves)
  <2>1. CASE executionMode = "LiveNetworkCLI" /\ network.buffersGasLimit
    <3>1. GasLimit(leaves) = Min({needed + signer, limit})
      BY <1>4, <1>9, <1>10, <2>1 DEF GasLimit
    <3>2. Min({needed + signer, limit}) \in {needed + signer, limit}
      BY MinIsLeast
    <3> QED
      BY <1>11, <3>1, <3>2
  <2>2. CASE ~(executionMode = "LiveNetworkCLI" /\ network.buffersGasLimit)
    BY <1>8, <1>9, <1>11, <2>2 DEF GasLimit
  <2> QED
    BY <2>1, <2>2
<1> QED
  BY <1>1, <1>4, <1>12 DEF HasGas, ExecuteTx

(* SentWhenPossible, transaction by transaction. *)
Possible(tx) ==
    /\ tx.kind = "system" => (tx.first # 0 => 0 \in system)
    /\ tx.kind = "deploy" => checkSystemDeployed
    /\ tx.kind = "approve" => deployed
    /\ tx.kind = "execute" =>
          /\ deployed
          /\ tx.first + tx.count <= Size[deployment]
          /\ HasGas(tx)

(* SentWhenPossible says of every transaction that it is Possible. *)
LEMMA PossibleMeaning ==
    SentWhenPossible <=> \A tx \in pool : Possible(tx)
<1>1. ASSUME NEW tx
      PROVE  Possible(tx) <=>
             CASE tx.kind = "system" -> tx.first # 0 => 0 \in system
               [] tx.kind = "deploy" -> checkSystemDeployed
               [] tx.kind = "approve" -> deployed
               [] tx.kind = "execute" ->
                     /\ deployed
                     /\ tx.first + tx.count <= Size[deployment]
                     /\ HasGas(tx)
               [] OTHER -> TRUE
  <2>1. CASE tx.kind = "system"
    BY <2>1 DEF Possible
  <2>2. CASE tx.kind = "deploy"
    BY <2>2 DEF Possible
  <2>3. CASE tx.kind = "approve"
    BY <2>3 DEF Possible
  <2>4. CASE tx.kind = "execute"
    BY <2>4 DEF Possible
  <2>5. CASE tx.kind \notin {"system", "deploy", "approve", "execute"}
    BY <2>5 DEF Possible
  <2> QED
    BY <2>1, <2>2, <2>3, <2>4, <2>5
<1> QED
  BY <1>1, Zenon DEF SentWhenPossible

(* What was possible when it was sent stays possible, whoever else acts. *)
LEMMA SentWhenPossibleStep ==
    ASSUME Types, BatchFits, PreparedInOrder, SentWhenPossible, [Next]_vars
    PROVE  SentWhenPossible'
<1> USE DEF Send
<1>1. \A tx \in pool : Possible(tx)
  BY PossibleMeaning
<1>2. ASSUME NEW tx, Possible(tx) PROVE Possible(tx)'
  <2>1. /\ 0 \in system => 0 \in system'
        /\ checkSystemDeployed => checkSystemDeployed'
        /\ deployed => deployed'
    BY CodeStays DEF checkSystemDeployed
  <2>2. HasGas(tx)' <=> HasGas(tx)
    BY CodeStays, HasGasStays
  <2> QED
    BY <1>2, <2>1, <2>2 DEF Possible
<1>3. ASSUME NEW new, Possible(new), pool' \subseteq pool \cup {new}
      PROVE  \A tx \in pool' : Possible(tx)'
  BY <1>1, <1>2, <1>3
<1>4. ASSUME pool' \subseteq pool PROVE \A tx \in pool' : Possible(tx)'
  BY <1>1, <1>2, <1>4
<1>5. ASSUME Mine PROVE pool' \subseteq pool
  BY <1>5, MineAnswers, AnswerEffect
<1>6. ASSUME UNCHANGED vars \/ Crash \/ Others PROVE pool' \subseteq pool
  BY <1>6 DEF vars, Crash, Others, OthersDeploySystem, OwnersCancel, OthersApprove,
              OthersExecute, OwnersSpend
<1>7. ASSUME Attempt \/ ReadActive \/ ReadActiveState \/ AfterBatch \/ NoValidBatch
      PROVE  pool' \subseteq pool
  BY <1>7 DEF Attempt, ReadActive, ReadActiveState, AfterBatch, NoValidBatch
<1>8. ASSUME DeploySystem
      PROVE  pool' \subseteq pool \/ \E new : Possible(new) /\ pool' = pool \cup {new}
  <2>1. CASE UNCHANGED pool
    BY <2>1
  <2>2. CASE MissingContracts # {} /\ pool' = pool \cup {SystemTx(Min(MissingContracts))}
    <3>1. MissingContracts \subseteq Nat
      BY ExecutorAssumption DEF MissingContracts, SystemContracts
    <3>2. Min(MissingContracts) \in Nat
          /\ \A contract \in MissingContracts : Min(MissingContracts) <= contract
      BY <2>2, <3>1, MinIsLeast
    <3>3. Min(MissingContracts) # 0 => 0 \in system
      <4>1. SUFFICES ASSUME Min(MissingContracts) # 0, 0 \notin system PROVE FALSE
        OBVIOUS
      <4>2. 0 \in MissingContracts
        BY <4>1, ExecutorAssumption DEF MissingContracts, SystemContracts
      <4> QED
        BY <3>2, <4>1, <4>2
    <3>4. Possible(SystemTx(Min(MissingContracts)))
      BY <3>3 DEF Possible, SystemTx
    <3> QED
      BY <2>2, <3>4
  <2> QED
    BY <1>8, <2>1, <2>2 DEF DeploySystem
<1>9. ASSUME Fund PROVE pool' \subseteq pool \cup {FundTx} /\ Possible(FundTx)
  BY <1>9 DEF Fund, Possible, FundTx
<1>10. ASSUME DeploySafe PROVE pool' \subseteq pool \cup {DeployTx} /\ Possible(DeployTx)
  <2>1. checkSystemDeployed
    BY <1>10 DEF DeploySafe, PreparedInOrder, Funding
  <2> QED
    BY <1>10, <2>1 DEF DeploySafe, Possible, DeployTx
<1>11. ASSUME ReadState PROVE pool' \subseteq pool \cup {ApproveTx} /\ Possible(ApproveTx)
  <2>1. deployed
    BY <1>11 DEF ReadState, PreparedInOrder, Approving
  <2> QED
    BY <1>11, <2>1 DEF ReadState, Possible, ApproveTx
<1>12. ASSUME SendBatch PROVE \E new : Possible(new) /\ pool' \subseteq pool \cup {new}
  <2>1. PICK first \in Nat : first = attempt.executed /\ first < Size[deployment]
    BY <1>12 DEF SendBatch, BatchFits, Types, AttemptType
  <2>2. PICK n : n = findMaxBatchSize(first)
    OBVIOUS
  <2>3. n \in Nat /\ first + n <= Size[deployment] /\ isExecutable(first, n)
    BY <1>12, <2>1, <2>2, BatchSize DEF SendBatch
  <2>4. HasGas(ExecuteTx(first, n))
    BY <2>3, ExecutableHasGas
  <2>5. deployed
    BY <1>12 DEF SendBatch, PreparedInOrder, Executing
  <2>6. Possible(ExecuteTx(first, n))
    <3>1. PICK tx : tx = ExecuteTx(first, n)
      OBVIOUS
    <3>2. tx.kind = "execute" /\ tx.first = first /\ tx.count = n
      BY <3>1 DEF ExecuteTx
    <3> QED
      BY <2>3, <2>4, <2>5, <3>1, <3>2 DEF Possible
  <2> QED
    BY <1>12, <2>1, <2>2, <2>6 DEF SendBatch
<1>13. \A tx \in pool' : Possible(tx)'
  BY <1>3, <1>4, <1>5, <1>6, <1>7, <1>8, <1>9, <1>10, <1>11, <1>12 DEF Next, Step
<1>14. SentWhenPossible' <=> (\A tx \in pool : Possible(tx))'
  BY PossibleMeaning, PTL
<1> QED
  BY <1>13, <1>14

-----------------------------------------------------------------------------
(* What the module keeps *)

(* The module's promises survive every step.  A root that leaves EMPTY adds*)
(* one to the nonce; the deployment's approval needs the nonce to be its   *)
(* own, so that it is greater from then on.                                *)
LEMMA ModuleAsPromisedStep ==
    ASSUME Types, BatchFits, ModuleAsPromised, [Next]_vars
    PROVE  /\ ModuleAsPromised'
           /\ phase[deployment] # "EMPTY" => phase'[deployment] # "EMPTY"
           /\ ModuleNonce' >= ModuleNonce
<1>1. /\ deployment \in Roots /\ NoRoot \notin Roots /\ Nonce[deployment] \in Nat
      /\ phase \in [Roots -> Phases] /\ phase' \in [Roots -> Phases]
  BY ChainStep, ExecutorAssumption DEF Types
<1>2. ModuleNonce = Cardinality(UsedRoots) /\ ModuleNonce' = Cardinality(UsedRoots')
      /\ IsFiniteSet(UsedRoots) /\ ModuleNonce \in Nat
  BY FS_CardinalityType DEF ModuleNonce, UsedRoots, ModuleAsPromised
<1>3. CASE phase' = phase /\ performed' = performed /\ current' = current
  <2>1. UsedRoots' = UsedRoots
    BY <1>3 DEF UsedRoots
  <2> QED
    BY <1>2, <1>3, <2>1 DEF ModuleAsPromised, Module!Fatal
<1>4. ASSUME NEW r \in Roots, Began(r)
      PROVE  /\ ModuleAsPromised'
             /\ phase[deployment] # "EMPTY" => phase'[deployment] # "EMPTY"
             /\ ModuleNonce' >= ModuleNonce
  <2>1. PICK p \in {"APPROVED", "COMPLETED"} :
          /\ phase' = [phase EXCEPT ![r] = p]
          /\ current' = IF p = "APPROVED" THEN r ELSE NoRoot
    BY <1>4 DEF Began
  <2>2. UsedRoots' = UsedRoots \cup {r} /\ r \notin UsedRoots
    BY <1>1, <1>4, <2>1 DEF UsedRoots, Began
  <2>3. IsFiniteSet(UsedRoots') /\ ModuleNonce' = ModuleNonce + 1
    BY <1>2, <2>2, FS_AddElement
  <2>4. current' # NoRoot => phase'[current'] = "APPROVED"
    BY <1>1, <2>1
  <2>5. \A x \in Roots : phase'[x] = "FAILED" =>
           phase[x] = "FAILED" /\ performed'[x] = performed[x]
    BY <1>1, <1>4, <2>1 DEF Began
  <2>6. phase'[deployment] # "EMPTY" => ModuleNonce' > Nonce[deployment]
    BY <1>1, <1>2, <1>4, <2>1, <2>3 DEF Began, ModuleAsPromised
  <2>7. \A x \in Roots : phase'[x] = "FAILED" =>
           Module!Fatal(performed'[x][Len(performed'[x])])
    BY <2>5 DEF ModuleAsPromised, Module!Fatal
  <2> QED
    BY <1>1, <1>2, <2>1, <2>3, <2>4, <2>6, <2>7 DEF ModuleAsPromised, Module!Fatal
<1>5. ASSUME NEW r \in Roots \ {deployment}, GaveUp(r)
      PROVE  /\ ModuleAsPromised'
             /\ phase[deployment] # "EMPTY" => phase'[deployment] # "EMPTY"
             /\ ModuleNonce' >= ModuleNonce
  <2>1. /\ current \in Roots /\ phase[r] = "EMPTY" /\ r # current
        /\ phase' = [phase EXCEPT ![current] = "CANCELED", ![r] = "COMPLETED"]
        /\ performed' = performed /\ current' = NoRoot
    BY <1>1, <1>5 DEF GaveUp, ModuleAsPromised
  <2>2. UsedRoots' = UsedRoots \cup {r} /\ r \notin UsedRoots
    <3>1. phase[current] # "EMPTY"
      BY <1>1, <2>1 DEF ModuleAsPromised
    <3> QED
      BY <1>1, <2>1, <3>1 DEF UsedRoots
  <2>3. IsFiniteSet(UsedRoots') /\ ModuleNonce' = ModuleNonce + 1
    BY <1>2, <2>2, FS_AddElement
  <2>4. \A x \in Roots : phase'[x] = "FAILED" =>
           phase[x] = "FAILED" /\ performed'[x] = performed[x]
    BY <1>1, <2>1
  <2>5. \A x \in Roots : phase'[x] = "FAILED" =>
           Module!Fatal(performed'[x][Len(performed'[x])])
    BY <2>4 DEF ModuleAsPromised, Module!Fatal
  <2>6. phase'[deployment] # "EMPTY" <=> phase[deployment] # "EMPTY"
    BY <1>1, <2>1 DEF ModuleAsPromised
  <2> QED
    BY <1>1, <1>2, <2>1, <2>3, <2>5, <2>6 DEF ModuleAsPromised, Module!Fatal
<1>6. ASSUME WentOn
      PROVE  /\ ModuleAsPromised'
             /\ phase[deployment] # "EMPTY" => phase'[deployment] # "EMPTY"
             /\ ModuleNonce' >= ModuleNonce
  <2>1. PICK p \in {"APPROVED", "COMPLETED", "FAILED"} :
          /\ phase' = [phase EXCEPT ![current] = p]
          /\ current' = IF p = "APPROVED" THEN current ELSE NoRoot
          /\ p = "FAILED" =>
                Module!Fatal(performed'[current][Len(performed'[current])])
    BY <1>6 DEF WentOn
  <2>2. current \in Roots /\ phase[current] = "APPROVED"
    BY <1>1, <1>6 DEF WentOn, ModuleAsPromised
  <2>3. \A r \in Roots : phase'[r] # "EMPTY" <=> phase[r] # "EMPTY"
    BY <1>1, <2>1, <2>2
  <2>4. UsedRoots' = UsedRoots
    BY <2>3 DEF UsedRoots
  <2>5. \A r \in Roots : phase'[r] = "FAILED" =>
           Module!Fatal(performed'[r][Len(performed'[r])])
    <3>1. SUFFICES ASSUME NEW r \in Roots, phase'[r] = "FAILED"
                   PROVE  Module!Fatal(performed'[r][Len(performed'[r])])
      OBVIOUS
    <3>2. CASE r = current
      BY <1>1, <2>1, <2>2, <3>1, <3>2
    <3>3. CASE r # current
      <4>1. phase[r] = "FAILED" /\ performed'[r] = performed[r]
        BY <1>1, <1>6, <2>1, <3>1, <3>3 DEF WentOn
      <4> QED
        BY <4>1 DEF ModuleAsPromised
    <3> QED
      BY <3>2, <3>3
  <2>6. current' # NoRoot => phase'[current'] = "APPROVED"
    BY <1>1, <2>1, <2>2
  <2> QED
    BY <1>1, <1>2, <2>3, <2>4, <2>5, <2>6 DEF ModuleAsPromised, Module!Fatal
<1> QED
  BY <1>3, <1>4, <1>5, <1>6, ChainStep

(* How a root ended is settled. *)
LEMMA TerminalStays ==
    ASSUME Types, BatchFits, ModuleAsPromised, [Next]_vars,
           phase[deployment] \in {"COMPLETED", "CANCELED", "FAILED"}
    PROVE  /\ phase'[deployment] = phase[deployment]
           /\ performed'[deployment] = performed[deployment]
<1>1. /\ deployment \in Roots /\ phase \in [Roots -> Phases] /\ NoRoot \notin Roots
      /\ current # NoRoot => phase[current] = "APPROVED"
  BY ExecutorAssumption DEF Types, ModuleAsPromised
<1>2. ASSUME NEW r \in Roots, Began(r)
      PROVE  phase'[deployment] = phase[deployment] /\ performed' = performed
  BY <1>1, <1>2 DEF Began
<1>3. ASSUME NEW r \in Roots \ {deployment}, GaveUp(r)
      PROVE  phase'[deployment] = phase[deployment] /\ performed' = performed
  BY <1>1, <1>3 DEF GaveUp
<1>4. ASSUME WentOn
      PROVE  /\ phase'[deployment] = phase[deployment]
             /\ performed'[deployment] = performed[deployment]
  BY <1>1, <1>4 DEF WentOn
<1> QED
  BY <1>2, <1>3, <1>4, ChainStep

-----------------------------------------------------------------------------
(* The Safe's money *)

(* A batch of the deployment leaves the Safe with what the simulation left *)
(* it with, if it began so: an action that fails takes nothing, and one    *)
(* that succeeds what it took in the simulation.                           *)
LEMMA SpendEffect ==
    ASSUME Types, NEW first \in Nat, first > 0, NEW n \in Nat,
           first + n <= Size[deployment], NEW outcome \in Outcomes(first, n),
           Spend(first, outcome), balance >= SimulatedBalance[first - 1]
    PROVE  /\ Len(outcome) \in 1 .. n
           /\ balance' >= SimulatedBalance[first - 1 + Len(outcome)]
<1>1. PICK k \in 1 .. n : outcome \in [1 .. k -> BOOLEAN]
  BY DEF Outcomes
<1>2. Len(outcome) = k /\ k \in Nat
  BY <1>1
<1>3. PICK left \in [0 .. k -> 0 .. balance] :
          /\ left[0] = balance /\ balance' = left[k]
          /\ \A i \in 1 .. k :
                 left[i] = IF outcome[i] THEN left[i - 1] - Value(first + i - 1)
                                         ELSE left[i - 1]
  BY <1>2 DEF Spend
<1>4. Size[deployment] \in Nat /\ balance \in Nat
  BY ExecutorAssumption DEF Types
<1>5. \A i \in 0 .. k : left[i] \in Nat /\ first - 1 + i \in 0 .. Size[deployment] - 1
  BY <1>3, <1>4
<1> DEFINE Simulated(i) == SimulatedBalance[first - 1 + i]
           Bad == {i \in 0 .. k : ~(left[i] >= Simulated(i))}
<1>6. \A i \in 0 .. k : Simulated(i) \in Nat
  BY <1>5, ExecutorAssumption
<1>7. ASSUME NEW i \in 1 .. k, left[i - 1] >= Simulated(i - 1)
      PROVE  left[i] >= Simulated(i)
  <2>1. PICK leaf : leaf = first + i - 1
    OBVIOUS
  <2>2. leaf \in 1 .. Size[deployment] - 1 /\ leaf - 1 = first - 1 + (i - 1)
        /\ leaf = first - 1 + i
    BY <1>4, <2>1
  <2>3. PICK before \in Nat, after \in Nat :
           before = SimulatedBalance[leaf - 1] /\ after = SimulatedBalance[leaf]
           /\ after <= before
    <3>1. leaf - 1 \in 0 .. Size[deployment] - 1 /\ leaf \in 0 .. Size[deployment] - 1
      BY <1>4, <2>2
    <3>2. SimulatedBalance[leaf - 1] \in Nat /\ SimulatedBalance[leaf] \in Nat
      BY <3>1, ExecutorAssumption
    <3>3. SimulatedBalance[leaf] <= SimulatedBalance[leaf - 1]
      BY <2>2, ExecutorAssumption
    <3> QED
      BY <3>2, <3>3
  <2>4. Simulated(i - 1) = before /\ Simulated(i) = after /\ Value(leaf) = before - after
    BY <2>2, <2>3 DEF Value
  <2>5. left[i] = IF outcome[i] THEN left[i - 1] - Value(leaf) ELSE left[i - 1]
    BY <1>3, <2>1
  <2>6. left[i - 1] \in Nat /\ left[i - 1] >= before
    BY <1>5, <1>7, <2>4
  <2>7. CASE outcome[i]
    <3>1. PICK held \in Nat : held = left[i - 1] /\ held >= before
      BY <2>6
    <3>2. held - (before - after) >= after
      BY <2>3, <3>1
    <3>3. left[i] = held - (before - after)
      BY <2>4, <2>5, <2>7, <3>1
    <3> QED
      BY <2>4, <3>2, <3>3
  <2>8. CASE ~outcome[i]
    <3>1. PICK held \in Nat : held = left[i - 1] /\ held >= before
      BY <2>6
    <3>2. left[i] = held /\ held >= after
      BY <2>3, <2>5, <2>8, <3>1
    <3> QED
      BY <2>4, <3>2
  <2> QED
    BY <2>7, <2>8
<1>8. left[0] >= Simulated(0)
  BY <1>3
<1> HIDE DEF Simulated
<1>9. Bad = {}
  <2>1. SUFFICES ASSUME Bad # {} PROVE FALSE
    OBVIOUS
  <2>2. PICK m \in Bad : \A i \in Bad : m <= i
    <3>1. Bad \subseteq Nat
      OBVIOUS
    <3> HIDE DEF Bad
    <3> QED
      BY <2>1, <3>1, LeastNumber
  <2>3. m # 0
    BY <1>8
  <2>4. m \in 1 .. k /\ m - 1 \in 0 .. k /\ ~(m <= m - 1)
    BY <2>3
  <2>5. left[m - 1] >= Simulated(m - 1)
    BY <2>2, <2>4
  <2> QED
    BY <1>7, <2>4, <2>5
<1>10. left[k] >= Simulated(k)
  BY <1>2, <1>9
<1> QED
  BY <1>1, <1>2, <1>3, <1>10 DEF Simulated

Funded == FundedFirst /\ LogFits /\ FundsSuffice

(* No step leaves an approved deployment without its funds. *)
LEMMA FundsStep ==
    ASSUME Types, BatchFits, SentWhenPossible, ModuleAsPromised, FundedFirst, LogFits,
           FundsSuffice, [Next]_vars
    PROVE  Funded'
<1> USE DEF Go, Send, Approving, Executing
<1>1. /\ deployment \in Roots /\ NoRoot \notin Roots
      /\ phase \in [Roots -> Phases] /\ attempt \in AttemptType
      /\ performed \in [Roots -> Seq(Performed)]
      /\ balance \in Nat /\ transferred \in BOOLEAN /\ taken \in BOOLEAN
      /\ StartingBalance \in Nat /\ FundsRequested \in Nat
      /\ SimulatedBalance[0] = StartingBalance + FundsRequested
      /\ phase[deployment] # "EMPTY" => phase'[deployment] # "EMPTY"
  BY ModuleAsPromisedStep, ExecutorAssumption DEF Types
<1>2. ASSUME phase'[deployment] \in {"EMPTY", "APPROVED"} =>
                 /\ phase'[deployment] = phase[deployment]
                 /\ performed'[deployment] = performed[deployment],
             money' = money \/ taken' = TRUE,
             PastFunding' => \/ PastFunding
                             \/ taken \/ phase[deployment] # "EMPTY"
                             \/ balance >= SimulatedBalance[0]
      PROVE  Funded'
  <2>1. CASE money' = money
    BY <1>1, <1>2, <2>1 DEF money, Funded, FundedFirst, LogFits, FundsSuffice
  <2>2. CASE taken' = TRUE
    BY <1>2, <2>2 DEF Funded, FundedFirst, LogFits, FundsSuffice
  <2> QED
    BY <1>2, <2>1, <2>2
<1>3. ApproveTx.kind = "approve"
  BY DEF ApproveTx
<1>4. ASSUME NEW tx \in pool, NEW ok, Answer(tx, ok), tx.kind # "fund"
      PROVE  PastFunding' => PastFunding
  <2>1. \/ Undisturbed \/ Errs \/ Resumes("awaitSystem", "system")
        \/ Resumes("awaitDeploy", "readState") \/ Resumes("awaitApprove", "readActive")
        \/ Resumes("awaitExecute", "readAfter")
    BY <1>4, AnswerEffect
  <2>2. pool' \subseteq pool
    BY <1>4, AnswerEffect
  <2> QED
    BY <1>1, <2>1, <2>2 DEF Undisturbed, Errs, Idle, Resumes, PastFunding, AttemptType
<1>5. ASSUME MineFund PROVE Funded'
  <2>1. /\ chain' = chain /\ balance' = balance + FundsRequested
        /\ transferred' = TRUE /\ taken' = taken
    BY <1>5 DEF MineFund, chain
  <2>2. FundedFirst'
    <3>1. SUFFICES ASSUME phase[deployment] = "EMPTY"
                   PROVE  /\ performed[deployment] = <<>>
                          /\ ~taken => balance' >= StartingBalance + FundsRequested
      BY <1>1, <2>1 DEF chain, FundedFirst
    <3>2. /\ performed[deployment] = <<>>
          /\ ~taken => balance >= StartingBalance
      BY <1>1, <3>1 DEF FundedFirst
    <3> QED
      BY <1>1, <2>1, <3>2
  <2>3. FundsSuffice'
    <3>1. SUFFICES ASSUME phase[deployment] = "APPROVED", ~taken
                   PROVE  balance' >= SimulatedBalance[Len(performed[deployment])]
      BY <2>1 DEF chain, FundsSuffice
    <3>2. PICK needed : needed = SimulatedBalance[Len(performed[deployment])]
      OBVIOUS
    <3>3. Len(performed[deployment]) \in 0 .. Size[deployment] - 1
      <4>1. Len(performed[deployment]) \in Nat /\ Size[deployment] \in Nat
        BY <1>1, ExecutorAssumption
      <4> QED
        BY <3>1, <4>1 DEF LogFits
    <3>4. balance >= needed /\ needed \in Nat
      BY <3>1, <3>2, <3>3, ExecutorAssumption DEF FundsSuffice
    <3> QED
      BY <1>1, <2>1, <3>2, <3>4
  <2>4. LogFits'
    BY <2>1 DEF chain, LogFits
  <2> QED
    BY <2>2, <2>3, <2>4 DEF Funded
<1>6. ASSUME NEW tx \in pool, MineSystem(tx) PROVE Funded'
  <2>1. chain' = chain /\ money' = money /\ tx.kind = "system" /\ \E ok : Answer(tx, ok)
    BY <1>6 DEF MineSystem, chain, money
  <2> QED
    BY <1>2, <1>4, <2>1 DEF chain
<1>7. ASSUME MineDeploy PROVE Funded'
  <2>1. chain' = chain /\ money' = money /\ DeployTx \in pool
    BY <1>7 DEF MineDeploy, chain, money
  <2>2. \E ok : Answer(DeployTx, ok)
    BY <1>7, Zenon DEF MineDeploy
  <2>3. DeployTx.kind # "fund"
    BY DEF DeployTx
  <2> QED
    BY <1>2, <1>4, <2>1, <2>2, <2>3 DEF chain
<1>8. ASSUME MineApprove PROVE Funded'
  <2>1. ApproveTx \in pool /\ money' = money
    BY <1>8 DEF MineApprove
  <2>2. CASE ~CanApprove(deployment)
    <3>1. chain' = chain
      BY <1>8, <2>2 DEF MineApprove, chain
    <3>2. \E ok : Answer(ApproveTx, ok)
      BY <1>8, Zenon DEF MineApprove
    <3> QED
      BY <1>2, <1>3, <1>4, <2>1, <3>1, <3>2 DEF chain
  <2>3. CASE CanApprove(deployment)
    <3>1. phase[deployment] = "EMPTY" /\ Began(deployment)
      BY <1>1, <1>8, <2>3, BeginEffect DEF MineApprove, CanApprove
    <3>2. phase'[deployment] # "EMPTY" /\ performed' = performed
      BY <1>1, <3>1 DEF Began
    <3>3. performed[deployment] = <<>> /\ (~taken => balance >= SimulatedBalance[0])
      BY <2>1, <3>1 DEF FundedFirst, PastFunding
    <3>4. Len(performed'[deployment]) = 0 /\ balance' = balance /\ taken' = taken
      BY <2>1, <3>2, <3>3 DEF money
    <3> QED
      BY <1>1, <3>2, <3>3, <3>4, ExecutorAssumption DEF Funded, FundedFirst, LogFits, FundsSuffice
  <2> QED
    BY <2>2, <2>3
<1>9. ASSUME NEW tx \in pool, MineExecute(tx) PROVE Funded'
  <2>1. tx.kind = "execute" /\ tx.first \in Nat /\ tx.count \in Nat
    BY <1>9 DEF MineExecute, Types, Sent
  <2>2. CASE ~CanExecute(tx)
    <3>1. chain' = chain /\ money' = money
      BY <1>9, <2>2 DEF MineExecute, chain, money
    <3>2. \E ok : Answer(tx, ok)
      BY <1>9, Zenon DEF MineExecute
    <3> QED
      BY <1>2, <1>4, <2>1, <3>1, <3>2 DEF chain
  <2>3. CASE CanExecute(tx)
    <3>1. PICK outcome \in Outcomes(tx.first, tx.count) :
             Perform(deployment, tx.first, outcome) /\ Spend(tx.first, outcome)
      BY <1>9, <2>3 DEF MineExecute
    <3>2. current = deployment /\ phase[deployment] = "APPROVED"
          /\ tx.first = LeavesExecuted(deployment)
      BY <1>1, <2>3 DEF CanExecute, ModuleAsPromised
    <3>3. tx.first - 1 = Len(performed[deployment]) /\ tx.first > 0
      <4>1. Len(performed[deployment]) \in Nat
        BY <1>1
      <4>2. tx.first = Len(performed[deployment]) + 1
        BY <1>1, <3>2 DEF LeavesExecuted, Status
      <4> QED
        BY <4>1, <4>2
    <3>4. tx.first + tx.count <= Size[deployment]
      BY <2>1, PossibleMeaning DEF Possible
    <3>5. taken' = taken
      BY <1>9 DEF MineExecute
    <3>6. phase'[deployment] # "EMPTY"
      BY <1>1, <3>2
    <3>7. Len(outcome) \in 1 .. tx.count
      <4>1. PICK k \in 1 .. tx.count : outcome \in [1 .. k -> BOOLEAN]
        BY DEF Outcomes
      <4> QED
        BY <2>1, <4>1
    <3>8. Len(performed'[deployment]) = tx.first - 1 + Len(outcome)
      BY <1>1, <2>1, <3>1, <3>3, LogGrows DEF Perform
    <3>9. LogFits'
      <4>1. Size[deployment] \in Nat
        BY <1>1, ExecutorAssumption
      <4> QED
        BY <2>1, <3>4, <3>7, <3>8, <4>1 DEF LogFits
    <3>10. CASE taken
      BY <3>5, <3>6, <3>10, <3>9 DEF Funded, FundedFirst, FundsSuffice
    <3>11. CASE ~taken
      <4>1. balance >= SimulatedBalance[tx.first - 1]
        BY <3>2, <3>3, <3>11 DEF FundsSuffice
      <4>2. balance' >= SimulatedBalance[tx.first - 1 + Len(outcome)]
        BY <2>1, <3>1, <3>3, <3>4, <4>1, SpendEffect
      <4> QED
        BY <3>6, <3>8, <3>9, <4>2 DEF Funded, FundedFirst, FundsSuffice
    <3> QED
      BY <3>10, <3>11
  <2> QED
    BY <2>2, <2>3
<1>10. ASSUME Crash PROVE Funded'
  <2>1. chain' = chain /\ money' = money /\ pool' = pool /\ attempt' = Idle
    BY <1>10 DEF Crash, chain, money
  <2> QED
    BY <1>2, <2>1 DEF chain, PastFunding, Idle
<1>11. ASSUME Others PROVE Funded'
  <2>1. pool' = pool /\ attempt' = attempt
    BY <1>11 DEF Others, OthersDeploySystem, OwnersCancel, OthersApprove, OthersExecute,
                 OwnersSpend
  <2>2. money' = money \/ taken' = TRUE
    <3>1. ~MineFund /\ ~\E tx \in pool : MineExecute(tx)
      <4>1. ASSUME NEW tx \in pool, NEW ok, Answer(tx, ok) PROVE FALSE
        BY <2>1, <4>1, AnswerEffect
      <4> QED
        BY <4>1, Zenon DEF MineFund, MineExecute
    <3> QED
      BY <3>1, MoneyStep
  <2>3. phase'[deployment] \in {"EMPTY", "APPROVED"} =>
            /\ phase'[deployment] = phase[deployment]
            /\ performed'[deployment] = performed[deployment]
    <3>1. ASSUME NEW r \in Roots, OwnersCancel(r)
          PROVE  phase'[deployment] \in {"EMPTY", "APPROVED"} =>
                    /\ phase'[deployment] = phase[deployment]
                    /\ performed'[deployment] = performed[deployment]
      <4>1. GaveUp(r)
        BY <3>1, GiveUpEffect DEF OwnersCancel
      <4> QED
        BY <1>1, <4>1 DEF GaveUp
    <3>2. ASSUME NEW r \in Roots, OthersApprove(r)
          PROVE  phase'[deployment] = phase[deployment] /\ performed' = performed
      <4>1. Began(r) /\ r # deployment
        BY <3>2, BeginEffect DEF OthersApprove
      <4> QED
        BY <1>1, <4>1 DEF Began
    <3>3. ASSUME NEW r \in Roots, OthersExecute(r)
          PROVE  /\ phase'[deployment] = phase[deployment]
                 /\ performed'[deployment] = performed[deployment]
      <4>1. r # deployment /\ current = r
        BY <3>3 DEF OthersExecute
      <4>2. PICK first, outcome : Perform(r, first, outcome)
        BY <3>3 DEF OthersExecute
      <4> QED
        BY <1>1, <4>1, <4>2 DEF Perform, Module!PerformBatch
    <3>4. ASSUME OwnersSpend \/ \E contract \in SystemContracts : OthersDeploySystem(contract)
          PROVE  phase' = phase /\ performed' = performed
      BY <3>4 DEF OwnersSpend, OthersDeploySystem, chain
    <3> QED
      BY <1>11, <3>1, <3>2, <3>3, <3>4 DEF Others
  <2> QED
    BY <1>2, <2>1, <2>2, <2>3 DEF PastFunding
<1>12. ASSUME Step PROVE Funded'
  <2>1. chain' = chain /\ money' = money
    BY <1>12, StepTypes
  <2>2. ASSUME ~PastFunding, PastFunding', ~taken, phase[deployment] = "EMPTY"
        PROVE  balance >= SimulatedBalance[0]
    <3>1. attempt.pc \notin {"deploySafe", "awaitDeploy"} \cup Approving \cup Executing
          /\ ApproveTx \notin pool
      BY <2>2 DEF PastFunding
    <3>2. Attempt \/ DeploySystem \/ Fund
      BY <1>12, <3>1 DEF Step, DeploySafe, ReadState, ReadActive, ReadActiveState,
                         AfterBatch, NoValidBatch, SendBatch
    <3>3. CASE Attempt
      BY <1>1, <2>2, <3>1, <3>3 DEF Attempt, Tell, Idle, PastFunding, AttemptType
    <3>4. CASE DeploySystem
      <4>1. SystemTx(Min(MissingContracts)).kind # "approve"
        BY DEF SystemTx
      <4>2. ApproveTx \notin pool'
        BY <1>3, <3>1, <3>4, <4>1 DEF DeploySystem
      <4>3. attempt'.pc \in {"fund", "awaitSystem", "idle"}
        <5>1. CASE Go("fund") \/ attempt' = [attempt EXCEPT !.pc = "awaitSystem",
                                                 !.contract = Min(MissingContracts)]
          BY <1>1, <5>1 DEF AttemptType
        <5>2. CASE Tell("error", 0)
          BY <5>2 DEF Tell, Idle
        <5> QED
          BY <3>4, <5>1, <5>2 DEF DeploySystem
      <4> QED
        BY <2>2, <4>2, <4>3 DEF PastFunding
    <3>5. CASE Fund
      <4>1. CASE balance >= requiredBalance
        BY <1>1, <4>1 DEF requiredBalance
      <4>2. CASE AlreadyMade
        BY <1>1, <2>2, <4>2 DEF AlreadyMade, FundedFirst
      <4>3. CASE Go("awaitFund") /\ Send(FundTx)
        <5>1. FundTx.kind # "approve"
          BY DEF FundTx
        <5>2. ApproveTx \notin pool' /\ attempt'.pc = "awaitFund"
          BY <1>1, <1>3, <3>1, <4>3, <5>1 DEF AttemptType
        <5> QED
          BY <2>2, <5>2 DEF PastFunding
      <4> QED
        BY <3>5, <4>1, <4>2, <4>3 DEF Fund
    <3> QED
      BY <3>2, <3>3, <3>4, <3>5
  <2> QED
    BY <1>1, <1>2, <2>1, <2>2 DEF chain
<1>13. ASSUME UNCHANGED vars PROVE Funded'
  BY <1>2, <1>13 DEF vars, chain, PastFunding
<1> QED
  BY <1>5, <1>6, <1>7, <1>8, <1>9, <1>10, <1>11, <1>12, <1>13 DEF Next, Mine

-----------------------------------------------------------------------------
(* What is reported *)

(* With no rival, no root follows the deployment before it has ended.      *)
LEMMA OursAloneOnChain ==
    ASSUME Types, BatchFits, ModuleAsPromised, NoRival, OursAlone, [Next]_vars,
           phase'[deployment] # "EMPTY"
    PROVE  current' \in {deployment, NoRoot}
<1>1. /\ deployment \in Roots /\ phase \in [Roots -> Phases] /\ NoRoot \notin Roots
      /\ current # NoRoot => phase[current] = "APPROVED"
      /\ phase[deployment] # "EMPTY" =>
            current \in {deployment, NoRoot} /\ ModuleNonce > Nonce[deployment]
  BY ExecutorAssumption DEF Types, ModuleAsPromised, OursAlone
<1>2. ASSUME NEW r \in Roots, Began(r) PROVE current' \in {deployment, NoRoot}
  <2>1. CASE r = deployment
    BY <1>2, <2>1 DEF Began
  <2>2. CASE r # deployment
    <3>1. phase[deployment] # "EMPTY"
      BY <1>1, <1>2, <2>2 DEF Began
    <3>2. Nonce[r] = ModuleNonce /\ ModuleNonce > Nonce[deployment]
          /\ Nonce[r] <= Nonce[deployment]
      BY <1>1, <1>2, <2>2, <3>1 DEF Began, NoRival
    <3>3. Nonce[r] \in Nat /\ Nonce[deployment] \in Nat
      BY <1>1, ExecutorAssumption
    <3> QED
      BY <3>2, <3>3
  <2> QED
    BY <2>1, <2>2
<1>3. ASSUME NEW r \in Roots \ {deployment}, GaveUp(r) PROVE current' = NoRoot
  BY <1>3 DEF GaveUp
<1>4. ASSUME WentOn PROVE current' \in {deployment, NoRoot}
  <2>1. phase[deployment] # "EMPTY"
    BY <1>1, <1>4 DEF WentOn
  <2> QED
    BY <1>1, <1>4, <2>1 DEF WentOn
<1> QED
  BY <1>1, <1>2, <1>3, <1>4, ChainStep

(* With no rival, no step makes the executor take another root for its own. *)
LEMMA OursAloneStep ==
    ASSUME Types, BatchFits, ModuleAsPromised, NoRival, OursAlone, [Next]_vars
    PROVE  OursAlone'
<1> USE DEF Go, Executing
<1>1. /\ attempt \in AttemptType
      /\ deployment \in Roots /\ NoRoot \notin Roots
      /\ phase'[deployment] # "EMPTY" => current' \in {deployment, NoRoot}
      /\ phase[deployment] # "EMPTY" => phase'[deployment] # "EMPTY"
  BY OursAloneOnChain, ModuleAsPromisedStep, ExecutorAssumption DEF Types
<1>2. ASSUME attempt'.pc \notin Executing PROVE OursAlone'
  BY <1>1, <1>2 DEF OursAlone
<1>3. ASSUME Undisturbed PROVE OursAlone'
  BY <1>1, <1>3 DEF OursAlone, Undisturbed
<1>4. ASSUME attempt' = Idle PROVE OursAlone'
  BY <1>2, <1>4 DEF Idle
<1>5. ASSUME Resumes("awaitSystem", "system") \/ Resumes("awaitFund", "deploySafe")
             \/ Resumes("awaitDeploy", "readState")
      PROVE  OursAlone'
  BY <1>1, <1>2, <1>5 DEF Resumes, AttemptType
<1>6. ASSUME MineApprove PROVE OursAlone'
  <2>1. PICK ok : ok = CanApprove(deployment)
    OBVIOUS
  <2>2. Answer(ApproveTx, ok)
    BY <1>6, <2>1, Zenon DEF MineApprove
  <2>3. ApproveTx.kind = "approve"
    BY DEF ApproveTx
  <2>4. Undisturbed \/ Errs \/ (Resumes("awaitApprove", "readActive") /\ ok)
    BY <2>2, <2>3, AnswerEffect
  <2>5. CASE Resumes("awaitApprove", "readActive") /\ ok
    <3>1. CanApprove(deployment)
      BY <2>1, <2>5, Zenon
    <3>2. phase'[deployment] # "EMPTY"
      BY <1>1, <1>6, <3>1, BeginEffect DEF MineApprove
    <3> QED
      BY <1>1, <2>5, <3>2 DEF Resumes, AttemptType, OursAlone
  <2> QED
    BY <1>3, <1>4, <2>4, <2>5 DEF Errs
<1>7. ASSUME NEW tx \in pool, MineExecute(tx) PROVE OursAlone'
  <2>1. PICK ok : ok = CanExecute(tx)
    OBVIOUS
  <2>2. Answer(tx, ok) /\ tx.kind = "execute"
    BY <1>7, <2>1, Zenon DEF MineExecute
  <2>3. \/ Undisturbed \/ Errs
        \/ Resumes("awaitExecute", "readAfter") /\ ok /\ tx.first = attempt.executed
    BY <2>2, AnswerEffect
  <2>4. CASE Resumes("awaitExecute", "readAfter") /\ ok /\ tx.first = attempt.executed
    <3>1. CanExecute(tx)
      BY <2>1, <2>4, Zenon
    <3>2. current = deployment /\ attempt.executed = LeavesExecuted(deployment)
      BY <2>4, <3>1 DEF CanExecute
    <3>3. Status(deployment) = "APPROVED" /\ Len(performed[deployment]) \in Nat
      BY <1>1, <3>2 DEF Status, ModuleAsPromised, Types
    <3>4. attempt.executed # 0
      BY <3>2, <3>3 DEF LeavesExecuted
    <3>5. attempt.active = deployment /\ phase[deployment] # "EMPTY"
      BY <2>4, <3>4 DEF OursAlone, Resumes
    <3> QED
      BY <1>1, <2>4, <3>5 DEF Resumes, AttemptType, OursAlone
  <2> QED
    BY <1>3, <1>4, <2>3, <2>4 DEF Errs
<1>8. ASSUME Mine, ~MineApprove, ~\E tx \in pool : MineExecute(tx) PROVE OursAlone'
  <2>1. PICK tx \in pool : tx.kind \in {"fund", "deploy", "system"} /\ \E ok : Answer(tx, ok)
    <3>1. ASSUME MineFund
          PROVE  \E tx \in pool :
                    tx.kind \in {"fund", "deploy", "system"} /\ \E ok : Answer(tx, ok)
      <4>1. FundTx \in pool /\ \E ok : Answer(FundTx, ok)
        BY <3>1, Zenon DEF MineFund
      <4> QED
        BY <4>1 DEF FundTx
    <3>2. ASSUME MineDeploy
          PROVE  \E tx \in pool :
                    tx.kind \in {"fund", "deploy", "system"} /\ \E ok : Answer(tx, ok)
      <4>1. DeployTx \in pool /\ \E ok : Answer(DeployTx, ok)
        BY <3>2, Zenon DEF MineDeploy
      <4> QED
        BY <4>1 DEF DeployTx
    <3>3. ASSUME NEW tx \in pool, MineSystem(tx)
          PROVE  tx.kind \in {"fund", "deploy", "system"} /\ \E ok : Answer(tx, ok)
      BY <3>3 DEF MineSystem
    <3> QED
      BY <1>8, <3>1, <3>2, <3>3 DEF Mine
  <2>2. \/ Undisturbed \/ Errs
        \/ Resumes("awaitSystem", "system") \/ Resumes("awaitFund", "deploySafe")
        \/ Resumes("awaitDeploy", "readState")
    BY <2>1, AnswerEffect
  <2> QED
    BY <1>3, <1>4, <1>5, <2>2 DEF Errs
<1>9. ASSUME Step PROVE OursAlone'
  <2>1. \A r \in Roots \cup {NoRoot} : Status(r) \in Phases /\ FailedAction(r) \in Int
    BY ReadTypes DEF FailedAction
  <2>2. attempt.active \in Roots \cup {NoRoot} /\ chain' = chain
    BY <1>1, <1>9, StepTypes DEF AttemptType
  <2>3. phase' = phase /\ current' = current
    BY <2>2 DEF chain
  <2>4. ASSUME Attempt PROVE OursAlone'
    <3>1. CASE Tell("already", 0)
      BY <1>4, <3>1 DEF Tell
    <3>2. CASE Go(IF isSystemDeployed THEN "fund" ELSE "system")
      BY <1>1, <1>2, <3>2 DEF AttemptType
    <3> QED
      BY <2>4, <3>1, <3>2 DEF Attempt
  <2>5. ASSUME DeploySystem PROVE OursAlone'
    <3>1. CASE Tell("error", 0)
      BY <1>4, <3>1 DEF Tell
    <3>2. CASE Go("fund") \/ attempt' = [attempt EXCEPT !.pc = "awaitSystem",
                                             !.contract = Min(MissingContracts)]
      BY <1>1, <1>2, <3>2 DEF AttemptType
    <3> QED
      BY <2>5, <3>1, <3>2 DEF DeploySystem
  <2>6. ASSUME Fund \/ DeploySafe PROVE OursAlone'
    BY <1>1, <1>2, <2>6 DEF Fund, DeploySafe, AttemptType
  <2>7. ASSUME ReadState PROVE OursAlone'
    <3>1. CASE HandleStatus(Status(deployment), FailedAction(deployment))
      BY <1>1, <1>4, <2>1, <3>1, HandleEffect
    <3>2. CASE Go("awaitApprove")
      BY <1>1, <1>2, <3>2 DEF AttemptType
    <3>3. CASE Go("readActive") /\ Status(deployment) = "APPROVED"
      <4>1. phase[deployment] = "APPROVED"
        BY <1>1, <3>3 DEF Status
      <4> QED
        BY <1>1, <2>3, <3>3, <4>1 DEF AttemptType, OursAlone
    <3> QED
      BY <2>7, <3>1, <3>2, <3>3 DEF ReadState
  <2>8. ASSUME ReadActive PROVE OursAlone'
    BY <1>1, <2>3, <2>8 DEF ReadActive, AttemptType, OursAlone
  <2>9. ASSUME ReadActiveState PROVE OursAlone'
    <3>1. CASE HandleStatus(Status(attempt.active), FailedAction(attempt.active))
      BY <1>4, <2>1, <2>2, <3>1, HandleEffect
    <3>2. CASE attempt' = [attempt EXCEPT !.pc = "batch",
                                          !.executed = LeavesExecuted(attempt.active)]
      <4>1. attempt.active = NoRoot => LeavesExecuted(attempt.active) = 0
        BY DEF LeavesExecuted, Status
      <4> QED
        BY <1>1, <2>3, <2>9, <3>2, <4>1 DEF ReadActiveState, AttemptType, OursAlone
    <3> QED
      BY <2>9, <3>1, <3>2 DEF ReadActiveState
  <2>10. ASSUME AfterBatch PROVE OursAlone'
    <3>1. CASE HandleStatus(Status(attempt.active), FailedAction(attempt.active))
      BY <1>4, <2>1, <2>2, <3>1, HandleEffect
    <3>2. CASE attempt' = [attempt EXCEPT !.pc = "batch",
                              !.executed = attempt.executed + attempt.batch, !.batch = 0]
      <4>1. attempt'.pc = "batch" /\ attempt'.active = attempt.active
        BY <1>1, <3>2 DEF AttemptType
      <4> QED
        BY <1>1, <2>3, <2>10, <4>1 DEF AfterBatch, OursAlone
    <3> QED
      BY <2>10, <3>1, <3>2 DEF AfterBatch
  <2>11. ASSUME NoValidBatch PROVE OursAlone'
    BY <1>4, <2>11 DEF NoValidBatch, Tell
  <2>12. ASSUME SendBatch PROVE OursAlone'
    BY <1>1, <2>3, <2>12 DEF SendBatch, AttemptType, OursAlone
  <2> QED
    BY <1>9, <2>4, <2>5, <2>6, <2>7, <2>8, <2>9, <2>10, <2>11, <2>12 DEF Step
<1>10. ASSUME Crash PROVE OursAlone'
  BY <1>4, <1>10 DEF Crash
<1> QED
  BY <1>3, <1>6, <1>7, <1>8, <1>9, <1>10, AttemptMoves

(* What handleStatus makes of the deployment's own state is true of it. *)
LEMMA HandledTruly ==
    ASSUME Types, ModuleAsPromised, chain' = chain,
           HandleStatus(Status(deployment), FailedAction(deployment))
    PROVE  ReportsAreTrue'
<1>1. /\ deployment \in Roots /\ deployment # NoRoot
      /\ phase' = phase /\ performed' = performed
  BY ExecutorAssumption DEF chain
<1>2. Status(deployment) = phase[deployment] /\ Status(deployment) \in Phases
  BY <1>1, ReadTypes DEF Status
<1>3. LeavesExecuted(deployment) \in Nat
  BY <1>1, ReadTypes
<1>4. FailedAction(deployment) \in Int
  BY <1>3 DEF FailedAction
<1>5. phase[deployment] = "FAILED" => FailedAction(deployment) = Len(performed[deployment])
  <2>1. Len(performed[deployment]) \in Nat
    BY <1>1 DEF Types
  <2> QED
    BY <1>2, <2>1 DEF FailedAction, LeavesExecuted
<1>6. phase[deployment] = "FAILED" =>
         Module!Fatal(performed[deployment][Len(performed[deployment])])
  BY <1>1 DEF ModuleAsPromised
<1>7. /\ report'.kind \in {"success", "failure", "error"}
      /\ report'.kind = "success" => Status(deployment) = "COMPLETED"
      /\ report'.kind = "failure" =>
            \/ Status(deployment) = "CANCELED"
            \/ Status(deployment) = "FAILED" /\ report'.action = FailedAction(deployment)
  BY <1>2, <1>4, HandleEffect
<1>8. report'.kind \in {"success", "already"} => phase'[deployment] = "COMPLETED"
  BY <1>1, <1>2, <1>7
<1>9. ASSUME report'.kind = "failure"
      PROVE  \/ phase'[deployment] = "CANCELED"
             \/ /\ phase'[deployment] = "FAILED"
                /\ report'.action = Len(performed'[deployment])
                /\ Module!Fatal(performed'[deployment][report'.action])
  BY <1>1, <1>2, <1>5, <1>6, <1>7, <1>9
<1> QED
  BY <1>8, <1>9 DEF ReportsAreTrue, Module!Fatal

(* A report stays true: a root that has ended does not change any more,    *)
(* and what is told of the root that the executor has read as active is    *)
(* told of the deployment.                                                 *)
LEMMA ReportsAreTrueStep ==
    ASSUME Types, BatchFits, ModuleAsPromised, NoRival, OursAlone, ReportsAreTrue,
           [Next]_vars
    PROVE  ReportsAreTrue'
<1>1. ASSUME report' = report PROVE ReportsAreTrue'
  <2>1. CASE phase[deployment] \in {"COMPLETED", "CANCELED", "FAILED"}
    <3>1. phase'[deployment] = phase[deployment]
          /\ performed'[deployment] = performed[deployment]
      BY <2>1, TerminalStays
    <3> QED
      BY <1>1, <3>1 DEF ReportsAreTrue, Module!Fatal
  <2>2. CASE phase[deployment] \notin {"COMPLETED", "CANCELED", "FAILED"}
    BY <1>1, <2>2 DEF ReportsAreTrue
  <2> QED
    BY <2>1, <2>2
<1>2. ASSUME report'.kind = "error" PROVE ReportsAreTrue'
  BY <1>2 DEF ReportsAreTrue
<1>3. ASSUME Mine PROVE ReportsAreTrue'
  <2>1. PICK tx \in pool : \E ok : Answer(tx, ok)
    BY <1>3, MineAnswers
  <2>2. Errs \/ report' = report
    BY <2>1, AnswerEffect DEF Undisturbed, Resumes
  <2> QED
    BY <1>1, <1>2, <2>2 DEF Errs
<1>4. ASSUME Step PROVE ReportsAreTrue'
  <2>1. chain' = chain
    BY <1>4, StepTypes
  <2>2. /\ attempt \in AttemptType
        /\ deployment \in Roots /\ deployment # NoRoot
        /\ phase' = phase
    BY <2>1, ExecutorAssumption DEF Types, chain
  <2>3. ASSUME attempt.active = deployment,
               HandleStatus(Status(attempt.active), FailedAction(attempt.active))
        PROVE  ReportsAreTrue'
    <3>1. HandleStatus(Status(deployment), FailedAction(deployment))
      BY <2>3
    <3> QED
      BY <2>1, <3>1, HandledTruly
  <2>4. CASE Attempt
    <3>1. CASE report' = report
      BY <1>1, <3>1
    <3>2. CASE Status(deployment) = "COMPLETED" /\ Tell("already", 0)
      <4>1. report'.kind = "already" /\ phase'[deployment] = "COMPLETED"
        BY <2>2, <3>2 DEF Tell, Status
      <4> QED
        BY <4>1 DEF ReportsAreTrue
    <3> QED
      BY <2>4, <3>1, <3>2 DEF Attempt
  <2>5. CASE DeploySystem \/ Fund \/ DeploySafe \/ ReadActive \/ NoValidBatch \/ SendBatch
    <3>1. report' = report \/ report'.kind = "error"
      BY <2>5 DEF DeploySystem, Fund, DeploySafe, ReadActive, NoValidBatch, SendBatch, Tell
    <3> QED
      BY <1>1, <1>2, <3>1
  <2>6. CASE ReadState
    <3>1. CASE report' = report
      BY <1>1, <3>1
    <3>2. CASE HandleStatus(Status(deployment), FailedAction(deployment))
      BY <2>1, <3>2, HandledTruly
    <3> QED
      BY <2>6, <3>1, <3>2 DEF ReadState
  <2>7. CASE ReadActiveState
    <3>1. attempt.active \in {deployment, NoRoot}
      BY <2>7 DEF ReadActiveState, OursAlone, Executing
    <3>2. CASE attempt.active = deployment
      <4>1. report' = report
            \/ HandleStatus(Status(attempt.active), FailedAction(attempt.active))
        BY <2>7 DEF ReadActiveState
      <4> QED
        BY <1>1, <2>3, <3>2, <4>1
    <3>3. CASE attempt.active = NoRoot
      <4>1. Status(attempt.active) = "EMPTY" /\ LeavesExecuted(attempt.active) = 0
        BY <3>3 DEF Status, LeavesExecuted
      <4>2. ~(0 >= Size[deployment])
        BY <2>2, ExecutorAssumption
      <4> QED
        BY <1>1, <2>7, <4>1, <4>2 DEF ReadActiveState
    <3> QED
      BY <3>1, <3>2, <3>3
  <2>8. CASE AfterBatch
    <3>1. attempt.active = deployment
      BY <2>8 DEF AfterBatch, OursAlone
    <3>2. report' = report
          \/ HandleStatus(Status(attempt.active), FailedAction(attempt.active))
      BY <2>8 DEF AfterBatch
    <3> QED
      BY <1>1, <2>3, <3>1, <3>2
  <2> QED
    BY <1>4, <2>4, <2>5, <2>6, <2>7, <2>8 DEF Step
<1>5. ASSUME Crash \/ Undisturbed PROVE ReportsAreTrue'
  BY <1>1, <1>5 DEF Crash, Undisturbed
<1> QED
  BY <1>3, <1>4, <1>5, AttemptMoves

-----------------------------------------------------------------------------
(* What holds at first *)

(* A fresh module, an idle executor and nothing in flight satisfy the      *)
(* inductive invariant; the config of the network tells the truth.         *)
LEMMA InitEstablishes ==
    ASSUME Init
    PROVE  /\ Types /\ BatchFits /\ PreparedInOrder /\ Funded
           /\ ModuleAsPromised /\ OursAlone /\ SentWhenPossible /\ ReportsAreTrue
<1>1. /\ deployment \in Roots /\ NoRoot \notin Roots /\ Size[deployment] \in Nat
      /\ phase = [r \in Roots |-> "EMPTY"] /\ size = [r \in Roots |-> 0]
      /\ performed = [r \in Roots |-> <<>>] /\ current = NoRoot
  BY ExecutorAssumption DEF Init, Module!Init
<1>2. /\ attempt = Idle /\ report = NoReport /\ pool = {} /\ crashes = 0
      /\ isSystemDeployed = checkSystemDeployed
  BY DEF Init
<1>3. Types
  <2>1. attempt \in AttemptType
    BY <1>2, GoType
  <2>2. report \in Reports
    BY <1>2 DEF NoReport, Reports
  <2>3. system \subseteq SystemContracts /\ deployed \in BOOLEAN /\ isSystemDeployed \in BOOLEAN
    <3>1. system \in {{}, {0}, SystemContracts} /\ deployed \in BOOLEAN
      BY DEF Init
    <3>2. 0 \in SystemContracts
      BY ExecutorAssumption DEF SystemContracts
    <3>3. isSystemDeployed \in BOOLEAN
      BY <1>2 DEF checkSystemDeployed
    <3> QED
      BY <3>1, <3>2, <3>3
  <2>4. crashes \in 0 .. MaxCrashes
    BY <1>2, ExecutorAssumption
  <2>5. network \in Networks /\ executionMode \in ExecutionModes
    BY DEF Init
  <2>7. balance \in Nat /\ transferred \in BOOLEAN /\ taken \in BOOLEAN
    <3>1. SimulatedBalance[0] \in Nat
      BY <1>1, ExecutorAssumption
    <3>2. balance \in 0 .. SimulatedBalance[0] /\ taken \in BOOLEAN
      BY DEF Init
    <3>3. transferred \in BOOLEAN
      BY DEF Init
    <3>4. balance \in Nat
      BY <3>1, <3>2
    <3> QED
      BY <3>2, <3>3, <3>4
  <2>6. phase \in [Roots -> Phases] /\ size \in [Roots -> Nat]
        /\ performed \in [Roots -> Seq(Performed)]
    BY <1>1 DEF Phases
  <2> QED
    BY <1>1, <1>2, <2>1, <2>2, <2>3, <2>4, <2>5, <2>6, <2>7 DEF Types
<1>4. BatchFits
  BY <1>1, <1>2 DEF BatchFits, Idle
<1>5. PreparedInOrder
  BY <1>2 DEF PreparedInOrder, Idle, Funding, Approving, Executing
<1>6. Funded
  <2>1. ~PastFunding
    BY <1>2 DEF PastFunding, Idle, Approving, Executing
  <2>2. transferred = FALSE /\ (taken <=> balance < StartingBalance)
    BY DEF Init
  <2>3. balance \in Nat /\ StartingBalance \in Nat
    BY <1>3, ExecutorAssumption DEF Types
  <2>4. ~taken => balance >= StartingBalance + (IF transferred THEN FundsRequested ELSE 0)
    BY <2>2, <2>3
  <2> QED
    BY <1>1, <2>1, <2>4 DEF Funded, FundedFirst, LogFits, FundsSuffice
<1>7. ModuleAsPromised
  <2>1. UsedRoots = {}
    BY <1>1 DEF UsedRoots
  <2> QED
    BY <1>1, <2>1, FS_EmptySet DEF ModuleAsPromised
<1>8. OursAlone
  BY <1>1, <1>2 DEF OursAlone, Idle, Executing
<1>9. SentWhenPossible /\ ReportsAreTrue
  BY <1>2 DEF SentWhenPossible, ReportsAreTrue, NoReport
<1> QED
  BY <1>3, <1>4, <1>5, <1>6, <1>7, <1>8, <1>9

-----------------------------------------------------------------------------
(* Theorems *)

(* The values the executor works with have their types and bounds: the     *)
(* leaves it counts as executed and sends never exceed the deployment's.   *)
THEOREM ExecutorTypeCorrect == Spec => []TypeOK
<1>1. ASSUME Types, BatchFits PROVE TypeOK
  <2>1. attempt \in AttemptType
    BY <1>1 DEF Types
  <2>2. DOMAIN Awaited = {"awaitSystem", "awaitFund", "awaitDeploy", "awaitApprove",
                          "awaitExecute"}
    BY DEF Awaited
  <2>3. attempt.executed + attempt.batch \in 0 .. Size[deployment]
    BY <1>1, <2>1, ExecutorAssumption DEF AttemptType, BatchFits
  <2> QED
    BY <1>1, <2>1, <2>2, <2>3
    DEF TypeOK, Types, AttemptType, Reports, Phases, Steps, Preparing, Funding,
        Approving, Executing
<1> QED
  BY <1>1, InitEstablishes, TypesStep, BatchFitsStep, PTL DEF Spec

(* Whoever deploys the system contracts, whenever the attempt dies and     *)
(* however the transactions are ordered, none is sent that cannot do its   *)
(* work; the gas of a batch covers what the module demands for its leaves, *)
(* for every gas rule of the network.                                      *)
THEOREM SendsWhatIsPossible == Spec => []SentWhenPossible
<1> QED
  BY InitEstablishes, TypesStep, BatchFitsStep, PreparedInOrderStep,
     SentWhenPossibleStep, PTL
  DEF Spec

(* An approved deployment finds in the Safe, for each action that is left, *)
(* what the simulation found, whenever the attempts die, however often and *)
(* in whichever order the transfers and the other transactions are mined,  *)
(* unless somebody else takes money from the Safe.                         *)
THEOREM FundsLast == Spec => []FundsSuffice
<1> DEFINE Inv == /\ Types /\ BatchFits /\ PreparedInOrder /\ SentWhenPossible
                  /\ ModuleAsPromised /\ Funded
<1>1. Init => Inv
  BY InitEstablishes
<1>2. Inv /\ [Next]_vars => Inv'
  <2>1. SUFFICES ASSUME Types, BatchFits, PreparedInOrder, SentWhenPossible,
                        ModuleAsPromised, Funded, [Next]_vars
                 PROVE  Inv'
    OBVIOUS
  <2> QED
    BY <2>1, TypesStep, BatchFitsStep, PreparedInOrderStep, SentWhenPossibleStep,
       ModuleAsPromisedStep, FundsStep DEF Funded
<1>3. Inv => FundsSuffice
  BY DEF Funded
<1> QED
  BY <1>1, <1>2, <1>3, PTL DEF Spec

(* If no root was signed to follow the deployment before it has ended,     *)
(* what the platform is told of it is what happened on chain.              *)
THEOREM ReportsTellTheTruth ==
    ASSUME NoRival
    PROVE  Spec => []ReportsAreTrue
<1> DEFINE Inv == /\ Types /\ BatchFits /\ ModuleAsPromised /\ OursAlone
                  /\ ReportsAreTrue
<1>1. Init => Inv
  BY InitEstablishes
<1>2. Inv /\ [Next]_vars => Inv'
  <2>1. SUFFICES ASSUME Types, BatchFits, ModuleAsPromised, OursAlone, ReportsAreTrue,
                        [Next]_vars
                 PROVE  Inv'
    OBVIOUS
  <2> QED
    BY <2>1, TypesStep, BatchFitsStep, ModuleAsPromisedStep, OursAloneStep,
       ReportsAreTrueStep
<1> QED
  BY <1>1, <1>2, PTL DEF Spec

=============================================================================
