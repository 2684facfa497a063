-------------------------- MODULE ModuleProxyFactory --------------------------
(***************************************************************************)
(* The contract that deploys and enables the modules of one chain          *)
(* (packages/contracts/contracts/core/SphinxModuleProxyFactory.sol) with   *)
(* the module's `initialize`, and the transaction that creates a Gnosis    *)
(* Safe together with its module (packages/contracts/src/addresses.ts,     *)
(* getGnosisSafeInitializerData).                                          *)
(*                                                                         *)
(* A module is a proxy at an address that anybody can compute before it    *)
(* exists; it belongs to the Safe it is initialized with.  Every           *)
(* transaction is atomic: what reverts does not happen.                    *)
(***************************************************************************)
EXTENDS Naturals

CONSTANTS
    Safes,        \* addresses of Gnosis Safes, created or not
    Accounts,     \* other addresses that call the factory
    SphinxSafes,  \* Safes whose address commits to Sphinx's initializer
    Supported,    \* Safes whose singleton has a version Sphinx supports
    SaltNonces,
    NoSafe

ASSUME FactoryAssumption ==
    /\ SphinxSafes \subseteq Supported /\ Supported \subseteq Safes
    /\ NoSafe \notin Safes
    /\ 0 \in SaltNonces

(* The addresses that the factory's CREATE2 can reach: the salt is a hash  *)
(* of these three.                                                         *)
Addresses == Safes \X (Safes \cup Accounts) \X SaltNonces

VARIABLES
    created,   \* the Safes that have code
    safeProxy, \* the Safe each module is initialized with; NoSafe: no code
    enabled,   \* the modules each Safe has enabled
    disabled   \* history: the Safes that disabled a module

vars == <<created, safeProxy, enabled, disabled>>

Init ==
    /\ created = {}
    /\ safeProxy = [a \in Addresses |-> NoSafe]
    /\ enabled = [s \in Safes |-> {}]
    /\ disabled = {}

-----------------------------------------------------------------------------
(* Mutants, each the body of the definition after it as a plausible bug    *)
(* would leave it; no action uses them.                                    *)
SaltWithoutSafe(safe, caller, saltNonce) ==
    LET anyone == CHOOSE s \in Safes : TRUE IN <<anyone, caller, saltNonce>>
SaltIsNonce(safe, caller, saltNonce) ==
    LET anyone == CHOOSE s \in Safes : TRUE IN <<anyone, anyone, saltNonce>>
EnablesNothing(modules, address) == modules
EnablesTheSafe(modules, address) == modules \cup {address[1]}

(* computeSphinxModuleProxyAddress, and the salt of the deployment. *)
ProxyAddress(safe, caller, saltNonce) == <<safe, caller, saltNonce>>

(* initialize: the Safe answers masterCopy() and its singleton names a     *)
(* supported version; `safes` have code.                                   *)
CanInitialize(safe, safes) == safe \in safes \cap Supported

(* enableModule of the Safe; it refuses a module that is enabled already.  *)
EnableModule(modules, address) == modules \cup {address}

(* A clone and its initialization succeed. *)
CanDeployProxy(address, safe, safes) ==
    /\ safeProxy[address] = NoSafe
    /\ CanInitialize(safe, safes)

-----------------------------------------------------------------------------
(* deploySphinxModuleProxy, by anybody for any Safe; a Safe that calls     *)
(* deploySphinxModuleProxyFromSafe is its own caller.                      *)
DeploySphinxModuleProxy(caller, safe, saltNonce) ==
    LET address == ProxyAddress(safe, caller, saltNonce)
    IN /\ caller \in created \cup Accounts
       /\ CanDeployProxy(address, safe, created)
       /\ safeProxy' = [safeProxy EXCEPT ![address] = safe]
       /\ UNCHANGED <<created, enabled, disabled>>

(* enableSphinxModuleProxyFromSafe, delegatecalled by a Safe.  Nothing     *)
(* demands that the module exists.                                         *)
EnableSphinxModuleProxyFromSafe(safe, saltNonce) ==
    LET address == ProxyAddress(safe, safe, saltNonce)
    IN /\ safe \in created
       /\ address \notin enabled[safe]
       /\ enabled' = [enabled EXCEPT ![safe] = EnableModule(@, address)]
       /\ UNCHANGED <<created, safeProxy, disabled>>

(* createProxyWithNonce with the initializer of Sphinx: the Safe's setup   *)
(* deploys the module and enables it, in this order, or reverts.           *)
CanCreate(safe) ==
    CanDeployProxy(ProxyAddress(safe, safe, 0), safe, created \cup {safe})

CreateSafeWithModule(safe) ==
    LET address == ProxyAddress(safe, safe, 0)
    IN /\ safe \in SphinxSafes \ created
       /\ CanCreate(safe)
       /\ created' = created \cup {safe}
       /\ safeProxy' = [safeProxy EXCEPT ![address] = safe]
       /\ enabled' = [enabled EXCEPT ![safe] = EnableModule(@, address)]
       /\ UNCHANGED disabled

-----------------------------------------------------------------------------
(* Environment *)

(* A Safe that does not come from Sphinx is created. *)
CreateOtherSafe(safe) ==
    /\ safe \in Safes \ (SphinxSafes \cup created)
    /\ created' = created \cup {safe}
    /\ UNCHANGED <<safeProxy, enabled, disabled>>

(* The owners call enableModule with a module that names their Safe. *)
OwnersEnable(safe, address) ==
    /\ safe \in created
    /\ safeProxy[address] = safe
    /\ address \notin enabled[safe]
    /\ enabled' = [enabled EXCEPT ![safe] = @ \cup {address}]
    /\ UNCHANGED <<created, safeProxy, disabled>>

(* The owners call disableModule. *)
OwnersDisable(safe, address) ==
    /\ address \in enabled[safe]
    /\ enabled' = [enabled EXCEPT ![safe] = @ \ {address}]
    /\ disabled' = disabled \cup {safe}
    /\ UNCHANGED <<created, safeProxy>>

Next ==
    \/ \E caller \in Safes \cup Accounts, safe \in Safes, n \in SaltNonces :
          DeploySphinxModuleProxy(caller, safe, n)
    \/ \E safe \in Safes, n \in SaltNonces :
          EnableSphinxModuleProxyFromSafe(safe, n)
    \/ \E safe \in Safes : CreateSafeWithModule(safe) \/ CreateOtherSafe(safe)
    \/ \E safe \in Safes, address \in Addresses :
          OwnersEnable(safe, address) \/ OwnersDisable(safe, address)

Spec == Init /\ [][Next]_vars

-----------------------------------------------------------------------------
(* Properties *)

(* Storage keeps its types. *)
TypeOK ==
    /\ created \subseteq Safes
    /\ safeProxy \in [Addresses -> Safes \cup {NoSafe}]
    /\ enabled \in [Safes -> SUBSET Addresses]
    /\ disabled \subseteq Safes

(* A Safe never takes orders from a module of another Safe: every module   *)
(* it enabled is initialized with it, or, where a Safe enabled an address  *)
(* before it deployed a module there, has no code and can only become      *)
(* a module of its own.  The addresses a Safe computes for itself and      *)
(* those anybody can deploy to must not meet.                              *)
EnabledModulesAreOwn ==
    \A safe \in Safes : \A address \in enabled[safe] :
        safeProxy[address] \in {safe, NoSafe}

(* A Safe created by Sphinx's initializer has its module deployed and      *)
(* enabled from the first moment, until its owners disable one: the        *)
(* executor that finds the Safe's code relies on it (execute.ts:1029).     *)
CreatedSafesAreReady ==
    \A safe \in (SphinxSafes \cap created) \ disabled :
        /\ safeProxy[<<safe, safe, 0>>] = safe
        /\ <<safe, safe, 0>> \in enabled[safe]

(* Whatever anybody deployed before, creating a Safe with its module       *)
(* succeeds: a high-level invariant of specs/sphinx-module-proxy-          *)
(* factory.md ("it must always succeed on another network").               *)
AlwaysCreatable ==
    \A safe \in SphinxSafes \ created : CanCreate(safe)

=============================================================================
