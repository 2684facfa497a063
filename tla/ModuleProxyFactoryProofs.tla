----------------------- MODULE ModuleProxyFactoryProofs -----------------------
(***************************************************************************)
(* What ModuleProxyFactory guarantees for any number of Safes, callers and *)
(* salts.  All of it rests on one fact about the addresses, Placed: a      *)
(* module is at an address that names the Safe it belongs to, and that     *)
(* Safe, or the caller in the address, exists.                             *)
(***************************************************************************)
EXTENDS ModuleProxyFactory, TLAPS

(* Every module lies at an address made of its Safe, and every enabled     *)
(* address is made of the Safe that enabled it.                            *)
Placed ==
    /\ \A address \in Addresses :
          safeProxy[address] # NoSafe =>
              /\ address[1] = safeProxy[address]
              /\ safeProxy[address] \in created \cap Supported
    /\ \A safe \in Safes : \A address \in enabled[safe] : address[1] = safe

(* The inductive invariant. *)
IInv == TypeOK /\ Placed /\ CreatedSafesAreReady

(* An address of a module names its Safe.                                  *)
LEMMA AddressType ==
    ASSUME NEW safe \in Safes, NEW caller \in Safes \cup Accounts,
           NEW n \in SaltNonces
    PROVE  /\ ProxyAddress(safe, caller, n) \in Addresses
           /\ ProxyAddress(safe, caller, n)[1] = safe
  BY DEF ProxyAddress, Addresses

(* At first there is nothing.                                              *)
LEMMA InitIInv == Init => IInv
  BY FactoryAssumption
     DEF Init, IInv, TypeOK, Placed, CreatedSafesAreReady

(* Anybody deploys a module for a Safe that exists.                        *)
LEMMA DeployKeepsIInv ==
    ASSUME IInv, NEW caller \in Safes \cup Accounts, NEW safe \in Safes,
           NEW n \in SaltNonces, DeploySphinxModuleProxy(caller, safe, n)
    PROVE  IInv'
<1>1. PICK address \in Addresses :
        address = ProxyAddress(safe, caller, n) /\ address[1] = safe
  BY AddressType
<1>2. /\ safeProxy[address] = NoSafe
      /\ safe \in created \cap Supported
      /\ safeProxy' = [safeProxy EXCEPT ![address] = safe]
      /\ created' = created /\ enabled' = enabled /\ disabled' = disabled
  BY <1>1 DEF DeploySphinxModuleProxy, CanDeployProxy, CanInitialize
<1>3. TypeOK'
  BY <1>1, <1>2 DEF IInv, TypeOK
<1>4. Placed'
  BY <1>1, <1>2 DEF IInv, TypeOK, Placed
<1>5. CreatedSafesAreReady'
  <2>1. ASSUME NEW s \in (SphinxSafes \cap created) \ disabled
        PROVE  safeProxy'[<<s, s, 0>>] = s /\ <<s, s, 0>> \in enabled[s]
    <3>1. safeProxy[<<s, s, 0>>] = s /\ <<s, s, 0>> \in enabled[s]
      BY <2>1 DEF IInv, CreatedSafesAreReady
    <3>2. s # NoSafe
      BY <2>1, FactoryAssumption
    <3>3. <<s, s, 0>> # address
      BY <1>2, <3>1, <3>2
    <3> QED
      BY <1>2, <3>1, <3>3 DEF IInv, TypeOK
  <2> QED
    BY <1>2, <2>1 DEF CreatedSafesAreReady
<1> QED
  BY <1>3, <1>4, <1>5 DEF IInv

(* A Safe enables a module that it can address.                            *)
LEMMA EnableKeepsIInv ==
    ASSUME IInv, NEW safe \in Safes, NEW n \in SaltNonces,
           EnableSphinxModuleProxyFromSafe(safe, n)
    PROVE  IInv'
<1>1. PICK address \in Addresses :
        address = ProxyAddress(safe, safe, n) /\ address[1] = safe
  BY AddressType
<1>2. /\ enabled' = [enabled EXCEPT ![safe] = @ \cup {address}]
      /\ created' = created /\ safeProxy' = safeProxy /\ disabled' = disabled
  BY <1>1 DEF EnableSphinxModuleProxyFromSafe, EnableModule
<1>3. TypeOK'
  BY <1>1, <1>2 DEF IInv, TypeOK
<1>4. Placed'
  BY <1>1, <1>2 DEF IInv, TypeOK, Placed
<1>5. CreatedSafesAreReady'
  BY <1>2, FactoryAssumption DEF IInv, TypeOK, CreatedSafesAreReady
<1> QED
  BY <1>3, <1>4, <1>5 DEF IInv

(* A Safe is created with Sphinx's initializer.                            *)
LEMMA CreateKeepsIInv ==
    ASSUME IInv, NEW safe \in Safes, CreateSafeWithModule(safe)
    PROVE  IInv'
<1>1. PICK address \in Addresses :
        /\ address = ProxyAddress(safe, safe, 0)
        /\ address = <<safe, safe, 0>>
        /\ address[1] = safe
  BY AddressType, FactoryAssumption DEF ProxyAddress
<1>2. /\ safe \in SphinxSafes /\ safe \notin created /\ safe \in Supported
      /\ created' = created \cup {safe}
      /\ safeProxy[address] = NoSafe
      /\ safeProxy' = [safeProxy EXCEPT ![address] = safe]
      /\ enabled' = [enabled EXCEPT ![safe] = @ \cup {address}]
      /\ disabled' = disabled
  BY <1>1, FactoryAssumption
     DEF CreateSafeWithModule, CanCreate, CanDeployProxy, EnableModule
<1>3. TypeOK'
  BY <1>1, <1>2 DEF IInv, TypeOK
<1>4. Placed'
  BY <1>1, <1>2 DEF IInv, TypeOK, Placed
<1>5. CreatedSafesAreReady'
  <2>1. ASSUME NEW s \in (SphinxSafes \cap created') \ disabled
        PROVE  safeProxy'[<<s, s, 0>>] = s /\ <<s, s, 0>> \in enabled'[s]
    <3>1. CASE s = safe
      BY <1>1, <1>2, <3>1 DEF IInv, TypeOK
    <3>2. CASE s # safe
      <4>1. safeProxy[<<s, s, 0>>] = s /\ <<s, s, 0>> \in enabled[s]
        BY <1>2, <2>1, <3>2 DEF IInv, CreatedSafesAreReady
      <4>2. <<s, s, 0>> # address
        BY <1>1, <3>2
      <4> QED
        BY <1>2, <3>2, <4>1, <4>2, FactoryAssumption DEF IInv, TypeOK
    <3> QED
      BY <3>1, <3>2
  <2> QED
    BY <1>2, <2>1 DEF CreatedSafesAreReady
<1> QED
  BY <1>3, <1>4, <1>5 DEF IInv

(* A Safe is created without it.                                           *)
LEMMA CreateOtherKeepsIInv ==
    ASSUME IInv, NEW safe \in Safes, CreateOtherSafe(safe)
    PROVE  IInv'
  BY DEF CreateOtherSafe, IInv, TypeOK, Placed, CreatedSafesAreReady

(* The owners of a Safe enable or disable a module.                        *)
LEMMA OwnersKeepIInv ==
    ASSUME IInv, NEW safe \in Safes, NEW address \in Addresses,
           OwnersEnable(safe, address) \/ OwnersDisable(safe, address)
    PROVE  IInv'
<1>1. CASE OwnersEnable(safe, address)
  <2>1. address[1] = safe
    BY <1>1, FactoryAssumption DEF OwnersEnable, IInv, Placed
  <2>2. TypeOK'
    BY <1>1 DEF OwnersEnable, IInv, TypeOK
  <2>3. Placed'
    BY <1>1, <2>1 DEF OwnersEnable, IInv, TypeOK, Placed
  <2>4. CreatedSafesAreReady'
    BY <1>1, FactoryAssumption
       DEF OwnersEnable, IInv, TypeOK, CreatedSafesAreReady
  <2> QED
    BY <2>2, <2>3, <2>4 DEF IInv
<1>2. CASE OwnersDisable(safe, address)
  <2>1. TypeOK'
    BY <1>2 DEF OwnersDisable, IInv, TypeOK
  <2>2. Placed'
    BY <1>2 DEF OwnersDisable, IInv, TypeOK, Placed
  <2>3. CreatedSafesAreReady'
    BY <1>2, FactoryAssumption
       DEF OwnersDisable, IInv, TypeOK, CreatedSafesAreReady
  <2> QED
    BY <2>1, <2>2, <2>3 DEF IInv
<1> QED
  BY <1>1, <1>2

(* The invariant holds in every state.                                     *)
LEMMA Inductive == Spec => []IInv
<1>1. IInv /\ [Next]_vars => IInv'
  <2> SUFFICES ASSUME IInv, [Next]_vars PROVE IInv'
    OBVIOUS
  <2>1. CASE UNCHANGED vars
    BY <2>1 DEF vars, IInv, TypeOK, Placed, CreatedSafesAreReady
  <2> QED
    BY <2>1, DeployKeepsIInv, EnableKeepsIInv, CreateKeepsIInv,
       CreateOtherKeepsIInv, OwnersKeepIInv
       DEF Next
<1> QED
  BY <1>1, InitIInv, PTL DEF Spec

(* The type invariant: an address has one Safe or none, and a Safe         *)
(* enables only addresses that the factory can give.                       *)
THEOREM TypeCorrect == Spec => []TypeOK
<1>1. IInv => TypeOK
  BY DEF IInv
<1> QED
  BY <1>1, Inductive, PTL

(* No Safe ever enabled a module that belongs to another Safe, however     *)
(* many modules anybody deploys for it: ProxyAddress keeps the addresses   *)
(* of different Safes apart.                                               *)
THEOREM EnabledModulesAreOwnCorrect == Spec => []EnabledModulesAreOwn
<1>1. IInv => EnabledModulesAreOwn
  BY DEF IInv, TypeOK, Placed, EnabledModulesAreOwn
<1> QED
  BY <1>1, Inductive, PTL

(* A Safe that Sphinx created has its module from the first moment. *)
THEOREM CreatedSafesAreReadyCorrect == Spec => []CreatedSafesAreReady
<1>1. IInv => CreatedSafesAreReady
  BY DEF IInv
<1> QED
  BY <1>1, Inductive, PTL

(* Nobody can occupy the address of a module before its Safe exists, so    *)
(* the Safe and its module can be created on every chain at any time.      *)
THEOREM AlwaysCreatableCorrect == Spec => []AlwaysCreatable
<1>1. IInv => AlwaysCreatable
  <2> SUFFICES ASSUME IInv, NEW safe \in SphinxSafes \ created
               PROVE  CanCreate(safe)
    BY DEF AlwaysCreatable
  <2>1. PICK address \in Addresses :
          address = ProxyAddress(safe, safe, 0) /\ address[1] = safe
    BY AddressType, FactoryAssumption
  <2>2. safeProxy[address] = NoSafe
    BY <2>1 DEF IInv, Placed
  <2> QED
    BY <2>1, <2>2, FactoryAssumption
       DEF CanCreate, CanDeployProxy, CanInitialize
<1> QED
  BY <1>1, Inductive, PTL

=============================================================================
