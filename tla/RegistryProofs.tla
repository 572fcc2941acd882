-------------------------- MODULE RegistryProofs --------------------------
(***************************************************************************)
(* Theorems about Registry: what a step may remove from the registry,      *)
(* from what the coordinator's invariants say of coordinator.data.         *)
(***************************************************************************)
EXTENDS Registry, CoordinatorProofs

-----------------------------------------------------------------------------
(* The registry follows the coordinator: its steps are the coordinator's.  *)

LEMMA RegistryStepsAreSteps == [RegistryNext]_registryVars => [Next]_vars
<1> SUFFICES ASSUME [RegistryNext]_registryVars PROVE [Next]_vars
  OBVIOUS
<1>1. CASE QuietStep
  BY <1>1 DEF QuietStep, Next
<1>2. CASE FirstRefreshEnds \/ LaterRefreshEnds
  BY <1>2 DEF FirstRefreshEnds, LaterRefreshEnds, Next
<1>3. CASE RebootNotifies \/ UNCHANGED registryVars
  BY <1>3 DEF RebootNotifies, registryVars
<1>4. QED
  BY <1>1, <1>2, <1>3 DEF RegistryNext

THEOREM RegistryFollowsCoordinator == RegistrySpec => Spec
  BY RegistryStepsAreSteps, PTL DEF RegistrySpec, RegistryInit, Spec

-----------------------------------------------------------------------------
(* A step that removes an entry is a cleanup's: it keeps what data lists.  *)

LEMMA PruningKeepsData ==
  ASSUME NEW c \in Collections, [RegistryNext]_registryVars
  PROVE  registered[c] \cap data'[c] \subseteq registered'[c]
<1>1. registered[c] \cap data'[c] \subseteq Kept[c] \/ Kept = registered
  BY DEF Kept
<1>2. registered[c] \cap data'[c] \subseteq Kept[c]
  BY <1>1
<1>3. CASE QuietStep \/ UNCHANGED registryVars
  BY <1>3 DEF QuietStep, registryVars
<1>4. CASE FirstRefreshEnds
  <2>1. CASE entry' = "loaded"
    BY <1>2, <1>4, <2>1 DEF FirstRefreshEnds
  <2>2. CASE entry' # "loaded"
    BY <1>4, <2>2 DEF FirstRefreshEnds
  <2>3. QED
    BY <2>1, <2>2
<1>5. CASE LaterRefreshEnds
  BY <1>2, <1>5 DEF LaterRefreshEnds
<1>6. CASE RebootNotifies
  BY <1>2, <1>6 DEF RebootNotifies
<1>7. QED
  BY <1>3, <1>4, <1>5, <1>6 DEF RegistryNext

\* Issue #118: a refresh that ends in a complete inventory removes no entry of
\* a core resource that the appliance still listed when it was last asked.
THEOREM PruningIsVerified == RegistrySpec => PrunesOnlyVerified
<1>1. ASSUME VerifiedInventory', [RegistryNext]_registryVars, ClaimsComplete',
             NEW c \in Core
      PROVE  WronglyPruned(c) = {}
  <2>1. data'[c] = seen'[c] \cap Selected[c]
    BY <1>1, KindsAssumption DEF VerifiedInventory
  <2>2. c \in Collections
    BY KindsAssumption
  <2>3. registered[c] \cap data'[c] \subseteq registered'[c]
    BY <1>1, <2>2, PruningKeepsData
  <2>4. QED
    BY <2>1, <2>3 DEF WronglyPruned
<1>2. VerifiedInventory' /\ [RegistryNext]_registryVars
        => [ClaimsComplete' => \A c \in Core : WronglyPruned(c) = {}]_registryVars
  BY <1>1
<1>3. RegistrySpec => []VerifiedInventory
  BY RegistryFollowsCoordinator, InventoryIsVerified
<1>4. QED
  BY <1>2, <1>3, PTL DEF RegistrySpec, PrunesOnlyVerified
=============================================================================
