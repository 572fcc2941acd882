------------------------------ MODULE Registry ------------------------------
(***************************************************************************)
(* The registry entries of a config entry (__init__.py) on top of the      *)
(* coordinator's polls.                                                    *)
(*                                                                         *)
(* Entities are registered once, by the platforms at the end of a setup.   *)
(* _async_cleanup_stale_registry_entries removes the entries of resources  *)
(* that coordinator.data does not list.  It runs in the setup and, as a    *)
(* listener, whenever the coordinator updates its listeners: at the end of *)
(* a refresh, and when the update entity or the reboot repair calls        *)
(* async_update_listeners after a reboot.  It has no await of its own and  *)
(* Home Assistant starts tasks eagerly, so it is one step with its cause.  *)
(* An entry is abstracted to the resource it stands for; the registry      *)
(* outlives reloads and restarts.                                          *)
(***************************************************************************)
EXTENDS Coordinator

VARIABLE registered   \* the resources with registry entries, per collection

registryVars == <<vars, registered>>

RegistryTypeOK == TypeOK /\ registered \in Inventory

RegistryInit == Init /\ registered = Nothing

\* What the cleanup leaves, on the coordinator's state after the step.
Kept ==
  IF ~reachable' \/ degraded' # {}
  THEN registered
  ELSE [c \in Collections |-> registered[c] \cap data'[c]]

\* async_setup_entry after async_config_entry_first_refresh: the cleanup, then
\* the platforms register an entity for each resource of coordinator.data.
FirstRefreshEnds ==
  /\ entry = "loading"
  /\ RefreshEnds
  /\ registered' = IF entry' = "loaded"
                   THEN [c \in Collections |-> Kept[c] \cup data'[c]]
                   ELSE registered

\* Mutant: the listener is not registered, only the setup cleans up.
LaterRefreshForgetsCleanup ==
  /\ entry = "loaded"
  /\ RefreshEnds
  /\ registered' = registered

\* Home Assistant updates the listeners unless the refresh failed again.
LaterRefreshEnds ==
  /\ entry = "loaded"
  /\ RefreshEnds
  /\ registered' = IF updateOk \/ updateOk' THEN Kept ELSE registered

\* async_update_listeners of update.py and repairs.py, at any time.
RebootNotifies ==
  /\ entry = "loaded"
  /\ UNCHANGED vars
  /\ registered' = Kept

\* The steps of the coordinator and its environment that notify nobody.
QuietStep ==
  /\ \/ ResourceChanges \/ HealthChanges \/ Tick
     \/ StartSetup \/ Connected \/ ConnectFails \/ Unload
     \/ TimerPoll \/ RequestedPoll
     \/ HwinfoOk \/ Fetch
  /\ UNCHANGED registered

RegistryNext ==
  QuietStep \/ FirstRefreshEnds \/ LaterRefreshEnds \/ RebootNotifies

RegistrySpec == RegistryInit /\ [][RegistryNext]_registryVars

(***************************************************************************)
(* Home Assistant retries a failed setup and fires the poll timer, every   *)
(* RPC ends (omv_api.py bounds it by a timeout and a retry count), and     *)
(* time passes.  Neither the appliance nor the user owes anything.         *)
(***************************************************************************)
RegistryFairSpec ==
  /\ RegistrySpec
  /\ WF_registryVars(StartSetup /\ UNCHANGED registered)
  /\ WF_registryVars(TimerPoll /\ UNCHANGED registered)
  /\ WF_registryVars(Tick /\ UNCHANGED registered)
  /\ WF_registryVars(FirstRefreshEnds \/ LaterRefreshEnds
                     \/ ((Connected \/ ConnectFails \/ HwinfoOk \/ Fetch)
                         /\ UNCHANGED registered))

-----------------------------------------------------------------------------
(***************************************************************************)
(* Properties.                                                             *)
(***************************************************************************)

\* The entries of collection c that a step removes although the appliance's
\* last successful answer lists their resource and the selection wants it.
WronglyPruned(c) ==
  (registered[c] \ registered'[c]) \cap seen'[c] \cap Selected[c]

\* Issue #118: a refresh that ends in a complete inventory removes no entry of
\* a core resource that the appliance still listed when it was last asked.
\* (The cleanup's guard, against swallowed failures, caches and the grace
\* window.)
PrunesOnlyVerified ==
  [][ClaimsComplete' => \A c \in Core : WronglyPruned(c) = {}]_registryVars

\* The entries of a resource that is gone for good are removed in the end, as
\* long as the appliance answers and no user action is due: no cache and no
\* skipped cleanup keeps them forever.
GoneIsPruned ==
  \A c \in Collections, r \in Resources :
    <>[](health = "up" /\ r \notin omv[c])
      => []<>(r \notin registered[c] \/ LeftToUser)

\* __init__.py:323, "only prune against a verified complete inventory", read
\* for the refresh that credentials failed: it claims nothing.
RejectionPrunesOnlyVerified ==
  [][health = "rejecting" /\ phase = "hwinfo" /\ phase' = "idle"
       => \A c \in Core : WronglyPruned(c) = {}]_registryVars
=============================================================================
