---------------------------- MODULE Coordinator ----------------------------
(***************************************************************************)
(* The polling cycle of OMVDataUpdateCoordinator (coordinator.py) under    *)
(* Home Assistant's DataUpdateCoordinator.                                 *)
(*                                                                         *)
(* One poll asks System.getInformation first and then one RPC after the    *)
(* other, in the fixed order Plan.  Only the first of them can fail the    *)
(* poll; a failure of any other one is swallowed and leaves its collection *)
(* empty.  Every RPC is an await point, so the appliance, the clock and    *)
(* the user act between them.  An inventory is abstracted to the set of    *)
(* the resources it lists, and a collection is one of                      *)
(*                                                                         *)
(*   core, cached   filesystem, disk       _fetch_or_empty, SMART interval *)
(*   core           service, network       _fetch_or_empty                 *)
(*   cached         smart                  _fetch_optional, SMART interval *)
(*   neither        compose, kvm, zfs ...  _fetch_optional                 *)
(*                                                                         *)
(* The appliance (omv, health) and Home Assistant's scheduling are outside *)
(* the repository and are modelled from how the code relies on them.       *)
(***************************************************************************)
EXTENDS Naturals, Sequences, Functions

CONSTANTS
  Resources,    \* what an inventory may list
  Plan,         \* the collections of a poll, in the order they are fetched
  Core,         \* those whose failure is recorded in _degraded_collections
  Cached,       \* those fetched at most once per CONF_SMART_INTERVAL
  Selected,     \* Selected[c]: what the resource selection lets through
  Interval,     \* CONF_SMART_INTERVAL, in ticks of the model's clock
  MaxFailures   \* CONF_MAX_CONSECUTIVE_FAILURES

Collections == Range(Plan)

ASSUME PlanAssumption == Plan \in Seq(Collections)
ASSUME PlanIsOnce == \A i, j \in 1 .. Len(Plan) : Plan[i] = Plan[j] => i = j
ASSUME KindsAssumption == Core \subseteq Collections /\ Cached \subseteq Collections
ASSUME SelectedAssumption == Selected \in [Collections -> SUBSET Resources]
ASSUME NumbersAssumption == Interval \in Nat \ {0} /\ MaxFailures \in Nat

Inventory == [Collections -> SUBSET Resources]
Nothing == [c \in Collections |-> {}]
NoCache == [c \in Cached |-> {}]
AllDue == [c \in Cached |-> Interval]

\* filter_data_by_selection, applied to fresh and to cached data alike.
Filter(inventory) == [c \in Collections |-> inventory[c] \cap Selected[c]]

VARIABLES
  omv,          \* the resources that exist on the appliance
  health,       \* how the appliance answers: up, flaky, down or rejecting
  entry,        \* the config entry: not_loaded (a setup will be tried), loading,
                \* loaded, or left to the user: auth_failed, setup_error
  phase,        \* idle, connect (of a setup), hwinfo or fetching (of a poll)
  step,         \* index in Plan of the next fetch of this poll
  fetched,      \* what this poll has collected so far
  degraded,     \* _degraded_collections
  cache,        \* _filesystem_cache, _disk_inventory_cache, the SMART caches
  age,          \* ticks since ..._last_poll; Interval when due or never polled
  hasValid,     \* _last_valid_data is not empty
  lastValid,    \* _last_valid_data
  failures,     \* _consecutive_failures
  reachable,    \* the Reachable binary sensor
  data,         \* what the entities read
  updateOk,     \* last_update_success: the entities are available
  scheduled,    \* a timer for the next poll is armed
  reauth,       \* a reauth flow asks the user for credentials
  seen          \* history: the appliance's last successful answer, per collection

environment == <<omv, health>>
poll == <<phase, step, fetched, degraded>>
caches == <<cache, age>>
outcome == <<hasValid, lastValid, failures, reachable, data, updateOk>>
timing == <<scheduled, reauth>>
vars == <<environment, entry, poll, caches, outcome, timing, seen>>

TypeOK ==
  /\ omv \in Inventory
  /\ health \in {"up", "flaky", "down", "rejecting"}
  /\ entry \in {"not_loaded", "loading", "loaded", "auth_failed", "setup_error"}
  /\ phase \in {"idle", "connect", "hwinfo", "fetching"}
  /\ step \in 1 .. Len(Plan) + 1
  /\ fetched \in Inventory
  /\ degraded \in SUBSET Core
  /\ cache \in [Cached -> SUBSET Resources]
  /\ age \in [Cached -> 0 .. Interval]
  /\ hasValid \in BOOLEAN
  /\ lastValid \in Inventory
  /\ failures \in 0 .. MaxFailures + 1
  /\ reachable \in BOOLEAN
  /\ data \in Inventory
  /\ updateOk \in BOOLEAN
  /\ scheduled \in BOOLEAN
  /\ reauth \in BOOLEAN
  /\ seen \in Inventory

Init ==
  /\ omv \in Inventory
  /\ health = "up"
  /\ entry = "not_loaded"
  /\ phase = "idle" /\ step = 1
  /\ fetched = Nothing /\ degraded = {}
  /\ cache = NoCache /\ age = AllDue
  /\ hasValid = FALSE /\ lastValid = Nothing
  /\ failures = 0 /\ reachable = TRUE
  /\ data = Nothing /\ updateOk = FALSE
  /\ scheduled = FALSE /\ reauth = FALSE
  /\ seen = Nothing

-----------------------------------------------------------------------------
(* The appliance and the clock.                                            *)

ResourceChanges ==
  /\ \E c \in Collections, r \in Resources :
       omv' \in {[omv EXCEPT ![c] = @ \cup {r}], [omv EXCEPT ![c] = @ \ {r}]}
  /\ UNCHANGED <<health, entry, poll, caches, outcome, timing, seen>>

HealthChanges ==
  /\ health' \in {"up", "flaky", "down", "rejecting"} \ {health}
  /\ UNCHANGED <<omv, entry, poll, caches, outcome, timing, seen>>

Tick ==
  /\ \E c \in Cached : age[c] < Interval
  /\ age' = [c \in Cached |-> IF age[c] < Interval THEN age[c] + 1 ELSE Interval]
  /\ UNCHANGED <<environment, entry, poll, cache, outcome, timing, seen>>

-----------------------------------------------------------------------------
(* The config entry and the poll's schedule.                               *)

\* async_setup_entry builds a new coordinator, after it has connected or has
\* taken over the session of a flow or of the options reload.
StartSetup ==
  /\ entry = "not_loaded"
  /\ entry' = "loading"
  /\ phase' \in {"connect", "hwinfo"} /\ step' = 1
  /\ fetched' = Nothing /\ degraded' = {}
  /\ cache' = NoCache /\ age' = AllDue
  /\ hasValid' = FALSE /\ lastValid' = Nothing
  /\ failures' = 0 /\ reachable' = TRUE
  /\ data' = Nothing /\ updateOk' = TRUE
  /\ scheduled' = FALSE /\ reauth' = FALSE
  /\ UNCHANGED <<environment, seen>>

\* Connected: async_config_entry_first_refresh follows.
Connected ==
  /\ phase = "connect" /\ health \in {"up", "flaky"}
  /\ phase' = "hwinfo"
  /\ UNCHANGED <<environment, entry, step, fetched, degraded, caches, outcome,
                 timing, seen>>

\* Only an OMVAuthError and an OMVConnectionError are translated for Home
\* Assistant; it does not retry a setup that any other OMVApiError ends.
ConnectFails ==
  /\ phase = "connect"
  /\ \/ health \in {"flaky", "down"} /\ entry' = "not_loaded" /\ UNCHANGED reauth
     \/ health = "flaky" /\ entry' = "setup_error" /\ UNCHANGED reauth
     \/ health = "rejecting" /\ entry' = "auth_failed" /\ reauth' = TRUE
  /\ phase' = "idle"
  /\ UNCHANGED <<environment, step, fetched, degraded, caches, outcome,
                 scheduled, seen>>

\* A reload of the entry or a restart of Home Assistant: the coordinator and
\* any poll it is running are gone.
Unload ==
  /\ entry \in {"loaded", "auth_failed", "setup_error"}
  /\ entry' = "not_loaded"
  /\ phase' = "idle" /\ fetched' = Nothing
  /\ scheduled' = FALSE
  /\ UNCHANGED <<environment, step, degraded, caches, outcome, reauth, seen>>

\* Mutant: the marks of the previous poll stay.
BeginPollKeepsDegraded ==
  /\ entry = "loaded" /\ phase = "idle"
  /\ phase' = "hwinfo" /\ step' = 1
  /\ fetched' = Nothing
  /\ scheduled' = FALSE
  /\ UNCHANGED <<environment, entry, degraded, caches, outcome, reauth, seen>>

\* The first statement of _async_update_data: nothing is degraded yet.
BeginPoll ==
  /\ entry = "loaded" /\ phase = "idle"
  /\ phase' = "hwinfo" /\ step' = 1
  /\ fetched' = Nothing /\ degraded' = {}
  /\ scheduled' = FALSE
  /\ UNCHANGED <<environment, entry, caches, outcome, reauth, seen>>

TimerPoll == scheduled /\ BeginPoll

\* async_request_refresh of a button, a switch or a service.
RequestedPoll == BeginPoll

-----------------------------------------------------------------------------
(* The end of a refresh.  A first refresh that fails ends the setup: for   *)
(* ConfigEntryAuthFailed until the user reauthenticates, else until Home   *)
(* Assistant retries it.                                                   *)

EndPoll ==
  /\ phase' = "idle" /\ step' = 1
  /\ fetched' = Nothing

\* Mutants of _handle_update_failure: missed polls are forgiven once too
\* often, or not counted up.
UpdateFailureAs(missed, allowed) ==
  LET grace == hasValid /\ missed <= allowed
  IN  /\ reachable' = FALSE
      /\ failures' = missed
      /\ updateOk' = grace
      /\ data' = IF grace THEN Filter(lastValid) ELSE data
      /\ entry' = IF entry = "loading" /\ ~grace THEN "not_loaded" ELSE entry
      /\ scheduled' = (entry' = "loaded")
      /\ EndPoll
      /\ UNCHANGED <<environment, degraded, caches, hasValid, lastValid, reauth, seen>>

ForgivesOnceMore ==
  UpdateFailureAs(IF failures > MaxFailures THEN failures ELSE failures + 1,
                  MaxFailures + 1)

NeverCountsUp == UpdateFailureAs(1, MaxFailures)

\* _handle_update_failure: within the grace window, serve _last_valid_data.
HandleUpdateFailure ==
  LET missed == IF failures > MaxFailures THEN failures ELSE failures + 1
      grace == hasValid /\ missed <= MaxFailures
  IN  /\ reachable' = FALSE
      /\ failures' = missed
      /\ updateOk' = grace
      /\ data' = IF grace THEN Filter(lastValid) ELSE data
      /\ entry' = IF entry = "loading" /\ ~grace THEN "not_loaded" ELSE entry
      /\ scheduled' = (entry' = "loaded")
      /\ EndPoll
      /\ UNCHANGED <<environment, degraded, caches, hasValid, lastValid, reauth, seen>>

\* An OMVAuthError becomes ConfigEntryAuthFailed: a reauth flow starts, no
\* further poll is scheduled, and nothing else of the coordinator changes.
HandleAuthFailure ==
  /\ updateOk' = FALSE
  /\ entry' = IF entry = "loading" THEN "auth_failed" ELSE entry
  /\ scheduled' = FALSE /\ reauth' = TRUE
  /\ EndPoll
  /\ UNCHANGED <<environment, degraded, caches, hasValid, lastValid,
                 failures, reachable, data, seen>>

\* Mutant: a successful poll does not reset the failures.
PublishKeepsFailures ==
  /\ phase = "fetching" /\ step = Len(Plan) + 1
  /\ hasValid' = TRUE /\ lastValid' = fetched
  /\ reachable' = TRUE
  /\ data' = Filter(fetched)
  /\ updateOk' = TRUE
  /\ entry' = "loaded"
  /\ scheduled' = TRUE
  /\ EndPoll
  /\ UNCHANGED <<environment, degraded, caches, failures, reauth, seen>>

\* The poll's last statements, and the refresh that receives its result.
Publish ==
  /\ phase = "fetching" /\ step = Len(Plan) + 1
  /\ hasValid' = TRUE /\ lastValid' = fetched
  /\ failures' = 0
  /\ reachable' = TRUE
  /\ data' = Filter(fetched)
  /\ updateOk' = TRUE
  /\ entry' = "loaded"
  /\ scheduled' = TRUE
  /\ EndPoll
  /\ UNCHANGED <<environment, degraded, caches, reauth, seen>>

-----------------------------------------------------------------------------
(* The RPCs of a poll.                                                     *)

HwinfoOk ==
  /\ phase = "hwinfo" /\ health \in {"up", "flaky"}
  /\ phase' = "fetching"
  /\ UNCHANGED <<environment, entry, step, fetched, degraded, caches, outcome,
                 timing, seen>>

HwinfoFails ==
  /\ phase = "hwinfo" /\ health \in {"flaky", "down"}
  /\ HandleUpdateFailure

HwinfoRejected ==
  /\ phase = "hwinfo" /\ health = "rejecting"
  /\ HandleAuthFailure

\* Any other exception while the answers are normalized.
UnexpectedError ==
  /\ phase = "fetching" /\ health = "flaky"
  /\ HandleUpdateFailure

FetchNext(c) ==
  /\ phase = "fetching" /\ step <= Len(Plan)
  /\ c = Plan[step]
  /\ step' = step + 1

\* Between two due times the cached records stand in for the RPC.
FetchFromCache(c) ==
  /\ FetchNext(c)
  /\ c \in Cached /\ age[c] < Interval
  /\ fetched' = [fetched EXCEPT ![c] = cache[c]]
  /\ UNCHANGED <<environment, entry, phase, degraded, caches, outcome,
                 timing, seen>>

Due(c) == c \in Cached => age[c] >= Interval

Remember(c, answer) ==
  IF c \in Cached
  THEN cache' = [cache EXCEPT ![c] = answer] /\ age' = [age EXCEPT ![c] = 0]
  ELSE UNCHANGED caches

FetchOk(c) ==
  /\ FetchNext(c) /\ Due(c)
  /\ health \in {"up", "flaky"}
  /\ fetched' = [fetched EXCEPT ![c] = omv[c]]
  /\ Remember(c, omv[c])
  /\ seen' = [seen EXCEPT ![c] = omv[c]]
  /\ UNCHANGED <<environment, entry, phase, degraded, outcome, timing>>

\* Mutants: every failed fetch is recorded; a failed core fetch is cached.
FetchFailsRecordsAll(c) ==
  /\ FetchNext(c) /\ Due(c)
  /\ health # "up"
  /\ fetched' = [fetched EXCEPT ![c] = {}]
  /\ degraded' = degraded \cup {c}
  /\ UNCHANGED <<environment, entry, phase, caches, outcome, timing, seen>>

FetchFailsCachesAll(c) ==
  /\ FetchNext(c) /\ Due(c)
  /\ health # "up"
  /\ fetched' = [fetched EXCEPT ![c] = {}]
  /\ degraded' = IF c \in Core THEN degraded \cup {c} ELSE degraded
  /\ Remember(c, {})
  /\ UNCHANGED <<environment, entry, phase, outcome, timing, seen>>

\* A core failure is recorded and not cached; an optional one is neither
\* recorded nor, for SMART, kept out of the cache.
FetchFails(c) ==
  /\ FetchNext(c) /\ Due(c)
  /\ health # "up"
  /\ fetched' = [fetched EXCEPT ![c] = {}]
  /\ IF c \in Core
     THEN degraded' = degraded \cup {c} /\ UNCHANGED caches
     ELSE UNCHANGED degraded /\ Remember(c, {})
  /\ UNCHANGED <<environment, entry, phase, outcome, timing, seen>>

Fetch == \E c \in Collections : FetchFromCache(c) \/ FetchOk(c) \/ FetchFails(c)

RefreshEnds == HwinfoFails \/ HwinfoRejected \/ UnexpectedError \/ Publish

Next ==
  \/ ResourceChanges \/ HealthChanges \/ Tick
  \/ StartSetup \/ Connected \/ ConnectFails \/ Unload
  \/ TimerPoll \/ RequestedPoll
  \/ HwinfoOk \/ Fetch
  \/ RefreshEnds

Spec == Init /\ [][Next]_vars

-----------------------------------------------------------------------------
(* The promise to the entities, and how the coordinator's state maps to it. *)

Feed ==
  CASE entry # "loaded" -> "absent"
    [] entry = "loaded" /\ ~updateOk -> "down"
    [] entry = "loaded" /\ updateOk /\ failures = 0 -> "live"
    [] OTHER -> "held"

Missed == IF entry = "loaded" THEN failures ELSE 0

Grace == INSTANCE GraceWindow WITH feed <- Feed, missed <- Missed

-----------------------------------------------------------------------------
(***************************************************************************)
(* Properties.                                                             *)
(***************************************************************************)

\* Issue #82: available entities show the last successful poll's data, as the
\* selection lets it through, and never beyond MaxFailures failed polls.
\* (HeldDataIsLastValid: _handle_update_failure and the end of a poll.)
HeldDataIsLastValid ==
  entry = "loaded" /\ updateOk =>
    /\ failures <= MaxFailures
    /\ hasValid
    /\ data = Filter(lastValid)

\* The refresh that just ended claims a complete inventory.
ClaimsComplete ==
  /\ entry = "loaded" /\ phase = "idle"
  /\ updateOk /\ reachable /\ degraded = {}

\* Issue #118: what a refresh publishes as complete is, for every core
\* collection, what the appliance answered last, whether this poll asked it or
\* took the answer from a cache; no swallowed failure passes for an empty
\* inventory.  (degraded_collections, and the caches that keep no failed fetch.)
VerifiedInventory ==
  ClaimsComplete => \A c \in Core : data[c] = seen[c] \cap Selected[c]

\* A poll that goes on although core RPCs failed marks exactly what it lost: until
\* the next poll, every core collection is empty and marked, or unmarked and what
\* the appliance answered last.  (What _async_update_data stores as
\* _last_valid_data, holes included, and serves again in the grace window.)
MarksAreExact ==
  entry = "loaded" /\ phase = "idle" /\ updateOk /\ reachable =>
    \A c \in Core :
      data[c] = IF c \in degraded THEN {} ELSE seen[c] \cap Selected[c]

\* Issue #82, liveness: an appliance that stays down makes the entities
\* unavailable, they do not stay frozen on cached data.
DownIsNoticed ==
  <>[](health = "down") => <>[](~(entry = "loaded" /\ updateOk))

\* The entry waits for the user.
LeftToUser == reauth \/ entry = "setup_error"

\* An appliance that stays up is always shown completely again, unless an
\* earlier failure left the entry to the user.  (The retry of failed polls and
\* setups, and the counters and degraded marks that they reset.)
UpIsShown ==
  <>[](health = "up") => []<>(ClaimsComplete \/ LeftToUser)

\* The coordinator keeps the grace window's promise.  (Every way a refresh
\* ends, the setup and the unload, against GraceWindow.)
KeepsGrace == Grace!Spec
=============================================================================
