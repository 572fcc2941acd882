# A TLA+ model of the OpenMediaVault integration for Home Assistant

This directory is a verification project for the custom integration in
`src/custom_components/omv`: TLA+ modules translated from its Python source, TLC
configurations that check them on small instances, and theorems that the TLA+
proof system checks for every instance. `PROJECT.json` lists components, runs,
mutants, the source lines of every definition, findings, hazards and theorems.

## The system

A Home Assistant *config entry* stands for one OMV appliance.

| part | source | state it keeps | operations |
|---|---|---|---|
| client | `omv_api.py`, `exceptions.py` | HTTP session, OMV session id, login cookie, TOTP secret, one lock | connect, two-factor code, call (retries, backoff, relogin), close |
| TOTP | `totp.py` | none | code of a window |
| coordinator | `coordinator.py` | data, caches with their ages, last valid data, failure count, degraded marks | poll, filter, normalize, commands |
| entry | `__init__.py`, `session_handoff.py`, `config_flow.py` | entry state, hand-off table, flow | setup, unload, reload on options, reauth, reconfigure, remove |
| registry clean-up | `__init__.py` | Home Assistant's entity and device registries | prune what `coordinator.data` does not list |
| system update | `update.py`, `repairs.py`, `button.py` | apt background processes, repair issue | install, reboot, apply configuration |
| commands | `button.py`, `switch.py`, `services.py` | optimistic state | container, compose, VM, cron, rsync, scrub |
| entities | `sensor*.py`, `binary_sensor*.py`, `entity.py` | none of their own | read `coordinator.data` |
| the rest | `wol.py`, `diagnostics.py`, `const.py` | none | |

**How they interact.** Everything runs on one asyncio event loop, so code between
two awaits is atomic and every RPC is an await. All RPCs of an entry go through
one client. The coordinator polls on a timer, and once more when a button,
switch or service asks for it. A poll that ends updates listeners: the entities, the
registry clean-up and the reboot repair. A flow that has authenticated hands its
client to the setup that follows it.

**What is hard**, and where a unit test hardly reaches (`hazards` in
`PROJECT.json`, each at its line):

- partial failure: all RPCs but the first swallow their errors and leave an empty
  collection, in a poll that succeeds;
- staleness: caches per SMART interval, last valid data, marks that are cleared at
  the start of a poll and read after its end;
- ordering and interleaving: listeners updated outside a poll, closing a client that
  is in use, reloads caused by two parties;
- timeouts and retries: answers lost after the call was executed, sessions that
  expire during a call, TOTP windows;
- liveness: recovery, noticing that the appliance is down, removing what is gone.

**What makes each part correct.** *Client*: a call is executed again only if its answer
was lost; an authentication failure means that the credentials were refused; every call ends;
a closed client stays closed. *Coordinator*: what available entities show is the
last successful poll's data and never older than the grace window; a complete
inventory is complete. *Clean-up*: it removes nothing that still exists, and in the end
everything that does not. *Entry*: a reload keeps the session it was given; the
newest credentials win (the code keeps neither promise when the update listener crosses a flow's
reload: findings 3 and 4). *System update*: no reboot with unapplied changes, one
step at a time.

## The modules

| module | what it is |
|---|---|
| `GraceWindow` | abstract: the feed that entities are promised (absent, live, held, down) and how many misses it survives |
| `Coordinator` | the polling cycle of `coordinator.py`, and the entry's setup and unload as it sees them |
| `Registry` | extends `Coordinator` with the registries and the clean-up of `__init__.py` |
| `RpcPromise` | abstract: what a caller of `async_call` may rely on |
| `OmvApi` | the client of `omv_api.py` with several tasks on its lock |
| `EntryLifecycle` | config flow, hand-off, setup, unload, reload, update listener, removal, restart |
| `SystemUpdate` | install, reboot and apply buttons, reboot repair |
| `Commands` | commands of switches, buttons and services; optimistic state |
| `Records`, `Storage`, `ComposeData` | the normalizers, as operators on sequences of records |
| `Selection` | extends them with the options form and the filter |
| `Entities` | extends that with what the platforms create and what the clean-up expects |
| `Inventory` | extends that with the polls, setups, saved forms and the upgrade of one entry |
| `CoordinatorProofs`, `RegistryProofs`, `OmvApiProofs`, `EntryLifecycleProofs`, `CommandsProofs`, `SystemUpdateProofs`, `InventoryProofs` | theorems |
| `SequenceFacts` | lemmas about queues that several of them use |
| `MC...` | instances for TLC |

The state machines meet in these places: `Registry` is `Coordinator` with listeners (and its
behaviours are proved to be the coordinator's); `Inventory` runs the clean-up of `Registry` on
actual records, with polls that succeed; `EntryLifecycle` uses clients whose inside `OmvApi`
models, with the three outcomes that a call can have there; `Commands` and `SystemUpdate` have the
same poll and debouncer, on which they depend in different ways. One module with all of it would have far
too many states, and each of these interfaces is small.

### Coordinator and Registry

An inventory is the set of the resources that a collection lists, and a collection
is *core* or optional (is its failure recorded in `_degraded_collections`?) and
*cached* or not (is it fetched once per `CONF_SMART_INTERVAL`?). `Plan` is the order
of a poll's RPCs. That is all the source distinguishes when it fetches, so the four kinds
stand for all collections:

| | cached | not cached |
|---|---|---|
| core | filesystem, disk | service, network |
| optional | SMART | compose, KVM, ZFS, cron, rsync, NUT, ... |

| definition | code |
|---|---|
| `BeginPoll` | `_async_update_data` up to its first await; clears the degraded marks |
| `HwinfoOk`, `HwinfoFails`, `HwinfoRejected` | `System.getInformation`, the only RPC whose error ends a poll (`_HWINFO_REFRESH_MULTIPLIER` is 1, so every poll makes it) |
| `FetchFromCache`, `FetchOk`, `FetchFails` | the `_fetch_or_empty` / `_fetch_optional` calls and the three caches |
| `Publish`, `HandleUpdateFailure`, `HandleAuthFailure`, `UnexpectedError` | the ends of a poll |
| `StartSetup`, `Connected`, `ConnectFails`, `Unload` | `async_setup_entry` (with and without a handed-over session), `async_unload_entry` |
| `Kept` | `_async_cleanup_stale_registry_entries` |
| `FirstRefreshEnds`, `LaterRefreshEnds`, `RebootNotifies` | the places where it runs |

`seen` is a history variable: the appliance's last successful answer for each
collection. "What exists" means `seen` in the properties, since a resource may vanish
between two polls without anybody's fault.

External parts, modelled from how the code uses them: the appliance answers (`up`),
sometimes fails (`flaky`), never answers (`down`) or rejects the credentials
(`rejecting`), and changes between these at any time; Home Assistant
schedules the next poll after each one except after `ConfigEntryAuthFailed`, which
starts a reauth flow instead; it retries a setup after `ConfigEntryNotReady` and
not after any other exception; it updates the listeners unless a poll fails for the second time
in a row; it starts tasks eagerly, so the clean-up, which awaits nothing,
runs in the step that triggers it.

### OmvApi

Each task that calls has a record: where it waits, the attempt, the session token that its request
carries. A step is what a task does from one await to the next. The lock is the sequence of its holder
and waiters, as `asyncio.Lock` is first come, first served. The appliance is nondeterminism: a
request is answered, answered with an error, executed without an answer
getting through, or not answered at all (`_REQUEST_TIMEOUT`); a password is accepted,
rejected, or answered by a TOTP challenge, whose pending login is bound to the session cookie
(`PendingLogin`) and may be forgotten; sessions expire. `Skew` is the TOTP window
of the appliance's clock relative to Home Assistant's. `AutoDetach` is Home
Assistant's clean-up of the sessions of an unloaded entry. `executed`, `lost`, `logins`
and `excuse` are history.

### EntryLifecycle

| definition | code |
|---|---|
| `SubmitForm`, `SubmitTotp`, `FinishFlow`, `FlowAborts`, `FlowAbandoned` | `config_flow.py`: the user, reauth and reconfigure steps, the TOTP step, `_finish_flow` and its unique-id checks |
| `pending` | `session_handoff._pending` of the entry's unique id |
| `SetupStarts`, `SetupConnects`, `FirstRefresh`, `SetupFails` | `async_setup_entry`, between its awaits, on a handed-over or on an own client |
| `Unloaded`, `UnloadEnds` | `async_unload_entry`, which spares the client that waits in the hand-off |
| `Notified`, `ListenerEnds` | `_async_update_listener`: started by any update of the entry, asks its client, hands it over, asks for a reload |
| `StartReload`, `RetrySetup`, `RemoveEntry`, `Restart` | Home Assistant's side of the entry |

A client is reduced to what these steps tell apart: which version of the settings it logs in
with, whether it has a TOTP secret, whether its HTTP session is open and will be detached with the entry, and whether
it is logged in. With `TwoFactor`, only a client with a secret can log in without a human. `blame`, `crossed` and `stale`
are history. `blame`: since the last flow the appliance, the network, a restart or a manual reload may have cost the session. `crossed`: a
listener has ended while another reload waited or ran, or after a reload had replaced the client it asks (`Crosses`). `stale`: a listener has
handed over a client whose settings were no longer the newest. The two properties of the passing run say that nothing else
costs a session or brings back old settings; the two violation runs show that these do.

### SystemUpdate and Commands

Both have the coordinator's poll in three steps (begun, what it reads first is read, published) and Home Assistant's
debouncer of `async_request_refresh` (it swallows a request while a poll of its own runs, and holds one back while
it cools down). That is where stale data come from: a decision is made on a hwinfo, a container's id
or a switch's state that a poll read before something else happened.

`SystemUpdate`: three tasks (`async_install`, `async_press` of two buttons, `async_step_confirm` of the repair), each
a sequence of places between awaits; the background process of apt with its lock and its status file
(`_wait_for_bgproc`: success, failure, HTTP 500 for either, a file that is gone, and giving up after `_MAX_POLLS`;
the answer `running: false` is the same to the code as a file that is gone (`StatusGone`), and apt's calls are taken to answer with a file name, without which the code would not wait).
`outdated` is history: whose decision the appliance has meanwhile left behind.

`Commands`: the switch, the button and the service platform each have one call at a time (`PARALLEL_UPDATES = 1`, and one
service call stands for any), for a target bound at setup (`bound`), or resolved by name at the call (`Resolve`). `Compose` and
`compose` are tried in this order (`NextName`), and under each name the client repeats a call after an error of the
connection (`AfterBreak`; `MaxRetries` is `max_retries` of `async_call`). The outcome of a try is executed, executed with its answer lost, rejected,
or not connected. `lost`, `broken`, `done` and `current` are history.

### Inventory and the modules under it

The normalizers are pure, so they are operators: `Storage` (disks, md arrays from three sources, filesystems and the
disks they are matched to by device, by name or by size, metrics, ZFS pools and datasets), `ComposeData` (containers, docker inspect,
projects and their totals, volumes), `NormalizeInventory` (the order in which `_async_update_data` applies them). `Selection` has
`build_inventory`, the form's defaults and `filter_data_by_selection`; `Entities` has, platform by platform, the loops that
create entities and, separately, the loops of `get_expected_...` that the clean-up relies on. `Inventory` puts them in motion:
the appliance's answers change, a poll normalizes and filters them and runs the clean-up, a form is saved and the entry set up again, and
the first setup after an upgrade migrates the containers' entities (`RegisteredBySetup`). A registry entry remembers whether the
user has customized it, which a removed and recreated one has not.

## The runs

| run | bounds | shows |
|---|---|---|
| `registry` | one resource; a cached core and an uncached optional collection; interval 2; 2 tolerated failures; fairness | `HeldDataIsLastValid`, `VerifiedInventory`, `MarksAreExact`, `PrunesOnlyVerified`, that `Coordinator` implements `GraceWindow`, and the liveness properties `GoneIsPruned`, `DownIsNoticed`, `UpIsShown` |
| `omv_api` | two tasks; `max_retries` 0 or 2; clock one window behind; fairness | `NoFalseAlarm`, `LoginsAreBounded`, `EveryCallEnds`, and that `OmvApi` implements `RpcPromise` |
| `entry_lifecycle` | three clients at a time; two versions of the settings; one running listener, one waiting reload; an account with two factors; everything a user can do; fairness | `HandoffIsAccepted`, `SessionsAreReused`, `NewestSettingsRun`, `SecretIsKept`, `UpdatesTakeEffect` |
| `system_update` | an appliance with packages and a reboot due, or a reboot only; two polls of a status file; one change by others; two presses; fairness | `RebootsAreDue`, `StepsFollowSuccess`, `SuccessIsReal`, `InstallEnds`, `ViewSettles` |
| `commands` | a container, a machine, a project; a plugin with both names; one retry under each; one recreation; two events, each a command or a change by others; fairness | `RepeatedOnlyWhenLost`, `OutcomeIsTold`, `RefusedOnlyIfStale`, `SwitchesSettle` |
| `inventory` | fourteen appliances (see below); one change; one saved form; options stored never or in part; with and without an upgrade | `NoDuplicateEntities`, `DegradedIsTold`, `MembersStayBare`, `CreatedIsExpected`, `UntouchedFormKeepsAll`, `CountsAddUp`, `PruneNeedsLoss`, `UpgradeKeepsUnselected` |
| `registry_rejected` | two collections, both core; interval and tolerated failures 1 | finding 1 |
| `omv_api_closed` | as `omv_api` | finding 2 |
| `entry_second_code`, `entry_old_settings` | as `entry_lifecycle`, but two waiting reloads and reconfiguration only; with two factors and without | findings 3, 4 |
| `container_upgrade`, `tempmon_pruned` | as `inventory`, but with a selection stored by Docker ids, and without an upgrade | findings 5, 6 |

**Why the bounds are enough.** *Coordinator, registry*: resources do not interact, every operation is pointwise on an inventory, so one
resource that comes and goes shows what any number would, and the proofs
cover the rest. Two collections give the orders "fetched before the other failed" and "after", and each of the two attributes once;
the other two kinds, and plans of any length, are covered by the proofs of all but the liveness properties.
The counters that matter are compared with one bound each: two tolerated failures give a first, a last and one too
many; an interval of two ticks gives a cache that is fresh, ageing and due. The failure count is
capped at `MaxFailures + 1`, which the code's comparison cannot tell from larger
values. *Client*: two tasks give a holder and a waiter, and two retries a first and a last one; the proofs cover
the rest. *Entry*: the running client, the hand-off's (or the listener's) and the flow's are all that can differ at a time, so three
clients; with two versions of the settings an update can overtake another. A second listener or reload that waits is the first
situation again, one step later, and all but `UpdatesTakeEffect` is proved for any number. *System update*: two presses are a
task and one that overtakes it; `_MAX_POLLS` is compared with one counter, so two polls are a first and a last one. *Commands*: two
commands overlap as any two do; one retry gives a first and a last try (the program has three; the proofs cover any number); a target of each kind goes through its own path (jobs are machines without a switch). *Inventory*: an
array that MdMgmt calls clean, degraded or does not report; that the disk list shows by its members, as a record of its own or not at all; a disk
that is renamed; ZFS with nested and unmounted pools, NFS; projects one of whose names begins the other's, with labels, with
docker inspect only, or with neither; volumes mounted once, twice and by two containers; interfaces that are listed twice; empty
categories. One change reaches every pair of them, and properties speak of one poll or of one step; the proofs
cover all other answers.

**Fairness.** `RegistryFairSpec`: Home Assistant retries setups and fires timers, RPCs end
(the client bounds them), time passes. Nothing is assumed of the appliance or the user: the properties' own premises
say what the appliance does, and `LeftToUser` excepts the two outcomes that wait for a human
(reauthentication, and a setup that ended in an error Home Assistant does not
retry). `FairSpec` of `OmvApi`: the event loop runs the lock's holder, sleeps end, and requests are
answered or time out; callers need not call. `FairSpec` of `EntryLifecycle`: setups and unloads end, reloads that were asked for
run, and the request of a listener is answered or times out; nothing is assumed about its answer. `Fairness` of `SystemUpdate` and
`Commands`: the timer, the debouncer and the tasks go on, since all their awaits are bounded by the client; and a poll that is begun again and again
succeeds now and then (`SF_vars(Publish)`), without which the claim that a view settles would have no ground. Nothing is assumed of
apt, of errors or of users.

**Deadlock.** `CHECK_DEADLOCK FALSE` in the client's runs: a client that is closed and idle is at its end, and
`EveryCallEnds` is what excludes a deadlock among the callers. And in the runs of `Inventory`, which is about values and has no
fairness: every state has a poll, but a poll that changes nothing is a stuttering step, and the bounds use up the rest.

**Exceptions that properties name.** Each is what the code does, stated in the property rather than left out of the model:

- `SessionsAreReused`: a listener that crosses a reload (`crossed`). A reauth or reconfigure flow that changes the data of a loaded entry starts the
  update listener besides its own reload (`__init__.py:436`), so every such flow crosses once its listener has answered: that is finding 3. What the
  property still forbids is a second login in every other case: while the flow's reload is under way, after flows of an entry that is not loaded,
  after changed options, after a listener without an answer that meets no reload.
- `NewestSettingsRun`: a listener has handed over a client with older settings than the entry's (`stale`), finding 4.
- `CreatedIsExpected`, `PruneNeedsLoss`: the expected state of the sensors has no loop for TempMon, so the first later poll removes
  what the setup created: finding 6. A filesystem whose disk is renamed goes with the old disk's device and comes back at the next setup.
- `PruneNeedsLoss`: what it takes to be listed (`Present`). A disk that the disk list now calls virtual or a member of an array, an array whose
  own record there is not marked as one or names another one, the datasets once no pool is left, and, with a selection of projects, a container of which neither
  the list nor docker inspect tells the project any more are not shown, though an answer still names them.
- `NoDuplicateEntities`: a volume that one container mounts twice, in the fallback list.
- `DegradedIsTold`: a record of the disk list for the array itself, or a member that names it, hides what MdMgmt says.
- `UntouchedFormKeepsAll`: options of which only some categories were ever stored, since the form then offers the others unselected
  (`config_flow.py:523`) and no documentation promises otherwise; an entry that is not loaded offers nothing; what is shown while nothing is
  selected but is on offer in no field (`NotOffered`): members of an array (filtered as arrays, offered as disks), a ZFS filesystem that takes an array's
  metrics, the datasets of a pool that is mounted in another one.
- `CountsAddUp`: a container that neither the list nor docker inspect assigns, and whose name begins like another project's or not like its own:
  for such names (hazard H39's core) the code guesses, and nothing says what would be right.
- `MembersStayBare` speaks of filesystems that refer to an array. Filesystems that refer to nothing are matched by size with two tolerances
  (`MatchDiskBySize`); there is no statement of what these should match but the code, and so no property.
- `UpgradeKeepsUnselected`: a stored selection of containers (finding 5), and one of projects, which hides containers as well; volumes,
  whose ids end with the volume's name and are not migrated.

Some of these were found by proving: the second half of `NotOffered`, of the exception of `CountsAddUp` and of `UpgradeKeepsUnselected`, and
most of `Present` are cases in which the proof of a simpler property failed.

**Mutants.** Each property of a passing run has a mutant, an operator in the module that
changes a definition as a plausible bug would; it is named there and never used by the
specification itself.

## Findings

1. `registry_rejected`. A poll that loses part of the core inventory marks it; the next
   poll clears the mark, is rejected by the appliance, and raises `ConfigEntryAuthFailed` with `reachable`
   still true. The listeners are updated, and the clean-up prunes the missing part although it was never verified.
   The same data is pruned if the update entity or the reboot repair calls `async_update_listeners` between the start of the next
   poll and its end (`RebootNotifies`). Collections of `_fetch_optional` have no mark at all: a failed RPC removes their entries. That is
   in the model, and not counted as a finding, since the documented promise speaks of core RPCs.
2. `omv_api_closed`. `async_close` does not stop calls that are queued or backing off;
   one of them opens a new HTTP session and logs in, and nothing closes that session.
3. `entry_second_code`. A reconfiguration (or reauthentication) of a loaded entry hands over the client that a human has just verified and asks for a
   reload; the changed data also start the update listener, which asks the old client and hands that over instead. The unload closes the one that is
   not handed over, so the human is asked for a second code, which `CHANGELOG.md:181` says no longer happens.
4. `entry_old_settings`. If the listener answers after the flow's reload has taken the new client, its own reload runs the old client and closes
   the new one. The entry is loaded, nothing is outstanding, and it talks to the appliance with the settings that were replaced.
5. `container_upgrade`. The migration of the containers' entities from Docker ids to names reads `coordinator.data`, which the stored selection
   has already filtered. A selection that an older version stored lists Docker ids, so no container passes, nothing is migrated, and the clean-up
   that follows removes every container's entities with the user's settings.
6. `tempmon_pruned`. The expected state of the sensors does not list TempMon, so the entities that a setup creates are removed by the first later poll, although
   the sensors are still measured; they come back with the next setup, for one poll.

## What is proved

Each theorem holds for every value of the constants that the modules' named assumptions allow; the runs
show the same properties on their instances, and evaluate the assumptions.

**Coordinator and registry** (a plan fetches each collection once; `Interval` positive):

- `TypeCorrect`: `TypeOK` is inductive.
- `HeldDataCorrect`: `HeldDataIsLastValid` is inductive by itself: only `Publish` and
  `HandleUpdateFailure` write what it is about.
- `InventoryIsVerified`: `VerifiedInventory` speaks of the end of a poll and is not inductive. `InventoryInv`
  adds what holds on the way: `CachesAreSeen` (a core cache that is not due holds the appliance's last answer, since
  no failed fetch is cached), `FetchedIsSeen` (so does everything fetched in this poll and not marked), and
  `PollShape` (a poll's fetches start at the first collection). A collection is fetched once per poll, so a later
  fetch cannot make an earlier one stale: this is where `PlanIsOnce` is needed.
- `MarksExact`: `MarksAreExact` says that what a poll with swallowed failures leaves behind, and the grace window serves, is the
  appliance's last answer except where it is marked. `MarkedIsLost` follows a mark from the failed fetch to the published data.
- `GraceIsKept`: every step of the coordinator is a step of `GraceWindow` or leaves its variables alone. The lemma
  `ValidShape` says that a loaded entry has valid data and a loading one has none.
- `RegistryFollowsCoordinator`, `PruningIsVerified`: the registry's steps are the coordinator's, and
  the clean-up's guard together with `VerifiedInventory` gives the action property.

**Client** (any number of callers, retries and skew): `TypeCorrect`, `AlarmsAreTrue`, `PasswordsAreBounded`, `PromiseKept`.
The invariant is `ApiInv`: `CallInv` counts, for each place where a call may wait, its executions, lost answers and logins against its attempts
(the type bounds of `executed` and `logins` depend on it) and says what an authentication failure has been preceded by; `LockInv` says that only
the first in the lock has gone on, and that nobody is in it twice; `StageInv` that a first login, which takes no lock, is alone with its client;
`SidInv` that no login has replaced another's pending session. The last three together make a login alone (`AloneAtLogin`), so a right code is rejected only
if the appliance forgot the login. For each action a lemma shows `Sound(c)`: what the step makes of the call's record, of the lock, of the
session and of the tally that `RpcPromise` sees; `SoundKeeps` derives the invariant and `SoundPromise` the step of `RpcPromise`.

**Entry** (any number of clients that leaves room for the listeners', settings and reloads): `TypeCorrect`, `HandoffsAreAccepted`, `SecretsAreKept`,
`SessionsReused`, `NewestRun`. `EntryInv` adds to the types that every client in use (not only the one handed over) has accepted settings, `AcceptedInv`; that
the flow's client is nobody else's and at most one version ahead, `FlowInv`; and that an absent entry stores no secret, `DataInv`. `Room` is why a
setup always finds an unused object. `ReuseInv` is the invariant of the last two theorems:

- `NewestInv`: unless a listener has handed over older settings, the client of the next setup (the hand-off's, or the running one if nothing is handed
  over) has the newest; with `PendingInv` (a hand-off waits for a reload that was asked for) this is `NewestSettingsRun`;
- `CalmInv`: as long as nothing happened that excuses a login and no listener crossed a reload, the entry either rests on a client that a setup could reuse (`Resting`) or is being
  set up anew with such a client in the hand-off (`Changing`). There is no third case, which is why no alarm can be needless; `FreshInv` and
  `LoadedInv` say the same of a flow's client and of one that lost its session.

**System update**: `TypeCorrect`, `SuccessHolds`, `RebootsDue`, `SuccessFollowed`. `SUInv` adds `InstallInv` (what the install's place says of its
step, its status file and its outcome) and `Knowledge` (what a poll or a task has read is what the appliance was, unless it is marked outdated),
which is what ties a decision, made on old data, to its execution.

**Commands** (any targets, ids, plugin and number of retries): `TypeCorrect`, `OutcomesAreTold`, `RepetitionsAreExcused`, `RefusalsAreStale`. `CommandsInv` adds
what the stage of a call says of its history (under each name at most one execution per try, so at most `2 * (MaxRetries + 1)` in all, which
is the bound in `TypeOK`), and whose id it carries.

**Inventory** (any answers of the appliance, any stored options): `TypeCorrect`, `EntitiesAreUnique`, `CleanUpExpectsWhatIsCreated`, `DegradedArraysAreTold`,
`ArraysKeepTheirFilesystems`, `TotalsAreRight`, `UntouchedFormsAreHarmless`, `UpgradesKeepSettings`, `PruningNeedsLoss`. The assumptions are about answers: the fields have
their types (`IsAnswer`); the kernel, docker and ZFS give a name once (`KeepsNamesApart`: two md arrays, two mounted filesystems, two containers or two
datasets do not share one); OMV and docker inspect say the truth about a container's project or nothing (`TellsOwners`); and
a filesystem on an array refers to no other storage (`NamesOneStorage`). Disks and interfaces may be listed twice, as OMV does.

What a normalizer does to a list would be an induction over the list, which the prover cannot do. `Records` therefore defines filtering and removing duplicates in
closed form: `Where` and `Distinct` are `At(s, S)`, the elements at the places `S` in order, and `InOrder` enumerates a finite set by counting. Cardinality
theorems then give what every use needs (`InOrderProperties`, `AtOfSeq`, `DistinctOfSeq`): the length, that each element is one of the places,
that each place is taken once and in order.

- `ServedAlways` is the base: `ServedInv` says that a loaded entry shows the normalized and filtered answers of its last poll, under the options it was
  set up with. All the rest but the last two is about these operators.
- `EntitiesAreUnique`: `Shape` says what the normalizers and the filter guarantee about a served inventory (keys are unique in each collection, except pools, networks and arrays, whose
  platforms look for what they have seen). `Classified` says which collection an entity's kind comes from, and no two collections
  share a kind; within one, the key determines the record and the record the entity.
- `CleanUpExpectsWhatIsCreated`: `CreatedMembers` and `ExpectedMembers` bring both lists of loops into one first-order form, row by row.
- `DegradedArraysAreTold`: the record that decides on an array's health is its first, and comes from the disk list, from MdMgmt or from a filesystem, in this order (`FromDiskList`,
  `FromMd`, `FromFilesystem`); an array that MdMgmt reports is never left to a filesystem.
- `ArraysKeepTheirFilesystems`: every array that a filesystem refers to is among the disks by the time filesystems are matched, and `NamesOneStorage` leaves
  nothing else to match.
- `TotalsAreRight`: a container's project survives three passes (list, inspect, name) only as its owner or as nothing, unless its name misleads (`Misleads`).
- `UntouchedFormsAreHarmless`: the untouched form selects everything on offer, so each filter lets through what is on offer (`Covers`, `ShowsAll`), and
  what is not on offer is `NotOffered`; the one thing that changes is which ZFS filesystems count, which creates no entity.
- `UpgradesKeepSettings`: `UpgradeInv` adds that registered entities of containers sit on a device of their own (`ContainersOwn`); the migration then gives
  them exactly the ids that the platforms create, and the clean-up keeps them.
- `PruningNeedsLoss`: `RegisteredFrom` says that every registered entity was created from some answers of the appliance under the selection
  that is still stored. `Origin` tells from the entity's kind which record it was made of, and so that its key passes the selection; one `Kept...` lemma for each
  collection then follows the record of the new answers through normalizers, filter and `Expected`, and does the same for the device.

**Only model-checked.** Everything about liveness (out of the prover's reach, as is `ENABLED`): `GoneIsPruned`, `DownIsNoticed`, `UpIsShown`,
`EveryCallEnds`, `UpdatesTakeEffect`, `InstallEnds`, `ViewSettles`, `SwitchesSettle`.

## Not modelled

- Of the client: a challenge of a kind other than TOTP, and 401/403 with an RPC error in the body, are not told apart from the refusals that
  are modelled; HTTP 500 and above counts as a lost answer. No property turns on it.
- The gate `omv_version >= 7` on MdMgmt and a failure of that call: the inventory is normalized with its answer. Failing RPCs are
  `Coordinator`'s subject.
- Services, machines, TempMon sensors and jobs are sets of keys, so the appliance lists each of them once; the statuses of an array are those that the
  properties tell apart; the order of projects is not kept (the shortest name that fits is the first in sorted order).
- References of a service call that no record has (`ServiceValidationError`), and what `apply_config` does besides SystemUpdate's button.
- The code of a TOTP window (HMAC over bytes), the login-notification cookie and its file, the wording of requests.
- What a sensor shows of its record: units, conversions, attributes, names; one stateless function per description.
- Of the polls: rates of network interfaces, GPU data, SMART attributes and the permanent skipping of disks without them. Of services, machines, rsync and cron jobs
  only the keys.
- Waiting for a scrub by its `Exec` output; shutdown, standby and Wake on LAN, which send one call or packet and keep no state.
- Registration of devices beyond their identifiers, diagnostics, constants, translations, and the script that compares RPC names.
