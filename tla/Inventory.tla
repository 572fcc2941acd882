------------------------------ MODULE Inventory ------------------------------
(***************************************************************************)
(* One loaded entry over changing answers of the appliance: what a poll    *)
(* makes of them (_async_update_data), which entities a setup creates and  *)
(* the clean-up keeps (__init__.py), and what the options form stores.     *)
(*                                                                         *)
(* A poll is one step and succeeds here; Coordinator and Registry model    *)
(* its failures.  A registry entry is an entity's unique id, its device    *)
(* and whether the user has given it a name or a state of its own (custom) *)
(* that a new entry would not have.  Home Assistant removes the entities   *)
(* of a device together with it.                                           *)
(***************************************************************************)
EXTENDS Entities

CONSTANTS
  Appliances,   \* the answers that the appliance may give
  StoredBefore, \* what an earlier version may have stored in entry.options
  Upgrades,     \* the entry may have been created by a version before 2.7
  MaxChanges,   \* bound: changes of the appliance
  MaxSaves      \* bound: submitted options forms

\* The records of OMV's answers, as far as the normalizers read them.
References == [prefix : STRING, name : Devices]
DiskRecords ==
  [ref : References, israid : BOOLEAN, virtual : BOOLEAN, status : STRING,
   array : MdDevices \cup {None}, size : Nat, values : SUBSET STRING]
ArrayRecords == [ref : References, state : STRING, members : SUBSET Devices, size : Nat]
FilesystemRecords == [uuid : STRING, type : STRING, size : Nat, refs : Seq(References)]
PoolRecords == [key : STRING, mount : Seq(STRING), values : SUBSET PoolValues]
DatasetRecords == [path : Seq(STRING), type : STRING]
Names == Seq(STRING)
ContainerRecords ==
  [name : Names, owner : Names, label : Names, inspect : Names, mounts : Seq(STRING),
   running : BOOLEAN, values : SUBSET ContainerValues]
InterfaceRecords == [uuid : STRING, type : STRING, wol : BOOLEAN]
Sensors == [uuid : STRING, currenttemp : STRING]

IsAnswer(a) ==
  /\ a.disks \in Seq(DiskRecords) /\ a.md \in Seq(ArrayRecords)
  /\ a.fs \in Seq(FilesystemRecords)
  /\ a.pools \in Seq(PoolRecords) /\ a.datasets \in Seq(DatasetRecords)
  /\ a.containers \in Seq(ContainerRecords) /\ a.volumes \in Seq(STRING)
  /\ a.files \subseteq Names /\ IsFiniteSet(a.files)
  /\ a.networks \in Seq(InterfaceRecords) /\ a.tempmon \subseteq Sensors
  /\ a.services \subseteq STRING /\ a.vms \subseteq STRING
  /\ a.rsync \subseteq STRING /\ a.cron \subseteq STRING

\* The kernel, docker and ZFS keep apart the names that they give.
KeepsNamesApart(a) ==
  /\ \A i, j \in DOMAIN a.md : a.md[i].ref.name = a.md[j].ref.name => i = j
  /\ \A i, j \in DOMAIN a.fs : a.fs[i].uuid = a.fs[j].uuid => i = j
  /\ \A i, j \in {k \in DOMAIN a.datasets : a.datasets[k].type \in {"Filesystem", "Volume"}} :
       a.datasets[i].path = a.datasets[j].path => i = j
  /\ \A i, j \in DOMAIN a.containers : a.containers[i].name = a.containers[j].name => i = j

\* What OMV and docker inspect say of a container's project is true, though
\* either may say nothing.
TellsOwners(a) ==
  /\ NoProject \notin a.files
  /\ \A c \in ToSet(a.containers) :
       c.label \in {c.owner, NoProject} /\ c.inspect \in {c.owner, NoProject}

\* What a filesystem refers to is one device, its parent or no storage at all: a
\* filesystem on an array names no other array and no disk.
NamesOneStorage(a) ==
  LET arrays == {FindLogicalStorageReference(r) : r \in ToSet(a.fs)} \ {None}
      storage == {d.ref.name : d \in ToSet(a.disks)} \cup {m.ref.name : m \in ToSet(a.md)}
                   \cup arrays
  IN  \A r \in ToSet(a.fs) : FindLogicalStorageReference(r) # None =>
        \A i \in DOMAIN r.refs :
          r.refs[i].name \in storage => r.refs[i].name = FindLogicalStorageReference(r)

ASSUME AppliancesAssumption ==
  \A a \in Appliances :
    IsAnswer(a) /\ KeepsNamesApart(a) /\ TellsOwners(a) /\ NamesOneStorage(a)
ASSUME StoredAssumption == \A stored \in StoredBefore : DOMAIN stored \subseteq Fields
ASSUME InventoryBounds == MaxChanges \in Nat /\ MaxSaves \in Nat
ASSUME UpgradesAssumption == Upgrades \in BOOLEAN

VARIABLES
  answers,      \* what the appliance answers now
  polled,       \* what it answered in the last poll
  source,       \* coordinator._inventory_source: everything of that poll
  data,         \* coordinator.data: what of it the selection lets through
  options,      \* the resource part of entry.options
  entry,        \* loading or loaded
  registered,   \* the registry entries of the config entry
  changes, saves

vars == <<answers, polled, source, data, options, entry, registered, changes, saves>>

-----------------------------------------------------------------------------

\* Mutant: filesystems reveal the arrays first.
NormalizeLogicalFirst(a) ==
  AugmentDisksWithMdDevices(
    AugmentDisksWithLogicalStorage(NormalizeDisks(a.disks), a.fs), a.md)

NormalizeStorage(a) ==
  AugmentDisksWithLogicalStorage(
    AugmentDisksWithMdDevices(NormalizeDisks(a.disks), a.md), a.fs)

\* The interfaces of the appliance, each once, without the loopback.
NormalizeNetwork(records) ==
  LET Real(r) == r.type # "loopback"
      Uuid(r) == r.uuid
  IN  Each(Distinct(Where(records, Real), Uuid), LAMBDA r : [key |-> r.uuid, wol |-> r.wol])

\* A sensor that is not measured now stays, without a temperature.
NormalizeTempmon(records) == {[key |-> r.uuid, measured |-> r.currenttemp # "-"] : r \in records}

\* Nut.getStats answers with a list if the plugin is not installed, with a
\* message if it is disabled, and else with lines of values.
NormalizeNut(answer) == IF answer = "values" THEN {"ups"} ELSE {}

\* _async_update_data, on all the answers of one poll.
NormalizeInventory(a, stored) ==
  LET disks == NormalizeStorage(a)
      fs == NormalizeFilesystems(a.fs, disks)
      listed == MergeComposeInspect(NormalizeCompose(a.containers),
                  SelectedValues(stored, "containers"), SelectedValues(stored, "projects"))
      projects == NormalizeComposeProjects(a.files, listed)
      compose == LinkComposeProjects(listed, projects)
      pools == NormalizeZfsPools(a.pools)
  IN  [disk |-> ApplyStorageMetrics(disks, fs), fs |-> fs, known |-> Keys(disks),
       raid |-> NormalizeRaids(disks), pools |-> pools,
       datasets |-> IF pools = <<>> THEN <<>> ELSE NormalizeZfsDatasets(a.datasets),
       compose |-> compose, projects |-> projects,
       volumes |-> NormalizeComposeVolumes(a.volumes, compose),
       summary |-> HasContainerService(a.services), services |-> a.services,
       networks |-> NormalizeNetwork(a.networks), tempmon |-> NormalizeTempmon(a.tempmon),
       nut |-> NormalizeNut(a.nut), vms |-> a.vms, rsync |-> a.rsync, cron |-> a.cron,
       host |-> a.host]

CronSelection == IF "cron" \in DOMAIN options THEN options["cron"] ELSE {}

-----------------------------------------------------------------------------
(* The registry.                                                           *)

\* Before issue #71 a container's key was its Docker id.
DockerId(name) == <<"id">> \o name

ContainerKinds == {"container_state", "container_switch", "container_restart"}

LegacyEntries(a) ==
  LET LegacyIds(c) ==
        {<<kind, DockerId(c.name)>> : kind \in ContainerKinds}
          \cup {<<"container_volume_size", <<DockerId(c.name), v>>>> : v \in ToSet(c.mounts)}
  IN  UNION {{[id |-> id, device |-> ContainerDevice(DockerId(c.name)), custom |-> TRUE]
                : id \in LegacyIds(c)} : c \in ToSet(a.containers)}

\* _async_migrate_container_registry_keys: the device of a container that is
\* shown gets the new key, and so do its entities whose id ends with the old one.
MigratedEntry(e, names) ==
  LET of == {n \in names : e.device = ContainerDevice(DockerId(n))}
      name == CHOOSE n \in of : TRUE
  IN  IF of = {} THEN e
      ELSE [e EXCEPT !.id = IF @[2] = DockerId(name) THEN <<@[1], name>> ELSE @,
                     !.device = ContainerDevice(name)]

Migrated(entries, shown) == {MigratedEntry(e, Keys(shown.compose)) : e \in entries}

\* _async_cleanup_stale_registry_entries.
CleanedUp(entries, shown, cron) ==
  LET ids == Expected(shown, cron)
      devices == ExpectedDevices(shown)
  IN  {e \in entries : e.id \in ids /\ e.device \in devices}

\* The platforms add their entities; an entry that exists is kept and moves to
\* the entity's device.
Added(entries, created) ==
  LET ids == {c.id : c \in created}
      custom == {e.id : e \in {f \in entries : f.custom}}
  IN  {e \in entries : e.id \notin ids}
        \cup {[id |-> c.id, device |-> c.device, custom |-> c.id \in custom] : c \in created}

\* Mutant: the clean-up goes first.
CleansUpBeforeMigration(shown, cron) ==
  Added(Migrated(CleanedUp(registered, shown, cron), shown), Created(shown, cron))

\* async_setup_entry: migrate, clean up, add the platforms' entities.
RegisteredBySetup(shown, cron) ==
  Added(CleanedUp(Migrated(registered, shown), shown, cron), Created(shown, cron))

-----------------------------------------------------------------------------

Init ==
  /\ answers \in Appliances /\ polled = answers
  /\ source = <<>> /\ data = <<>>
  /\ options \in StoredBefore
  /\ entry = "loading"
  /\ registered \in {{}} \cup (IF Upgrades THEN {LegacyEntries(answers)} ELSE {})
  /\ changes = 0 /\ saves = 0

ApplianceChanges ==
  /\ changes < MaxChanges
  /\ changes' = changes + 1
  /\ answers' \in Appliances \ {answers}
  /\ UNCHANGED <<polled, source, data, options, entry, registered, saves>>

\* The coordinator's refresh, in the poll of a setup and in every other one.
PollSucceeds ==
  /\ polled' = answers
  /\ source' = NormalizeInventory(answers, options)
  /\ data' = FilterDataBySelection(source', options)

Setup ==
  /\ entry = "loading" /\ entry' = "loaded"
  /\ PollSucceeds
  /\ UNCHANGED <<answers, options, changes, saves>>
  /\ registered' = RegisteredBySetup(data', CronSelection)

Poll ==
  /\ entry = "loaded"
  /\ PollSucceeds
  /\ UNCHANGED <<answers, options, entry, changes, saves>>
  /\ registered' = CleanedUp(registered, data', CronSelection)

\* get_live_inventory; an entry that is not loaded has no coordinator.
LiveInventory == IF entry = "loaded" THEN BuildInventory(source) ELSE NothingOffered

\* The form is submitted as it is shown, or with one value more or less.
SaveForm ==
  LET shown == UntouchedForm(LiveInventory, options)
      offered == OfferedValues(LiveInventory, options)
  IN  /\ saves < MaxSaves
      /\ saves' = saves + 1
      /\ \/ options' = shown
         \/ \E f \in Fields : \E v \in offered[f] :
              options' = [shown EXCEPT ![f] = (@ \cup {v}) \ (@ \cap {v})]
      /\ entry' = IF options' = options THEN entry ELSE "loading"
      /\ UNCHANGED <<answers, polled, source, data, registered, changes>>

Next == ApplianceChanges \/ Setup \/ Poll \/ SaveForm

Spec == Init /\ [][Next]_vars

-----------------------------------------------------------------------------
(***************************************************************************)
(* Properties.                                                             *)
(***************************************************************************)

Loaded == entry = "loaded"

\* Arrays and filesystems refer to devices, and a registry has an id once.
TypeOK ==
  /\ answers \in Appliances /\ polled \in Appliances
  /\ DOMAIN options \subseteq Fields
  /\ entry \in {"loading", "loaded"}
  /\ \A e, f \in registered : e.id = f.id => e = f
  /\ Loaded => /\ \A r \in ToSet(source.raid) : r.key \in MdDevices /\ r.members \subseteq Devices
               /\ \A f \in ToSet(source.fs) : f.disk \in Devices \cup {None}
  /\ changes \in 0 .. MaxChanges /\ saves \in 0 .. MaxSaves

\* Issue #27: no two entities of the platforms have the same unique id, however
\* many disks an array or a pool spans and however an array is spelled.  The
\* exception: a volume that one container mounts twice, in the fallback list.
NoDuplicateEntities ==
  Loaded => \A e, f \in Created(data, CronSelection) :
              e.id = f.id => e = f \/ e.id[1] = "container_volume_size"

\* Issue #93: an array that MdMgmt calls degraded is not shown as clean, unless
\* the disk list has a record of its own for the array or for a member that
\* names it; that record hides what MdMgmt says.
DegradedIsTold ==
  Loaded => \A i \in DOMAIN polled.md, r \in ToSet(source.raid) :
    LET array == polled.md[i]
        named == {ExtractRaidDevice(d) : d \in ToSet(Where(NormalizeDisks(polled.disks), InArray))}
    IN  r.key = array.ref.name /\ array.state = "degraded" /\ r.key \notin named
          => r.health = "degraded"

\* A filesystem on an array is never taken for one on a member disk that happens
\* to have its size, even when nothing but the filesystem reveals the array.
MembersStayBare ==
  Loaded => \A f \in ToSet(source.fs), r \in ToSet(polled.fs) :
    f.key = r.uuid /\ FindLogicalStorageReference(r) # None
      => f.disk = FindLogicalStorageReference(r)

\* The clean-up expects what the platforms create, and nothing else, with its
\* devices; temperatures of TempMon are the exception.
CreatedIsExpected ==
  Loaded =>
    LET created == Created(data, CronSelection)
        expected == Expected(data, CronSelection)
    IN  /\ expected \subseteq {e.id : e \in created}
        /\ \A e \in created : /\ e.id \in expected \/ e.id[1] = "tempmon"
                              /\ e.device \in ExpectedDevices(data)

\* The resource of an entity of this kind is one of the appliance's.  An array's
\* own record in the disk list, if any, is marked and names no other array; a
\* container whose project is selected is known to be of it.
Present(a, kind, key) ==
  LET Own(d) == d.ref.name = key
      Told(c) == IF c.label # NoProject THEN c.label ELSE c.inspect
  IN  \/ /\ kind \in {"disk_smart_status", "disk_bad_sectors"}
         /\ key \in {d.ref.name : d \in ToSet(a.disks)}
         /\ \A d \in ToSet(a.disks) : Own(d) => ~d.israid /\ ~d.virtual
      \/ kind = "filesystem" /\ \E f \in ToSet(a.fs) : f.uuid = key /\ f.type \notin {"zfs", "swap"}
      \/ /\ kind = "raid"
         /\ \E array \in ToSet(a.md) : Own(array)
         /\ \A d \in ToSet(a.disks) : Own(d) => d.israid /\ d.array \in {None, key}
      \/ /\ kind = "zfs_dataset" /\ a.pools # <<>>
         /\ \E d \in ToSet(a.datasets) : d.path = key /\ d.type \in {"Filesystem", "Volume"}
      \/ /\ kind \in {"zfs_pool", "scrub_active", "scrub"}
         /\ key \in Keys(NormalizeZfsPools(a.pools))
      \/ kind \in {"compose_project", "compose_button"} /\ key \in a.files
      \/ /\ kind \in ContainerKinds
         /\ \E c \in ToSet(a.containers) :
              /\ c.name = key
              /\ \A names \in SelectedValues(options, "projects") : Told(c) \in names \ {NoProject}
      \/ kind \in {"vm_state", "vm_running", "vm_switch", "vm_restart"} /\ key \in a.vms
      \/ kind = "service" /\ key \in a.services
      \/ kind = "network" /\ \E n \in ToSet(a.networks) : n.uuid = key /\ n.type # "loopback"
      \/ kind \in {"rsync_run", "rsync_enabled"} /\ key \in a.rsync
      \/ kind = "cron_run" /\ key \in a.cron

\* A poll removes the entities of a resource only when the appliance lists it no
\* more.  The exceptions: temperatures of TempMon; an entity that is nothing
\* without a value; a filesystem whose disk has another name now, since the
\* device of the old name takes the entities with it.
PruneNeedsLoss ==
  [][Loaded /\ entry' = "loaded" =>
       \A e \in registered \ registered' :
         Len(e.id) = 2 /\ Present(polled', e.id[1], e.id[2])
           => e.id[1] = "filesystem" /\ e.device \notin ExpectedDevices(data')]_vars

\* What is shown as long as nothing is selected, and yet on offer in no field:
\* members of an array, marked by the disk list; a ZFS filesystem, if it takes an
\* array's metrics from it; datasets of a pool that is mounted in another one.
NotOffered ==
  \/ \E d \in ToSet(source.disk) : d.israid /\ d.key \notin Keys(source.raid)
  \/ \E f \in ToSet(source.fs), d \in ToSet(source.disk) :
       f.type = "zfs" /\ d.israid /\ d.key = f.disk
  \/ \E d \in ToSet(source.datasets) : d.pool \notin Keys(source.pools)

\* An options form that is submitted as it was shown (say, for another scan
\* interval) changes nothing that is shown.  The exceptions: some categories were
\* stored before and others never; the entry is not loaded; something is not on
\* offer at all.
UntouchedFormKeepsAll ==
  LET untouched == UntouchedForm(LiveInventory, options)
      partial == DOMAIN options \cap ResourceFields \notin {{}, ResourceFields}
  IN  Loaded /\ ~partial /\ ~NotOffered =>
        {e.id : e \in Created(FilterDataBySelection(source, untouched), CronSelection)}
          = {e.id : e \in Created(data, CronSelection)}

\* A project's totals count the containers of the project that are shown.  The
\* exception: a container that neither the list nor docker inspect assigns to a
\* project, if its name begins like another project's or not like its own's.
CountsAddUp ==
  LET shown == data.compose
      Own(p) == {i \in DOMAIN shown : shown[i].owner = p.key}
      misleading == \E c \in ToSet(polled.containers) :
        /\ c.label = NoProject /\ c.inspect = NoProject
        /\ {p \in Keys(source.projects) : IsPrefix(p, c.name)}
             # {c.owner} \cap Keys(source.projects)
  IN  Loaded /\ ~misleading =>
        \A p \in ToSet(data.projects) :
          p.counts = [total |-> Cardinality(Own(p)),
                      running |-> Cardinality({i \in Own(p) : shown[i].running})]

\* The step keeps the user's settings of the entity e of a container that is
\* still there.
Keeps(e) ==
  \A c \in ToSet(polled'.containers) :
    e.custom /\ e.device = ContainerDevice(DockerId(c.name)) =>
      \E f \in registered' :
        f.custom /\ f.id[1] = e.id[1] /\ f.device = ContainerDevice(c.name)

\* Issue #71: the first setup of a version with name keys keeps what the user set
\* for the entities of containers, unless a selection was stored that hides some:
\* of containers, which were Docker ids, or of projects; volumes are the exception.
UpgradeKeepsUnselected ==
  [][entry = "loading" /\ entry' = "loaded"
       /\ DOMAIN options \cap {"containers", "projects"} = {} =>
     \A e \in registered : e.id[1] \in ContainerKinds => Keeps(e)]_vars

\* CHANGELOG.md:111, of the upgrade: "preserving custom names/enabled state
\* instead of losing them a final time".
UpgradeKeepsContainers ==
  [][entry = "loading" /\ entry' = "loaded" =>
       \A e \in registered : e.id[1] \in ContainerKinds => Keeps(e)]_vars

\* CHANGELOG.md:231, of the TempMon plugin: "Each sensor appears as a dedicated
\* temperature entity": a poll does not take it away while the sensor is measured.
TempMonIsExposed ==
  [][Loaded /\ entry' = "loaded" =>
       \A e \in registered \ registered' :
         ~(e.id[1] = "tempmon" /\ e.id[2] \in Measured(data'))]_vars
=============================================================================
