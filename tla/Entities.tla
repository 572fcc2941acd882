------------------------------ MODULE Entities ------------------------------
(***************************************************************************)
(* The entities of the platforms (sensor.py, binary_sensor.py, button.py,  *)
(* switch.py) and the devices they belong to (entity.py).                  *)
(*                                                                         *)
(* Every platform lists its entities twice: async_setup_entry creates      *)
(* them, and get_expected_... names those that the clean-up keeps.  Both   *)
(* are translated here, each from its own loops.                           *)
(*                                                                         *)
(* data is what filter_data_by_selection returns.  A kind stands for the   *)
(* descriptions that have a value under the same condition: disk_used for  *)
(* the four metrics of a disk's filesystem, and so on; the update entity   *)
(* depends on no data.                                                     *)
(***************************************************************************)
EXTENDS Selection

Hub == <<"hub">>

\* Entities of the records of s: one of each kind of Kinds(record).
Rows(s, Key(_), Kinds(_), Device(_)) ==
  UNION {{[id |-> <<kind, Key(s[i])>>, device |-> Device(s[i]), nth |-> i]
            : kind \in Kinds(s[i])} : i \in DOMAIN s}

\* The same for resources that are nothing but a key.
Named(S, kinds, Device(_)) ==
  {[id |-> <<kind, key>>, device |-> Device(key), nth |-> 1] : kind \in kinds, key \in S}

\* Mutant: no id is looked up.
KeepsAll(rows) == rows

\* seen_keys, seen_pools: of the entities with one id, the first.
FirstOfEach(rows) == {e \in rows : \A f \in rows : f.id = e.id => e.nth <= f.nth}

OfHub(kinds) == {[id |-> <<kind>>, device |-> Hub, nth |-> 1] : kind \in kinds}

Ids(s, Key(_), Kinds(_)) == UNION {{<<kind, Key(s[i])>> : kind \in Kinds(s[i])} : i \in DOMAIN s}

KeyOf(r) == r.key

AtHub(r) == Hub

-----------------------------------------------------------------------------
(* Devices and values.                                                     *)

DiskDevice(key) == <<"disk", key>>
ProjectDevice(key) == <<"project", key>>
ContainerDevice(key) == <<"container", key>>
VmDevice(key) == <<"vm", key>>
PoolDevice(key) == <<"pool", key>>
DatasetDevice(key) == <<"dataset", key>>

\* _get_disk_by_key also finds a disk that the selection hides.
FilesystemDevice(data, f) ==
  IF f.disk \in data.known THEN DiskDevice(f.disk) ELSE <<"filesystem", f.key>>

\* get_storage_device_info of an array.
RaidDevice(data, r) == IF r.key \in data.known THEN DiskDevice(r.key) ELSE Hub

DiskIsSmartEligible(d) == ~(d.israid \/ d.logical \/ d.virtual)

\* Labels are taken to be unique: the second clause of the code adds nothing.
DiskHasBackingFilesystem(data, d) == \E i \in DOMAIN data.fs : data.fs[i].disk = d.key

UsedSensors(d) == IF d.used THEN {"disk_used"} ELSE {}
TotalSensors(d) == IF d.used \/ d.size > 0 THEN {"disk_total"} ELSE {}

\* _should_add_disk_metric of each of _DISK_SENSORS.
DiskMetrics(data, d) ==
  IF (d.israid \/ d.logical) /\ DiskHasBackingFilesystem(data, d) THEN {}
  ELSE UsedSensors(d) \cup TotalSensors(d)

Temperature(d) == IF d.israid \/ d.logical THEN {} ELSE d.values \cap {"disk_temperature"}

Plain(f) == f.type # "zfs"

NetworkSensors == {"network"}
RaidSensors == {"raid"}
TempmonSensors == {"tempmon"}
FilesystemSensors == {"filesystem"}
ProjectSensors == {"compose_project"}
VolumeSensors == {"container_volume_size"}
VmSensors == {"vm_state"}
DatasetSensors == {"zfs_dataset"}
ComposeSensors == {"docker_container"}

\* Of the containers and pools, what has a value for some of them only.
ContainerValues == {"container_created_at", "container_started_at", "container_version"}
PoolValues ==
  {"zfs_pool_last_scrub", "zfs_pool_dataset_count", "zfs_pool_snapshot_count",
   "zfs_pool_total_size", "zfs_pool_used_size", "zfs_pool_free_size",
   "zfs_pool_used_percent", "zfs_pool_free_percent"}

ContainerSensors(c) == {"container_state"} \cup c.values
PoolSensors(p) == {"zfs_pool"} \cup p.values

\* SYSTEM_SENSORS, GPU_SENSORS and UPS_SENSORS that have a value.
HostSensors(data) == {"cpu_load"} \cup data.host \cup data.nut

Problems(d) == IF DiskIsSmartEligible(d) THEN {"disk_bad_sectors"} ELSE {}

\* The interfaces that get a Wake-on-LAN button.
Wakeable(data) == {n.key : n \in {x \in ToSet(data.networks) : x.wol}}

\* The sensors of TempMon that have a value.
Measured(data) == {t.key : t \in {x \in data.tempmon : x.measured}}

Smart(d) ==
  IF DiskIsSmartEligible(d) THEN {"disk_smart_status"} \cup (d.values \cap {"disk_wear"}) ELSE {}

-----------------------------------------------------------------------------
(* async_setup_entry of the platforms.                                     *)

DiskSensors(data) ==
  LET Kinds(d) == Temperature(d) \cup DiskMetrics(data, d) \cup Smart(d)
  IN  Rows(data.disk, KeyOf, Kinds, LAMBDA d : DiskDevice(d.key))

\* Filesystems, _COLLECTION_SENSORS, TempMon, machines and datasets.
StorageSensors(data) ==
  LET plain == Where(data.fs, Plain)
  IN  UNION {
        Rows(plain, KeyOf, LAMBDA f : FilesystemSensors, LAMBDA f : FilesystemDevice(data, f)),
        FirstOfEach(Rows(data.networks, KeyOf, LAMBDA n : NetworkSensors, AtHub)),
        FirstOfEach(Rows(data.raid, KeyOf, LAMBDA r : RaidSensors, LAMBDA r : RaidDevice(data, r))),
        FirstOfEach(Rows(data.pools, KeyOf, PoolSensors, LAMBDA p : PoolDevice(p.key))),
        Named(Measured(data), TempmonSensors, AtHub),
        Named(data.vms, VmSensors, VmDevice),
        Rows(data.datasets, KeyOf, LAMBDA d : DatasetSensors, LAMBDA d : DatasetDevice(d.key))}

\* The host's, the compose plugin's, and the above.
CreatedSensors(data) ==
  UNION {
    OfHub(HostSensors(data)),
    OfHub(IF data.summary THEN ComposeSensors ELSE {}),
    Rows(data.projects, KeyOf, LAMBDA p : ProjectSensors, LAMBDA p : ProjectDevice(p.key)),
    Rows(data.compose, KeyOf, ContainerSensors, LAMBDA c : ContainerDevice(c.key)),
    Rows(data.volumes, KeyOf, LAMBDA v : VolumeSensors, LAMBDA v : ContainerDevice(v.container)),
    DiskSensors(data),
    StorageSensors(data)}

CreatedBinarySensors(data) ==
  UNION {
    OfHub({"reboot_required", "reachable"}),
    OfHub(IF data.nut # {} THEN {"ups_on_battery"} ELSE {}),
    Named(data.services, {"service"}, AtHub),
    Rows(data.disk, KeyOf, Problems, LAMBDA d : DiskDevice(d.key)),
    Named(data.vms, {"vm_running"}, VmDevice),
    Named(data.rsync, {"rsync_enabled"}, AtHub),
    FirstOfEach(Rows(data.pools, KeyOf, LAMBDA p : {"scrub_active"},
                     LAMBDA p : PoolDevice(p.key)))}

CreatedButtons(data, cron) ==
  LET Commands(p) == IF p.uuid THEN {"compose_button"} ELSE {}
  IN  UNION {
        OfHub({"reboot", "shutdown", "standby", "apply_config"}),
        OfHub(IF data.summary THEN {"compose_system_button"} ELSE {}),
        Rows(data.projects, KeyOf, Commands, LAMBDA p : ProjectDevice(p.key)),
        Rows(data.compose, KeyOf, LAMBDA c : {"container_restart"},
             LAMBDA c : ContainerDevice(c.key)),
        Named(data.vms, {"vm_restart"}, VmDevice),
        Named(data.rsync, {"rsync_run"}, AtHub),
        Named(data.cron \cap cron, {"cron_run"}, AtHub),
        FirstOfEach(Rows(data.pools, KeyOf, LAMBDA p : {"scrub"}, LAMBDA p : PoolDevice(p.key))),
        Named(Wakeable(data), {"wol"}, AtHub)}

CreatedSwitches(data) ==
  Rows(data.compose, KeyOf, LAMBDA c : {"container_switch"}, LAMBDA c : ContainerDevice(c.key))
    \cup Named(data.vms, {"vm_switch"}, VmDevice)

Created(data, cron) ==
  CreatedSensors(data) \cup CreatedBinarySensors(data) \cup CreatedButtons(data, cron)
    \cup CreatedSwitches(data)

-----------------------------------------------------------------------------
(* get_expected_... of the platforms.                                      *)

\* The identifiers of get_expected_sensor_registry_state; tempmon has no loop.
ExpectedSensorIds(data) ==
  LET Disk(d) == Temperature(d) \cup DiskMetrics(data, d) \cup Smart(d)
      plain == Where(data.fs, Plain)
  IN  UNION {
        {<<kind>> : kind \in HostSensors(data)},
        {<<kind>> : kind \in IF data.summary THEN ComposeSensors ELSE {}},
        Ids(data.disk, KeyOf, Disk),
        Ids(plain, KeyOf, LAMBDA f : FilesystemSensors),
        Ids(data.projects, KeyOf, LAMBDA p : ProjectSensors),
        Ids(data.compose, KeyOf, ContainerSensors),
        Ids(data.volumes, KeyOf, LAMBDA v : VolumeSensors),
        Ids(data.networks, KeyOf, LAMBDA n : NetworkSensors),
        Ids(data.raid, KeyOf, LAMBDA r : RaidSensors),
        Ids(data.pools, KeyOf, PoolSensors),
        VmSensors \X data.vms,
        Ids(data.datasets, KeyOf, LAMBDA d : DatasetSensors)}

\* The devices it names; only sensors name devices.  The hub's always stays.
ExpectedDevices(data) ==
  LET Has(d) == Temperature(d) \cup DiskMetrics(data, d) \cup Smart(d) # {}
      plain == Where(data.fs, Plain)
  IN  UNION {
        {Hub},
        {DiskDevice(data.disk[i].key) : i \in {j \in DOMAIN data.disk : Has(data.disk[j])}},
        {FilesystemDevice(data, plain[i]) : i \in DOMAIN plain},
        {ProjectDevice(data.projects[i].key) : i \in DOMAIN data.projects},
        {ContainerDevice(data.compose[i].key) : i \in DOMAIN data.compose},
        {ContainerDevice(data.volumes[i].container) : i \in DOMAIN data.volumes},
        {RaidDevice(data, data.raid[i]) : i \in DOMAIN data.raid},
        {PoolDevice(data.pools[i].key) : i \in DOMAIN data.pools},
        {VmDevice(vm) : vm \in data.vms},
        {DatasetDevice(data.datasets[i].key) : i \in DOMAIN data.datasets}}

ExpectedBinarySensorIds(data) ==
  UNION {
    {<<"reboot_required">>, <<"reachable">>},
    IF data.nut # {} THEN {<<"ups_on_battery">>} ELSE {},
    {"service"} \X data.services,
    Ids(data.disk, KeyOf, Problems),
    {"vm_running"} \X data.vms,
    {"rsync_enabled"} \X data.rsync,
    Ids(data.pools, KeyOf, LAMBDA p : {"scrub_active"})}

ExpectedButtonIds(data, cron) ==
  LET Commands(p) == IF p.uuid THEN {"compose_button"} ELSE {}
  IN  UNION {
        {<<"reboot">>, <<"shutdown">>, <<"standby">>, <<"apply_config">>},
        IF data.summary THEN {<<"compose_system_button">>} ELSE {},
        Ids(data.projects, KeyOf, Commands),
        Ids(data.compose, KeyOf, LAMBDA c : {"container_restart"}),
        {"vm_restart"} \X data.vms,
        {"rsync_run"} \X data.rsync,
        {"cron_run"} \X (data.cron \cap cron),
        Ids(data.pools, KeyOf, LAMBDA p : {"scrub"}),
        {"wol"} \X Wakeable(data)}

\* Mutant: the virtual machines are left out.
ExpectedContainersOnly(data) ==
  Ids(data.compose, KeyOf, LAMBDA c : {"container_switch"})

ExpectedSwitchIds(data) ==
  Ids(data.compose, KeyOf, LAMBDA c : {"container_switch"}) \cup ({"vm_switch"} \X data.vms)

Expected(data, cron) ==
  ExpectedSensorIds(data) \cup ExpectedBinarySensorIds(data) \cup ExpectedButtonIds(data, cron)
    \cup ExpectedSwitchIds(data)
=============================================================================
