----------------------------- MODULE MCInventory -----------------------------
(* Inventory on an appliance with an array, ZFS, containers and a machine, *)
(* which changes in one respect at a time.                                  *)
EXTENDS Inventory

MCMdDevices == {"md0"}
MCDevices == {"sda", "sdb", "sdc", "sdc1", "sdd", "sdd1", "md0"}
MCWithoutPartition ==
  [d \in MCDevices |-> CASE d = "sdc1" -> "sdc" [] d = "sdd1" -> "sdd" [] OTHER -> d]

Ref(name) == [prefix |-> "/dev/", name |-> name]

Disk(name, size) ==
  [ref |-> [prefix |-> "", name |-> name], israid |-> FALSE, virtual |-> FALSE,
   status |-> "unknown", array |-> None, size |-> size, values |-> {"disk_temperature"}]

Member(name, size) == [Disk(name, size) EXCEPT !.israid = TRUE, !.array = "md0"]

Array(state) == [ref |-> Ref("md0"), state |-> state, members |-> {"sda", "sdb"}, size |-> 100]

Fs(uuid, device, size) == [uuid |-> uuid, type |-> "ext4", size |-> size, refs |-> <<Ref(device)>>]

Nfs == [Fs("f3", "sda", 50) EXCEPT !.type = "nfs", !.refs = <<>>]

Zfs == [Fs("f4", "sdc", 40) EXCEPT !.type = "zfs", !.refs = <<>>]

Pool(mount) ==
  [key |-> IF mount = <<>> THEN "spare" ELSE IF Len(mount) = 1 THEN mount[1] ELSE mount[1] \o mount[2],
   mount |-> mount, values |-> {"zfs_pool_last_scrub"}]

Dataset(path) == [path |-> path, type |-> "Filesystem"]

NoZfs == [pools |-> <<>>, datasets |-> <<>>]

Tank ==
  [pools |-> <<Pool(<<"tank">>), Pool(<<"tank", "media">>), [Pool(<<>>) EXCEPT !.values = {}], Pool(<<>>)>>,
   datasets |-> <<Dataset(<<"tank">>), Dataset(<<"tank", "media">>)>>]

\* A pool that is mounted in another one.
Nested ==
  [pools |-> <<Pool(<<"tank">>), [Pool(<<"tank", "backup">>) EXCEPT !.key = "backup"]>>,
   datasets |-> <<Dataset(<<"tank", "media">>), Dataset(<<"backup", "old">>)>>]

Drives == <<Disk("sda", 100), Disk("sdb", 100), Disk("sdc", 50)>>
Mounts == <<Fs("f1", "md0", 100), Fs("f2", "sdc1", 49)>>

Storage(disks, md, fs) == [disks |-> disks, md |-> md, fs |-> fs] @@ NoZfs

Storages ==
  { Storage(Drives, <<Array("clean")>>, Mounts),
    Storage(Drives, <<Array("degraded")>>, Mounts),
    Storage(Drives, <<>>, Mounts),
    Storage(<<Member("sda", 100), Member("sdb", 100)>>, <<Array("degraded")>>, <<Fs("f1", "md0", 100)>>),
    Storage(<<Member("sda", 100), [Member("sdb", 100) EXCEPT !.array = None]>>, <<>>, <<>>),
    Storage(Append(Drives, [Member("md0", 100) EXCEPT !.ref = Ref("md0")]),
            <<Array("degraded")>>, Mounts),
    Storage(<<Disk("sda", 100), Disk("sdd", 50)>>, <<>>, <<Fs("f2", "sdd1", 49), Nfs>>),
    [disks |-> Drives, md |-> <<>>, fs |-> <<Zfs, Nfs>>] @@ Tank,
    [disks |-> Drives, md |-> <<>>, fs |-> <<Zfs>>] @@ Nested,
    Storage(Drives, <<Array("clean")>>, <<[Zfs EXCEPT !.refs = <<Ref("md0")>>]>>) }

Web == <<"web">>
WebDb == <<"web", "db">>

Container(name, owner, label, inspect, mounts) ==
  [name |-> name, owner |-> owner, label |-> label, inspect |-> inspect,
   mounts |-> mounts, running |-> TRUE, values |-> {"container_version"}]

App(label, mounts) == Container(<<"web", "app">>, Web, label, Web, mounts)
Db(label, inspect) == Container(<<"web", "db", "1">>, WebDb, label, inspect, <<"v1">>)

Compose(containers, files, volumes) ==
  [containers |-> containers, files |-> files, volumes |-> volumes]

Composes ==
  { Compose(<<App(Web, <<"v1">>), Db(WebDb, WebDb)>>, {Web, WebDb}, <<>>),
    Compose(<<App(NoProject, <<"v1">>), Db(NoProject, WebDb)>>, {Web, WebDb}, <<"v1">>),
    Compose(<<[App(Web, <<"v1", "v1">>) EXCEPT !.running = FALSE], Db(NoProject, NoProject)>>,
            {Web, WebDb}, <<>>),
    Compose(<<Db(NoProject, WebDb)>>, {Web}, <<"v1", "v2">>) }

Interface(uuid, type) == [uuid |-> uuid, type |-> type, wol |-> uuid = "eth0"]

Host ==
  [services |-> {"docker", "ssh"}, vms |-> {"vm1"}, rsync |-> {"r1"}, cron |-> {"j1"},
   networks |-> <<Interface("lo", "loopback"), Interface("eth0", "ethernet"),
                  Interface("eth1", "ethernet"), Interface("eth0", "bond")>>,
   tempmon |-> {[uuid |-> "t1", currenttemp |-> "40"], [uuid |-> "t2", currenttemp |-> "-"]},
   host |-> {"cpu_temperature"}, nut |-> "values"]

Hosts ==
  { Host,
    [Host EXCEPT !.services = {"ssh"}, !.vms = {}, !.rsync = {}, !.cron = {},
                 !.networks = SubSeq(@, 1, 2), !.tempmon = {}, !.host = {}, !.nut = "disabled"] }

Home ==
  Storage(Drives, <<Array("clean")>>, Mounts)
    @@ Compose(<<App(Web, <<"v1">>), Db(WebDb, WebDb)>>, {Web, WebDb}, <<>>)
    @@ Host

MCAppliances == {s @@ Home : s \in Storages \cup Composes \cup Hosts}

NoOptions == <<>>

\* A version that knew of disks and arrays only.
PartOfThem == [disks |-> {"sda", "sdb"}, raids |-> {}]

\* A version whose containers had Docker ids.
ByDockerId == [f \in ResourceFields |->
  IF f = "containers" THEN {DockerId(<<"web", "app">>)}
  ELSE BuildInventory(NormalizeInventory(Home, <<>>))[f]]

MCStoredBefore == {NoOptions, PartOfThem}
MCStoredByIds == {NoOptions, ByDockerId}
=============================================================================
