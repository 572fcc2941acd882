------------------------------- MODULE Storage -------------------------------
(***************************************************************************)
(* What coordinator.py makes of the storage answers of OMV: disks, md      *)
(* arrays, filesystems and ZFS pools from DiskMgmt, MdMgmt,                *)
(* FileSystemMgmt and zfs.                                                 *)
(*                                                                         *)
(* A device reference is a prefix ("", "/dev/", "/dev/mapper/") and the    *)
(* device's name; a mount point or dataset path is the sequence of its     *)
(* segments; sizes are whole gigabytes.                                    *)
(***************************************************************************)
EXTENDS Records, TLC

CONSTANTS
  Devices,            \* the names of block devices
  MdDevices,          \* those that begin with "md"
  WithoutPartition    \* a name without its trailing "1", "p1", ...

ASSUME DevicesAssumption ==
  /\ MdDevices \subseteq Devices
  /\ WithoutPartition \in [Devices -> Devices]

None == "none"

NormalizeDeviceReference(ref) == ref.name

-----------------------------------------------------------------------------
(* Disks and arrays.                                                       *)

NoMetrics == [source |-> None, used |-> FALSE]

NormalizeDisks(records) ==
  LET Name(r) == NormalizeDeviceReference(r.ref)
      Disk(r) == [key |-> Name(r), israid |-> r.israid, logical |-> FALSE,
                  virtual |-> r.virtual, status |-> r.status, array |-> r.array,
                  members |-> {}, size |-> r.size, values |-> r.values]
  IN  Each(Distinct(records, Name), Disk)

\* A device that stands for an array; OMV's disk list usually omits it.
LogicalDisk(name, status, members, size) ==
  [key |-> name, israid |-> TRUE, logical |-> TRUE, virtual |-> FALSE,
   status |-> status, array |-> None, members |-> members, size |-> size,
   values |-> {}]

\* Arrays that MdMgmt reports and the disk list does not.
AugmentDisksWithMdDevices(disks, records) ==
  LET Name(r) == NormalizeDeviceReference(r.ref)
      New(r) == Name(r) \in MdDevices \ Keys(disks)
      Disk(r) == LogicalDisk(Name(r), r.state, r.members, r.size)
  IN  disks \o Each(Distinct(Where(records, New), Name), Disk)

\* _find_logical_storage_reference: the parent, canonical, plain device file
\* and the name, in this order.
FindLogicalStorageReference(record) ==
  LET found == {i \in DOMAIN record.refs : NormalizeDeviceReference(record.refs[i]) \in MdDevices}
  IN  IF found = {} THEN None ELSE NormalizeDeviceReference(record.refs[Least(found)])

\* Mutant: arrays that only filesystems reveal are left out.
AugmentNothing(disks, records) == disks

\* Arrays that only the filesystems on them reveal.
AugmentDisksWithLogicalStorage(disks, records) ==
  LET New(r) == FindLogicalStorageReference(r) \notin Keys(disks) \cup {None}
      Disk(r) == LogicalDisk(FindLogicalStorageReference(r), "unknown", {}, r.size)
  IN  disks \o Each(Distinct(Where(records, New), FindLogicalStorageReference), Disk)

\* The array that the description names, or the one that the device is.
ExtractRaidDevice(disk) ==
  IF disk.array # None THEN disk.array
  ELSE IF disk.key \in MdDevices THEN disk.key ELSE None

\* A status that is unknown passes for a clean array.
RaidHealthFromDisk(disk) ==
  IF disk.status \in {"PASSED", "unknown", "clean"} THEN "clean" ELSE disk.status

Raid(disk, disks) ==
  LET of == {i \in DOMAIN disks : ExtractRaidDevice(disks[i]) = ExtractRaidDevice(disk)}
      Members(d) == IF d.members # {} THEN d.members ELSE {d.key}
  IN  [key |-> ExtractRaidDevice(disk), health |-> RaidHealthFromDisk(disk),
       members |-> UNION {Members(disks[i]) : i \in of}]

InArray(disk) == disk.israid /\ ExtractRaidDevice(disk) # None

\* Mutant: members of an array without a name make an array, too.
RaidsWithoutName(disks) ==
  LET Part(d) == d.israid
      parts == Where(disks, Part)
  IN  Each(Distinct(parts, ExtractRaidDevice), LAMBDA d : Raid(d, parts))

\* One record per array; its first disk record decides on the health.
NormalizeRaids(disks) ==
  LET parts == Where(disks, InArray)
  IN  Each(Distinct(parts, ExtractRaidDevice), LAMBDA d : Raid(d, parts))

-----------------------------------------------------------------------------
(* Filesystems and their metrics.                                          *)

Distance(a, b) == IF a > b THEN a - b ELSE b - a

\* A disk of about that size, if there is just one.
MatchDiskBySize(size, disks) ==
  LET exact == {i \in DOMAIN disks : Distance(disks[i].size, size) <= 1}
      close == {i \in DOMAIN disks : /\ disks[i].size >= size
                                     /\ 100 * (disks[i].size - size) <= 8 * disks[i].size}
  IN  IF size = 0 THEN None
      ELSE IF Cardinality(exact) = 1 THEN disks[Least(exact)].key
      ELSE IF Cardinality(close) = 1 THEN disks[Least(close)].key
      ELSE None

VirtualTypes == {"fuse", "nfs"}

\* The disk that the record names, or of which it names a partition (any, if
\* the references contradict one another), or one of its size.
MapFilesystemToDisk(record, disks) ==
  LET names == {NormalizeDeviceReference(record.refs[i]) : i \in DOMAIN record.refs}
      named == {i \in DOMAIN disks : disks[i].key \in names}
      parents == {WithoutPartition[n] : n \in {m \in names : WithoutPartition[m] # m}}
                   \cap Keys(disks)
  IN  IF named # {} THEN disks[Least(named)].key
      ELSE IF parents # {} THEN CHOOSE p \in parents : TRUE
      ELSE IF record.type \in VirtualTypes THEN None
      ELSE MatchDiskBySize(record.size, disks)

NormalizeFilesystems(records, disks) ==
  LET Shown(r) == r.type # "swap"
      Filesystem(r) == [key |-> r.uuid, type |-> r.type, size |-> r.size,
                        disk |-> MapFilesystemToDisk(r, disks)]
  IN  Each(Where(records, Shown), Filesystem)

\* The metrics of the largest filesystem on a disk; ZFS keeps its own.
BestStorageCandidate(key, filesystems) ==
  LET on == {i \in DOMAIN filesystems : filesystems[i].type # "zfs" /\ filesystems[i].disk = key}
      largest == {i \in on : \A j \in on : filesystems[i].size >= filesystems[j].size}
  IN  IF on = {} THEN NoMetrics
      ELSE [source |-> filesystems[Least(largest)].key, used |-> TRUE]

ApplyStorageMetrics(disks, filesystems) ==
  LET Best(d) == BestStorageCandidate(d.key, filesystems)
      Measured(d) == [key |-> d.key, israid |-> d.israid, logical |-> d.logical,
                      virtual |-> d.virtual, status |-> d.status, array |-> d.array,
                      members |-> d.members, size |-> d.size, values |-> d.values,
                      source |-> Best(d).source, used |-> Best(d).used]
  IN  Each(disks, Measured)

-----------------------------------------------------------------------------
(* ZFS.                                                                    *)

\* The records that are not mounted below another one.
NormalizeZfsPools(records) ==
  LET Below(r, other) == other.mount # <<>> /\ IsStrictPrefix(other.mount, r.mount)
      Top(r) == \A i \in DOMAIN records : ~Below(r, records[i])
  IN  Where(records, Top)

\* Datasets, without the root dataset of the pool.
NormalizeZfsDatasets(records) ==
  LET IsDataset(r) == r.type \in {"Filesystem", "Volume"} /\ Len(r.path) > 1
      Dataset(r) == [key |-> r.path, pool |-> Head(r.path)]
  IN  Each(Where(records, IsDataset), Dataset)
=============================================================================
